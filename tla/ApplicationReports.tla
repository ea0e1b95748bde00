------------------------- MODULE ApplicationReports -------------------------
(***************************************************************************)
(* How the outcome of a revision (received, failed, applied) reaches the   *)
(* device platform: three goroutines share one queue of reports, one of    *)
(* them at a time sends its head, and a report is retried under its key    *)
(* until it is confirmed.                                                  *)
(*                                                                         *)
(* Source: internal/controlplane/device_platform.go; the callers are in    *)
(* internal/service/service.go.                                            *)
(*                                                                         *)
(* The place of a report in the history of all reports stands for the      *)
(* random key it is given.                                                 *)
(***************************************************************************)
EXTENDS Naturals, SequencesExt

CONSTANTS
    Failures,    \* failed results: a stage and an error
    MaxRevision, \* bound: revisions of the node
    MaxReports,  \* bound: reports ever queued
    Keep,        \* revisions applicationLast remembers (8 in the code)
    Nil          \* no result, no request

ASSUME ApplicationAssumption ==
    /\ MaxRevision \in Nat /\ MaxReports \in Nat /\ Keep \in Nat
    /\ Failures \cap {"received", "applied"} = {}

VARIABLES
    revision,  \* highest revision reported as applied
    last,      \* applicationLast: the last result of each revision, or Nil
    pending,   \* pendingApplications
    pc,        \* where each goroutine is
    arg,       \* the result it reports, or Nil
    sending,   \* the report it waits for, or Nil
    polling,   \* the pull goroutine is between the fetch and its end
    fetched,   \* revision fetched last, 0 before the first one
    result,    \* pullResults, a channel of one place: a revision, or 0
    wire,      \* reports ever sent: may arrive late or twice
    log,       \* reports in the order the platform first processed them
    issued     \* history: all reports in the order they were queued

vars == <<revision, last, pending, pc, arg, sending, polling, fetched, result,
          wire, log, issued>>
pollVars == <<polling, fetched, result>>

\* The select loop, the goroutine of pullViaAPIAsync, that of pushReportAsync.
Goroutines == {"loop", "pull", "push"}

Revisions == 1..MaxRevision
Statuses == {"received", "applied"} \cup Failures
Outcome == [rev : Revisions, status : Statuses]
Report == [key : 1..MaxReports, rev : Revisions, status : Statuses]

Init ==
    /\ revision = 0
    /\ last = [r \in Revisions |-> Nil]
    /\ pending = <<>>
    /\ pc = [g \in Goroutines |-> "idle"]
    /\ arg = [g \in Goroutines |-> Nil]
    /\ sending = [g \in Goroutines |-> Nil]
    /\ polling = FALSE
    /\ fetched = 0
    /\ result = 0
    /\ wire = {}
    /\ log = <<>>
    /\ issued = <<>>

\* Mutant: a result is reported whatever has been applied since.
CallUnchecked(g, res) ==
    /\ pc[g] = "idle"
    /\ revision' = IF res.status = "applied" /\ res.rev > revision
                   THEN res.rev ELSE revision
    /\ pc' = [pc EXCEPT ![g] = "checked"]
    /\ arg' = [arg EXCEPT ![g] = res]
    /\ UNCHANGED <<last, pending, sending, wire, log, issued>>

\* ReportApplication up to applicationMu: revision is advanced or tested.
Call(g, res) ==
    /\ pc[g] = "idle"
    /\ revision' = IF res.status = "applied" /\ res.rev > revision
                   THEN res.rev ELSE revision
    /\ IF res.status # "applied" /\ res.rev <= revision
       THEN UNCHANGED <<pc, arg>>
       ELSE /\ pc' = [pc EXCEPT ![g] = "checked"]
            /\ arg' = [arg EXCEPT ![g] = res]
    /\ UNCHANGED <<last, pending, sending, wire, log, issued>>

\* A poll has fetched the specification, which never gets older: "received".
PullReceives(r) ==
    /\ ~polling
    /\ polling' = TRUE
    /\ r >= fetched
    /\ fetched' = r
    /\ Call("pull", [rev |-> r, status |-> "received"])
    /\ UNCHANGED result

\* The kernel, the conversion or the users make the poll fail.
PullFails(f) ==
    /\ polling
    /\ polling' = FALSE
    /\ Call("pull", [rev |-> fetched, status |-> f])
    /\ UNCHANGED <<fetched, result>>

\* The poll's snapshot is put into the channel.
PullHandsOver ==
    /\ pc["pull"] = "idle"
    /\ polling
    /\ polling' = FALSE
    /\ result = 0
    /\ result' = fetched
    /\ UNCHANGED <<revision, last, pending, pc, arg, sending, fetched, wire,
                   log, issued>>

\* applyPullResult fails, or ends with confirmApplication, which reports a
\* revision that is not the applied one yet.
LoopApplies ==
    /\ result # 0
    /\ result' = 0
    /\ \/ \E f \in Failures : Call("loop", [rev |-> result, status |-> f])
       \/ /\ result # revision
          /\ Call("loop", [rev |-> result, status |-> "applied"])
       \/ /\ pc["loop"] = "idle"
          /\ result = revision
          /\ UNCHANGED <<revision, last, pending, pc, arg, sending, wire, log,
                         issued>>
    /\ UNCHANGED <<polling, fetched>>

\* The section under applicationMu: a known result is not queued again.
Known(res) ==
    last[res.rev] # Nil /\ (last[res.rev] = res.status \/ res.status = "received")

Enqueue(g) ==
    LET res == arg[g]
        report == [key |-> Len(issued) + 1, rev |-> res.rev,
                   status |-> res.status]
    IN  /\ pc[g] = "checked"
        /\ \/ /\ Known(res)
              /\ UNCHANGED <<last, pending, issued>>
           \/ /\ ~Known(res)
              /\ Len(issued) < MaxReports
              /\ last' = [r \in Revisions |->
                             IF r = res.rev THEN res.status
                             ELSE IF r + Keep < res.rev THEN Nil
                             ELSE last[r]]
              /\ pending' = Append(pending, report)
              /\ issued' = Append(issued, report)
        /\ pc' = [pc EXCEPT ![g] = "flush"]
        /\ arg' = [arg EXCEPT ![g] = Nil]
        /\ UNCHANGED <<revision, sending, pollVars, wire, log>>

\* Report, with which pushReportAsync sends its telemetry, begins with a flush.
PushFlushes ==
    /\ pc["push"] = "idle"
    /\ pc' = [pc EXCEPT !["push"] = "flush"]
    /\ UNCHANGED <<revision, last, pending, arg, sending, pollVars, wire,
                   log, issued>>

\* One turn of the loop of flushApplications: send the head, or return.
SendHead(g, queue) ==
    IF queue = <<>>
    THEN /\ pc' = [pc EXCEPT ![g] = "idle"]
         /\ sending' = [sending EXCEPT ![g] = Nil]
         /\ UNCHANGED wire
    ELSE /\ pc' = [pc EXCEPT ![g] = "sending"]
         /\ sending' = [sending EXCEPT ![g] = Head(queue)]
         /\ wire' = wire \cup {Head(queue)}

\* flushApplications takes applicationSendMu.
FlushBegins(g) ==
    /\ pc[g] = "flush"
    /\ \A h \in Goroutines : pc[h] # "sending"
    /\ SendHead(g, pending)
    /\ UNCHANGED <<revision, last, pending, arg, pollVars, log, issued>>

\* The platform processes a report, once for each key.
PlatformReceives(m) ==
    /\ m \in wire
    /\ ~Contains(log, m)
    /\ log' = Append(log, m)
    /\ UNCHANGED <<revision, last, pending, pc, arg, sending, pollVars,
                   wire, issued>>

\* The report is confirmed: it leaves the queue, and the next one is sent.
SendSucceeds(g) ==
    /\ pc[g] = "sending"
    /\ Contains(log, sending[g])
    /\ pending' = Tail(pending)
    /\ SendHead(g, pending')
    /\ UNCHANGED <<revision, last, arg, pollVars, log, issued>>

\* Mutant: a report that fails is dropped.
SendFailsDropping(g) ==
    /\ pc[g] = "sending"
    /\ pending' = Tail(pending)
    /\ pc' = [pc EXCEPT ![g] = "idle"]
    /\ sending' = [sending EXCEPT ![g] = Nil]
    /\ UNCHANGED <<revision, last, arg, pollVars, wire, log, issued>>

\* Mutant: a report that fails keeps applicationSendMu.
SendFailsHolding(g) ==
    /\ pc[g] = "sending"
    /\ sending' = [sending EXCEPT ![g] = Nil]
    /\ UNCHANGED <<revision, last, pending, pc, arg, pollVars, wire, log,
                   issued>>

\* The request failed or its response was lost: the report stays the head.
SendFails(g) ==
    /\ pc[g] = "sending"
    /\ pc' = [pc EXCEPT ![g] = "idle"]
    /\ sending' = [sending EXCEPT ![g] = Nil]
    /\ UNCHANGED <<revision, last, pending, arg, pollVars, wire, log,
                   issued>>

Next ==
    \/ \E r \in Revisions : PullReceives(r)
    \/ \E f \in Failures : PullFails(f)
    \/ PullHandsOver
    \/ LoopApplies
    \/ PushFlushes
    \/ \E g \in Goroutines :
          Enqueue(g) \/ FlushBegins(g) \/ SendSucceeds(g) \/ SendFails(g)
    \/ \E m \in wire : PlatformReceives(m)

Spec == Init /\ [][Next]_vars

\* Goroutines run; the report ticker comes again and again and its goroutine
\* gets applicationSendMu in the end; of the requests that are repeated for
\* ever one arrives and one is confirmed.
Fairness ==
    /\ WF_vars(PushFlushes)
    /\ SF_vars(FlushBegins("push"))
    /\ WF_vars(\E m \in wire : PlatformReceives(m))
    /\ \A g \in Goroutines :
          /\ WF_vars(SendSucceeds(g) \/ SendFails(g))
          /\ SF_vars(SendSucceeds(g))

LiveSpec == Spec /\ Fairness

-----------------------------------------------------------------------------
(***************************************************************************)
(* Properties.                                                             *)
(***************************************************************************)

\* Every variable has its type; whoever sends, sends the head of the queue.
TypeOK ==
    /\ revision \in 0..MaxRevision
    /\ last \in [Revisions -> Statuses \cup {Nil}]
    /\ pending \in Seq(Report) /\ log \in Seq(Report) /\ issued \in Seq(Report)
    /\ pc \in [Goroutines -> {"idle", "checked", "flush", "sending"}]
    /\ arg \in [Goroutines -> Outcome \cup {Nil}]
    /\ sending \in [Goroutines -> Report \cup {Nil}]
    /\ polling \in BOOLEAN
    /\ fetched \in 0..MaxRevision /\ result \in 0..MaxRevision
    /\ wire \subseteq Report
    /\ \A g \in Goroutines :
          pc[g] = "sending" => pending # <<>> /\ sending[g] = Head(pending)

\* "ReportApplication retains a stable event/key until confirmed": the platform
\* has learnt of the first results, in the order they were reported, and the
\* last ones are queued in that order, with none missing in between, although
\* three goroutines send them and requests arrive late.
QueueContinuesLog ==
    /\ IsPrefix(log, issued)
    /\ IsSuffix(pending, issued)
    /\ Len(log) + Len(pending) >= Len(issued)

\* Once a revision is reported applied, at most one more result of it or of an
\* older one is reported: that of a poll that had passed the test of revision.
AppliedSettles ==
    \A i \in DOMAIN issued : issued[i].status = "applied" =>
        \A j, k \in (i+1)..Len(issued) :
            issued[j].rev <= issued[i].rev /\ issued[k].rev <= issued[i].rev => j = k

\* "A lost ACK response is retried by normal telemetry": every report reaches
\* the platform (reports are bounded, so there is a last one).
AllDelivered == []<>(log = issued)
=============================================================================
