--------------------------- MODULE TrafficReport ---------------------------
(***************************************************************************)
(* Traffic accounting of one node: the kernel's cumulative counters, the   *)
(* tracker that turns them into deltas, the report batch the service       *)
(* retries under one idempotency key, and the panel that bills a batch.    *)
(*                                                                         *)
(* Sources: internal/tracker/tracker.go, internal/service/service.go.      *)
(* The upload and download counters of a user are treated alike by the     *)
(* code, so one counter per user stands for the pair.                      *)
(***************************************************************************)
EXTENDS Naturals, Functions

CONSTANTS
    Users,        \* user ids
    MaxTraffic,   \* bound: traffic units all users ever transfer
    MaxBatches,   \* bound: batches ever created
    MaxStarts,    \* bound: kernel starts and restarts
    None          \* no report

ASSUME TrafficAssumption ==
    /\ MaxTraffic \in Nat
    /\ MaxBatches \in Nat
    /\ MaxStarts \in Nat

VARIABLES
    phase,          \* "run": select loop; "drain": pushReportSync; "down"
    running,        \* kernel.IsRunning()
    cum,            \* kernel counters, since the kernel was last started
    lastSeen,       \* Tracker.lastSeen
    pendingTraffic, \* Tracker.pendingTraffic
    pendingReport,  \* Service.pendingReport
    pushActive,     \* Service.pushActive
    skipRemaining,  \* Service.pushBackoff.skipRemaining
    async,          \* batch the pushReportAsync goroutine waits for, or None
    sync,           \* batch pushReportSync waits for, or None
    wire,           \* batches ever put on the network: may arrive late or twice
    received,       \* batch ids (idempotency keys) the panel has processed
    billed,         \* traffic the panel has billed
    nextId,         \* next fresh batch id (the code draws 12 random bytes)
    starts,         \* kernel starts so far (bound only)
    used,           \* history: traffic that crossed the kernel
    unseen,         \* history: what crossed this kernel since the last tick
    tracked,        \* history: traffic ever added to pendingTraffic
    lost            \* history: tracked traffic a stopped service still held

kernelVars == <<running, cum, starts, used>>
trackerVars == <<lastSeen, pendingTraffic, unseen, tracked>>
panelVars == <<received, billed>>
vars == <<phase, running, cum, lastSeen, pendingTraffic, pendingReport,
          pushActive, skipRemaining, async, sync, wire, received, billed,
          nextId, starts, used, unseen, tracked, lost>>

Zero == [u \in Users |-> 0]

\* A batch. The fields from and to are history: the batch holds the part
\* (from, to] of all the traffic the tracker has ever counted.
Batch == [id : Nat, traffic : [Users -> Nat],
          from : [Users -> Nat], to : [Users -> Nat]]

Init ==
    /\ phase = "run"
    /\ running = FALSE
    /\ cum = Zero
    /\ lastSeen = Zero
    /\ pendingTraffic = Zero
    /\ pendingReport = None
    /\ pushActive = FALSE
    /\ skipRemaining = 0
    /\ async = None
    /\ sync = None
    /\ wire = {}
    /\ received = {}
    /\ billed = Zero
    /\ nextId = 0
    /\ starts = 0
    /\ used = Zero
    /\ unseen = Zero
    /\ tracked = Zero
    /\ lost = Zero

(***************************************************************************)
(* The kernel.                                                             *)
(***************************************************************************)

\* A user's connection moves one unit of traffic.
Transfer(u) ==
    /\ running
    /\ SumFunction(used) < MaxTraffic
    /\ cum' = [cum EXCEPT ![u] = @ + 1]
    /\ used' = [used EXCEPT ![u] = @ + 1]
    /\ unseen' = [unseen EXCEPT ![u] = @ + 1]
    /\ UNCHANGED <<phase, running, starts, lastSeen, pendingTraffic, tracked,
                   pendingReport, pushActive, skipRemaining, async, sync, wire,
                   panelVars, nextId, lost>>

\* Start, and a Reload that falls back to Start: the new instance counts
\* from zero and the tracker is not told.
KernelStart ==
    /\ phase = "run"
    /\ starts < MaxStarts
    /\ starts' = starts + 1
    /\ running' = TRUE
    /\ cum' = Zero
    /\ unseen' = Zero
    /\ UNCHANGED <<phase, used, lastSeen, pendingTraffic, tracked,
                   pendingReport, pushActive, skipRemaining, async, sync, wire,
                   panelVars, nextId, lost>>

\* applyChanges with an empty user list stops the kernel.
KernelStop ==
    /\ phase = "run"
    /\ running
    /\ running' = FALSE
    /\ UNCHANGED <<phase, cum, starts, used, trackerVars, pendingReport,
                   pushActive, skipRemaining, async, sync, wire, panelVars,
                   nextId, lost>>

(***************************************************************************)
(* The tracker.                                                            *)
(***************************************************************************)

\* GetUserTraffic lists a user only once its counter is above zero.
GetUserTraffic == {u \in Users : cum[u] > 0}

\* A counter below the one seen last is taken for a restarted kernel.
Delta(u) == IF cum[u] < lastSeen[u] THEN cum[u] ELSE cum[u] - lastSeen[u]

Process ==
    /\ lastSeen' = [u \in Users |-> IF u \in GetUserTraffic THEN cum[u] ELSE lastSeen[u]]
    /\ pendingTraffic' = [u \in Users |-> IF u \in GetUserTraffic
                            THEN pendingTraffic[u] + Delta(u) ELSE pendingTraffic[u]]
    /\ tracked' = [u \in Users |-> IF u \in GetUserTraffic
                            THEN tracked[u] + Delta(u) ELSE tracked[u]]
    /\ unseen' = Zero

\* trackTicker.
TrackAndEnforce ==
    /\ phase = "run"
    /\ running
    /\ Process
    /\ UNCHANGED <<phase, kernelVars, pendingReport, pushActive, skipRemaining,
                   async, sync, wire, panelVars, nextId, lost>>

(***************************************************************************)
(* The report batch.                                                       *)
(***************************************************************************)

\* What beginReport flushes when no batch is pending.
Flushed == [id |-> nextId, traffic |-> pendingTraffic,
            from |-> [u \in Users |-> tracked[u] - pendingTraffic[u]],
            to |-> tracked]

\* Mutant: a retry keeps the key and adds what has been counted since.
BegunMerging ==
    IF pendingReport # None
    THEN [Flushed EXCEPT !.id = pendingReport.id, !.from = pendingReport.from,
                         !.traffic = [u \in Users |-> @[u] + pendingReport.traffic[u]]]
    ELSE Flushed

\* beginReport's result: the unconfirmed batch as it was, or a fresh one.
Begun == IF pendingReport # None THEN pendingReport ELSE Flushed

BeginReport ==
    /\ pendingReport' = Begun
    /\ wire' = wire \cup {Begun}
    /\ \/ /\ pendingReport # None
          /\ UNCHANGED <<pendingTraffic, nextId>>
       \/ /\ pendingReport = None
          /\ nextId < MaxBatches
          /\ nextId' = nextId + 1
          /\ pendingTraffic' = Zero

CompleteReport(id) ==
    pendingReport' = IF pendingReport # None /\ pendingReport.id = id
                     THEN None ELSE pendingReport

\* apiBackoff.onFailure.
OnFailure ==
    skipRemaining' = IF skipRemaining <= 0 THEN 1
                     ELSE IF skipRemaining < 8 THEN 2 * skipRemaining
                     ELSE skipRemaining

\* reportTicker while backing off: shouldSkip consumes one tick.
PushSkipped ==
    /\ phase = "run"
    /\ ~pushActive
    /\ skipRemaining > 0
    /\ skipRemaining' = skipRemaining - 1
    /\ UNCHANGED <<phase, kernelVars, trackerVars, pendingReport, pushActive,
                   async, sync, wire, panelVars, nextId, lost>>

\* reportTicker: one push at a time, handed to a goroutine.
PushReportAsync ==
    /\ phase = "run"
    /\ ~pushActive
    /\ skipRemaining = 0
    /\ pushActive' = TRUE
    /\ BeginReport
    /\ async' = Begun
    /\ UNCHANGED <<phase, kernelVars, lastSeen, unseen, tracked, skipRemaining,
                   sync, panelVars, lost>>

\* The goroutine's Report returned nil: the panel has the batch.
AsyncSucceeds ==
    /\ async # None
    /\ async.id \in received
    /\ CompleteReport(async.id)
    /\ skipRemaining' = 0
    /\ async' = None
    /\ pushActive' = FALSE
    /\ UNCHANGED <<phase, kernelVars, trackerVars, sync, wire, panelVars,
                   nextId, lost>>

\* Mutant: a failed push gives its traffic back to the tracker.
AsyncFailsRestoring ==
    /\ async # None
    /\ OnFailure
    /\ pendingReport' = None
    /\ pendingTraffic' = [u \in Users |-> pendingTraffic[u] + async.traffic[u]]
    /\ async' = None
    /\ pushActive' = FALSE
    /\ UNCHANGED <<phase, kernelVars, lastSeen, unseen, tracked, sync, wire, panelVars,
                   nextId, lost>>

\* Mutant: the error path returns without releasing pushActive.
AsyncFailsHolding ==
    /\ async # None
    /\ OnFailure
    /\ async' = None
    /\ UNCHANGED <<phase, kernelVars, trackerVars, pendingReport, pushActive,
                   sync, wire, panelVars, nextId, lost>>

\* The goroutine's Report failed: the request or its response was lost, or
\* timed out. The panel may already have the batch, or get it later.
AsyncFails ==
    /\ async # None
    /\ OnFailure
    /\ async' = None
    /\ pushActive' = FALSE
    /\ UNCHANGED <<phase, kernelVars, trackerVars, pendingReport, sync, wire,
                   panelVars, nextId, lost>>

\* The panel processes a batch that is on the network. A key it knows is
\* acknowledged again without being billed again.
PanelReceives(b) ==
    /\ b.id \notin received
    /\ received' = received \cup {b.id}
    /\ billed' = [u \in Users |-> billed[u] + b.traffic[u]]
    /\ UNCHANGED <<phase, kernelVars, trackerVars, pendingReport, pushActive,
                   skipRemaining, async, sync, wire, nextId, lost>>

(***************************************************************************)
(* Shutdown, crash and restart of the service.                             *)
(***************************************************************************)

\* ctx.Done in Run: the loop stops and pushReportSync sends what is left. It
\* does not wait for a running pushReportAsync goroutine.
PushReportSync ==
    /\ phase = "run"
    /\ phase' = "drain"
    /\ BeginReport
    /\ sync' = Begun
    /\ UNCHANGED <<kernelVars, lastSeen, unseen, tracked, pushActive,
                   skipRemaining, async, panelVars, lost>>

\* What the service still held when its memory was dropped.
Held(u) == pendingTraffic[u]
           + IF pendingReport # None /\ pendingReport.id \notin received
             THEN pendingReport.traffic[u] ELSE 0

\* The memory of the service is gone; a goroutine that is left over holds on
\* to the old Service and no longer matters. Run's defer stops the kernel.
ServiceGone ==
    /\ phase' = "down"
    /\ running' = FALSE
    /\ cum' = Zero
    /\ unseen' = Zero
    /\ lastSeen' = Zero
    /\ pendingTraffic' = Zero
    /\ pendingReport' = None
    /\ pushActive' = FALSE
    /\ skipRemaining' = 0
    /\ async' = None
    /\ sync' = None
    /\ lost' = [u \in Users |-> lost[u] + Held(u)]
    /\ UNCHANGED <<starts, used, tracked, wire, panelVars, nextId>>

\* pushReportSync was answered (its completeReport is dropped with the rest),
\* or failed; Run returns.
ShutdownEnds ==
    /\ phase = "drain"
    /\ ServiceGone

Crash ==
    /\ phase = "run"
    /\ ServiceGone

\* The orchestrator, or the service manager, runs a new Service.
Restart ==
    /\ phase = "down"
    /\ phase' = "run"
    /\ UNCHANGED <<kernelVars, trackerVars, pendingReport, pushActive,
                   skipRemaining, async, sync, wire, panelVars, nextId, lost>>

Next ==
    \/ \E u \in Users : Transfer(u)
    \/ KernelStart
    \/ KernelStop
    \/ TrackAndEnforce
    \/ PushSkipped
    \/ PushReportAsync
    \/ AsyncSucceeds
    \/ AsyncFails
    \/ \E b \in wire : PanelReceives(b)
    \/ PushReportSync
    \/ ShutdownEnds
    \/ Crash
    \/ Restart

Spec == Init /\ [][Next]_vars

\* The tickers fire while the service runs, a request is answered or times
\* out, and the panel is not unreachable for ever: a push that is retried
\* again and again succeeds in the end.
Fairness ==
    /\ WF_vars(PushSkipped)
    /\ WF_vars(PushReportAsync)
    /\ WF_vars(AsyncFails)
    /\ SF_vars(AsyncSucceeds)
    /\ WF_vars(\E b \in wire : PanelReceives(b))
    /\ WF_vars(ShutdownEnds)

FairSpec == Spec /\ Fairness

(***************************************************************************)
(* Properties.                                                             *)
(***************************************************************************)

Report == Batch \cup {None}

\* Every variable has its type; the counters never go below zero.
TypeOK ==
    /\ phase \in {"run", "drain", "down"}
    /\ running \in BOOLEAN
    /\ cum \in [Users -> Nat]
    /\ lastSeen \in [Users -> Nat]
    /\ pendingTraffic \in [Users -> Nat]
    /\ pendingReport \in Report
    /\ pushActive \in BOOLEAN
    /\ skipRemaining \in Nat
    /\ async \in Report
    /\ sync \in Report
    /\ wire \subseteq Batch
    /\ received \subseteq Nat
    /\ billed \in [Users -> Nat]
    /\ nextId \in Nat
    /\ starts \in Nat
    /\ used \in [Users -> Nat]
    /\ unseen \in [Users -> Nat]
    /\ tracked \in [Users -> Nat]
    /\ lost \in [Users -> Nat]

\* No user is billed for more than crossed the kernel, whatever is lost,
\* delayed, retried or restarted (service.go, reportMu: a lost response must
\* not double-count).
NoOverbilling == \A u \in Users : billed[u] <= used[u]

\* A key is never reused for different contents: two batches on the network
\* with the same id are the same batch.
OneKeyOneContent == \A b, c \in wire : b.id = c.id => b = c

\* Every counted unit of traffic is in at most one batch: batches with
\* different keys hold disjoint parts of what the tracker counted, and the
\* tracker never counts more than crossed the kernel.
CountedOnce ==
    /\ \A b, c \in wire : b.id # c.id =>
          \A u \in Users : b.to[u] <= c.from[u] \/ c.to[u] <= b.from[u]
    /\ \A b \in wire : \A u \in Users :
          /\ b.to[u] = b.from[u] + b.traffic[u]
          /\ b.to[u] <= used[u]

\* While the service lives, it lets go of a batch only when the panel has it.
BatchKeptUntilReceived ==
    [][(pendingReport # None /\ pendingReport' # pendingReport /\ phase' # "down")
         => pendingReport.id \in received]_vars

\* What the tracker counted is billed in the end, unless the service was
\* stopped while it held it (or the model ran out of batch ids).
CountedIsBilled ==
    \A u \in Users : \A n \in 1..MaxTraffic :
        (tracked[u] = n) ~> (billed[u] + lost[u] >= n \/ nextId = MaxBatches)
=============================================================================
