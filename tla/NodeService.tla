---------------------------- MODULE NodeService ----------------------------
(***************************************************************************)
(* One node's service: how a node specification and a user list edited in  *)
(* the panel reach the proxy kernel. The panel notifies the agent of a     *)
(* change, the service pulls a snapshot in a goroutine (two requests), and *)
(* the select loop applies the result to the kernel, restores the last     *)
(* good runtime on failure and acknowledges the revision on success.       *)
(*                                                                         *)
(* Sources: internal/service/service.go, snapshot and Initial of           *)
(* internal/controlplane/device_platform.go, the notifications of          *)
(* internal/deviceplatform/orchestrator.go and the lifecycle of            *)
(* internal/kernel. Hashes are injective: a value stands for its hash.     *)
(***************************************************************************)
EXTENDS Naturals, Sequences

CONSTANTS
    Configs,        \* node specifications
    Invalid,        \* those validateNodeRuntime rejects
    UserLists,      \* user lists; NoUsers is the empty one
    NoUsers,
    None,
    Streaming,      \* is the platform stream enabled (wsClient # nil)?
    PartialReload,  \* can a failed Reload leave listeners down (sing-box)?
    StatusCap,      \* capacity of wsStatusCh
    MaxEdits,       \* bound: panel edits
    MaxRenewals,    \* bound: certificate renewals
    MaxChanges      \* bound: edits and renewals together

ASSUME NodeAssumption ==
    /\ Invalid \subseteq Configs
    /\ NoUsers \in UserLists
    /\ None \notin Configs
    /\ Streaming \in BOOLEAN
    /\ PartialReload \in BOOLEAN
    /\ StatusCap \in Nat \ {0}
    /\ MaxEdits \in Nat
    /\ MaxRenewals \in Nat
    /\ MaxChanges \in Nat

VARIABLES
    specs,            \* panel: the specification of each revision
    members,          \* panel: the node's users
    version,          \* panel: number of edits so far
    connected,        \* Stream.connected
    changes,          \* changes after the orchestrator's cursor
    pc,               \* "spec", "users", "register": Initial; "loop": select
    boot,             \* the snapshot Initial is fetching
    registered,       \* is wsStatusCh in Orchestrator.statuses?
    statuses,         \* wsStatusCh
    pulls,            \* goroutines of pullViaAPIAsync
    pullResults,      \* channel of capacity 1
    pullActive,
    skipRemaining,    \* pullBackoff
    reconcileNeeded,
    wsResyncPending,
    lastConfig,       \* with lastConfigHash
    lastUsers,        \* with lastUserHash
    desiredRevision,
    appliedRevision,
    certGen,          \* generation of the certificate in the cert manager
    renewed,          \* cert.Manager.renewed
    kernel            \* what the kernel runs

panelVars == <<specs, members, version>>
linkVars == <<connected, changes>>
certVars == <<certGen, renewed>>
pullVars == <<pulls, pullActive, skipRemaining, renewed>>
baseVars == <<lastConfig, lastUsers, desiredRevision, appliedRevision>>
vars == <<specs, members, version, connected, changes, pc, boot, registered,
          statuses, pulls, pullResults, pullActive, skipRemaining,
          reconcileNeeded, wsResyncPending, lastConfig, lastUsers,
          desiredRevision, appliedRevision, certGen, renewed, kernel>>

Revision == Len(specs)

(***************************************************************************)
(* The kernel. down: sing-box lost a listener that it could not recreate;  *)
(* IsRunning still answers true. An operation is the set of its outcomes.  *)
(***************************************************************************)

Stopped == [up |-> FALSE, cfg |-> None, users |-> NoUsers, cert |-> 0, down |-> FALSE]

Serving(c, us) == [up |-> TRUE, cfg |-> c, users |-> us, cert |-> certGen, down |-> FALSE]

\* A failed Start leaves the old instance alone.
KernelStart(k, c, us) ==
    { [ok |-> TRUE, k |-> Serving(c, us)], [ok |-> FALSE, k |-> k] }

\* A failed Reload rolls back; in sing-box the rollback can fail as well.
KernelReload(k, c, us) ==
    IF k.up
    THEN KernelStart(k, c, us) \cup
         { [ok |-> FALSE, k |-> [k EXCEPT !.down = d]] : d \in {k.down, PartialReload} }
    ELSE { [ok |-> FALSE, k |-> k] }

\* UpdateUsers keeps the certificate. sing-box recreates a missing listener
\* unless only limits changed, and may lose one.
KernelUpdateUsers(k, us) ==
    { [ok |-> TRUE, k |-> [k EXCEPT !.users = us, !.down = d]] : d \in {FALSE, k.down} } \cup
    { [ok |-> FALSE, k |-> [k EXCEPT !.down = d]] : d \in {k.down, PartialReload} }

\* The outcomes of op; where it failed, Start is tried on what it left behind.
OrStart(op, c, us) ==
    {o \in op : o.ok} \cup UNION {KernelStart(f.k, c, us) : f \in {o \in op : ~o.ok}}

(***************************************************************************)
(* The panel, the notifications and the certificate manager                *)
(***************************************************************************)

Init ==
    /\ \E c \in Configs : specs = <<c>>
    /\ members \in UserLists
    /\ version = 0
    /\ connected = FALSE
    /\ changes = 0
    /\ pc = "spec"
    /\ boot = None
    /\ registered = FALSE
    /\ statuses = <<>>
    /\ pulls = {}
    /\ pullResults = <<>>
    /\ pullActive = FALSE
    /\ skipRemaining = 0
    /\ reconcileNeeded = FALSE
    /\ wsResyncPending = FALSE
    /\ lastConfig = None
    /\ lastUsers = NoUsers
    /\ desiredRevision = 0
    /\ appliedRevision = 0
    /\ certGen = 0
    /\ renewed = FALSE
    /\ kernel = Stopped

serviceVars == <<pc, boot, registered, statuses, pulls, pullResults, pullActive,
                 skipRemaining, reconcileNeeded, wsResyncPending, lastConfig,
                 lastUsers, desiredRevision, appliedRevision, kernel>>

\* An administrator replaces the node specification: a new revision.
EditSpec ==
    /\ version < MaxEdits /\ version + certGen < MaxChanges
    /\ \E c \in Configs \ {specs[Revision]} : specs' = Append(specs, c)
    /\ version' = version + 1
    /\ changes' = changes + 1
    /\ UNCHANGED <<members, connected, certVars, serviceVars>>

\* The user list changes; the revision of the specification does not.
EditMembers ==
    /\ version < MaxEdits /\ version + certGen < MaxChanges
    /\ \E us \in UserLists \ {members} : members' = us
    /\ version' = version + 1
    /\ changes' = changes + 1
    /\ UNCHANGED <<specs, connected, certVars, serviceVars>>

\* notifyNode: nothing for an unregistered node or when the channel is full.
Notified(status) ==
    statuses' = IF registered /\ Len(statuses) < StatusCap
                THEN Append(statuses, status) ELSE statuses

linkUnchanged == <<pc, boot, registered, pulls, pullResults, pullActive,
                   skipRemaining, reconcileNeeded, wsResyncPending, baseVars,
                   certVars, kernel, panelVars>>

\* onEvent or pullChanges: the cursor passes one change of this node.
DeliverChange ==
    /\ changes > 0
    /\ changes' = changes - 1
    /\ Notified([connected |-> connected, needsResync |-> TRUE])
    /\ UNCHANGED <<connected, linkUnchanged>>

\* onStreamStatus
StreamUp ==
    /\ Streaming /\ ~connected
    /\ connected' = TRUE
    /\ Notified([connected |-> TRUE, needsResync |-> TRUE])
    /\ UNCHANGED <<changes, linkUnchanged>>

StreamDown ==
    /\ connected
    /\ connected' = FALSE
    /\ Notified([connected |-> FALSE, needsResync |-> FALSE])
    /\ UNCHANGED <<changes, linkUnchanged>>

\* certmagic's cert_obtained event for a renewal stores the flag.
CertRenewal ==
    /\ certGen < MaxRenewals /\ version + certGen < MaxChanges
    /\ certGen' = certGen + 1
    /\ renewed' = TRUE
    /\ UNCHANGED <<panelVars, linkVars, serviceVars>>

(***************************************************************************)
(* initialSetup: snapshot, registration, first start of the kernel. On any *)
(* error Run returns and the orchestrator starts a fresh service later.    *)
(***************************************************************************)

bootUnchanged == <<panelVars, linkVars, certVars, pulls, pullResults, pullActive,
                   skipRemaining, wsResyncPending, statuses>>

BootSpec ==
    /\ pc = "spec"
    /\ pc' = "users"
    /\ boot' = [rev |-> Revision, cfg |-> specs[Revision], users |-> NoUsers]
    /\ UNCHANGED <<bootUnchanged, registered, reconcileNeeded, baseVars, kernel>>

BootUsers ==
    /\ pc = "users"
    /\ pc' = "register"
    /\ boot' = [boot EXCEPT !.users = members]
    /\ UNCHANGED <<bootUnchanged, registered, reconcileNeeded, baseVars, kernel>>

\* NodeUsers, validation, the certificate or the kernel fails.
BootFails ==
    /\ \/ pc = "users"
       \/ pc = "register" /\ (boot.cfg \in Invalid \/ boot.users # NoUsers)
    /\ pc' = "spec"
    /\ boot' = None
    /\ UNCHANGED <<bootUnchanged, registered, reconcileNeeded, baseVars, kernel>>

BootSucceeds ==
    /\ pc = "register"
    /\ boot.cfg \notin Invalid
    /\ pc' = "loop"
    /\ boot' = None
    /\ registered' = TRUE
    /\ lastConfig' = boot.cfg
    /\ lastUsers' = boot.users
    /\ desiredRevision' = boot.rev
    /\ reconcileNeeded' = (boot.users = NoUsers)
    /\ IF boot.users = NoUsers
       THEN UNCHANGED <<kernel, appliedRevision>>
       ELSE /\ kernel' = Serving(boot.cfg, boot.users)
            /\ appliedRevision' = boot.rev
    /\ UNCHANGED bootUnchanged

(***************************************************************************)
(* pullViaAPIAsync                                                         *)
(***************************************************************************)

NewPull == [pc |-> "spec", hash |-> lastConfig, cert |-> renewed,
            rev |-> 0, cfg |-> None, users |-> NoUsers]

\* Mutant: the pull in flight does not stop another one.
TryPullUnguarded(n) ==
    /\ pulls' = pulls \cup {NewPull}
    /\ pullActive' = TRUE
    /\ renewed' = FALSE
    /\ UNCHANGED skipRemaining

\* n calls of pullViaAPIAsync in one handler.
TryPull(n) ==
    IF pullActive THEN UNCHANGED pullVars
    ELSE IF skipRemaining >= n
    THEN /\ skipRemaining' = skipRemaining - n
         /\ UNCHANGED <<pulls, pullActive, renewed>>
    ELSE /\ skipRemaining' = 0
         /\ pullActive' = TRUE
         /\ pulls' = pulls \cup {NewPull}
         /\ renewed' = FALSE

\* A case of the select loop that only starts a pull.
loopUnchanged == <<panelVars, linkVars, certGen, pc, boot, registered,
                   pullResults, baseVars, kernel>>

PullTick ==
    /\ pc = "loop"
    /\ ~connected \/ reconcileNeeded
    /\ TryPull(1)
    /\ UNCHANGED <<loopUnchanged, statuses, reconcileNeeded, wsResyncPending>>

\* handleWSStatus, with requestWSResync when the status asks for it.
HandleWSStatus ==
    /\ pc = "loop"
    /\ statuses # <<>>
    /\ statuses' = Tail(statuses)
    /\ LET resync == Head(statuses).needsResync IN
       /\ TryPull(IF resync /\ ~wsResyncPending THEN 2 ELSE 1)
       /\ reconcileNeeded' = (reconcileNeeded \/ resync)
       /\ wsResyncPending' = (wsResyncPending \/ resync)
    /\ UNCHANGED loopUnchanged

pullUnchanged == <<panelVars, linkVars, certVars, pc, boot, registered, statuses,
                   baseVars, kernel>>

\* NodeSpec answers
PullSpec(p) ==
    /\ p.pc = "spec"
    /\ pulls' = (pulls \ {p}) \cup
         {[p EXCEPT !.pc = "users", !.rev = Revision, !.cfg = specs[Revision]]}
    /\ UNCHANGED <<pullUnchanged, pullResults, pullActive, skipRemaining,
                   reconcileNeeded, wsResyncPending>>

\* NodeUsers answers; an unchanged configuration is left out of the result.
PullUsers(p) ==
    /\ p.pc = "users"
    /\ pulls' = (pulls \ {p}) \cup
         {[p EXCEPT !.pc = "send", !.users = members,
                    !.cfg = IF p.cfg = p.hash /\ ~p.cert THEN None ELSE p.cfg]}
    /\ skipRemaining' = 0
    /\ UNCHANGED <<pullUnchanged, pullResults, pullActive, reconcileNeeded, wsResyncPending>>

PullFails(p) ==
    /\ p.pc \in {"spec", "users"}
    /\ pulls' = pulls \ {p}
    /\ pullActive' = FALSE
    /\ reconcileNeeded' = TRUE
    /\ wsResyncPending' = FALSE
    /\ skipRemaining' = IF skipRemaining = 0 THEN 1
                        ELSE IF skipRemaining < 8 THEN 2 * skipRemaining ELSE skipRemaining
    /\ UNCHANGED <<pullUnchanged, pullResults>>

PullSend(p) ==
    /\ p.pc = "send"
    /\ pullResults = <<>>
    /\ pullResults' = <<[rev |-> p.rev, cfg |-> p.cfg, users |-> p.users]>>
    /\ pulls' = (pulls \ {p}) \cup {[p EXCEPT !.pc = "done"]}
    /\ UNCHANGED <<pullUnchanged, pullActive, skipRemaining, reconcileNeeded, wsResyncPending>>

\* the deferred pullActive.Store(false)
PullReturns(p) ==
    /\ p.pc = "done"
    /\ pulls' = pulls \ {p}
    /\ pullActive' = FALSE
    /\ UNCHANGED <<pullUnchanged, pullResults, skipRemaining, reconcileNeeded, wsResyncPending>>

(***************************************************************************)
(* applyPullResult                                                         *)
(***************************************************************************)

TargetConfig(r) == IF r.cfg = None THEN lastConfig ELSE r.cfg

\* applyChanges when the configuration changed, else applyUserUpdate when the
\* users did: the possible outcomes of driving the kernel to the result.
Runtime(r) ==
    CASE r.cfg # None /\ r.users = NoUsers -> {[ok |-> TRUE, k |-> Stopped]}
      [] r.cfg # None /\ r.users # NoUsers /\ kernel.up ->
             KernelReload(kernel, r.cfg, r.users)
      [] r.cfg # None /\ r.users # NoUsers /\ ~kernel.up ->
             KernelStart(kernel, r.cfg, r.users)
      [] r.cfg = None /\ (r.users = lastUsers \/ (~kernel.up /\ r.users = NoUsers)) ->
             {[ok |-> TRUE, k |-> kernel]}
      [] r.cfg = None /\ r.users # lastUsers /\ r.users # NoUsers /\ ~kernel.up ->
             KernelStart(kernel, lastConfig, r.users)
      [] r.cfg = None /\ r.users # lastUsers /\ kernel.up ->
             OrStart(KernelUpdateUsers(kernel, r.users), lastConfig, r.users)

\* "reapply the last good one": Reload, else Start, else only a log line.
Restored(k) ==
    IF lastUsers = NoUsers THEN {k}
    ELSE {o.k : o \in OrStart(KernelReload(k, lastConfig, lastUsers), lastConfig, lastUsers)}

applyUnchanged == <<panelVars, linkVars, certVars, pc, boot, registered, statuses,
                    pulls, pullActive, skipRemaining>>

TakeResult ==
    /\ pc = "loop"
    /\ pullResults # <<>>
    /\ pullResults' = Tail(pullResults)
    /\ wsResyncPending' = FALSE

\* validateNodeRuntime or applyRemoteOverrides fails.
ApplyRejected ==
    /\ TakeResult
    /\ Head(pullResults).cfg # None
    /\ reconcileNeeded' = TRUE
    /\ UNCHANGED <<applyUnchanged, baseVars, kernel>>

\* The result becomes the baseline; confirmApplication only while running.
ApplySucceeds ==
    /\ TakeResult
    /\ LET r == Head(pullResults) IN
       /\ r.cfg \notin Invalid
       /\ \E o \in Runtime(r) :
            /\ o.ok
            /\ kernel' = o.k
            /\ reconcileNeeded' = (reconcileNeeded /\ ~o.k.up)
            /\ appliedRevision' = IF o.k.up THEN r.rev ELSE appliedRevision
       /\ lastConfig' = TargetConfig(r)
       /\ lastUsers' = r.users
       /\ desiredRevision' = r.rev
    /\ UNCHANGED applyUnchanged

\* Mutant: the failed result becomes the baseline.
ApplyFailsKeeping ==
    /\ TakeResult
    /\ LET r == Head(pullResults) IN
       /\ r.cfg \notin Invalid
       /\ \E o \in Runtime(r) : ~o.ok /\ kernel' \in Restored(o.k)
       /\ lastConfig' = TargetConfig(r)
       /\ lastUsers' = r.users
    /\ reconcileNeeded' = TRUE
    /\ UNCHANGED <<applyUnchanged, desiredRevision, appliedRevision>>

\* The kernel refuses: the previous inputs stay, the previous runtime returns.
ApplyFails ==
    /\ TakeResult
    /\ LET r == Head(pullResults) IN
       /\ r.cfg \notin Invalid
       /\ \E o \in Runtime(r) : ~o.ok /\ kernel' \in Restored(o.k)
    /\ reconcileNeeded' = TRUE
    /\ UNCHANGED <<applyUnchanged, baseVars>>

PullStep(p) == PullSpec(p) \/ PullUsers(p) \/ PullFails(p) \/ PullSend(p) \/ PullReturns(p)

Next ==
    \/ EditSpec \/ EditMembers
    \/ DeliverChange \/ StreamUp \/ StreamDown \/ CertRenewal
    \/ BootSpec \/ BootUsers \/ BootFails \/ BootSucceeds
    \/ PullTick \/ HandleWSStatus
    \/ \E p \in pulls : PullStep(p)
    \/ ApplyRejected \/ ApplySucceeds \/ ApplyFails

Spec == Init /\ [][Next]_vars

\* Goroutines run, tickers fire, a change is delivered, and a request or a
\* kernel operation that is tried again and again does not fail for ever.
Fairness ==
    /\ WF_vars(BootSpec) /\ WF_vars(BootFails \/ BootSucceeds)
    /\ SF_vars(BootUsers) /\ SF_vars(BootSucceeds)
    /\ WF_vars(DeliverChange)
    /\ SF_vars(PullTick)
    /\ WF_vars(HandleWSStatus)
    /\ SF_vars(\E p \in pulls : PullSpec(p))
    /\ SF_vars(\E p \in pulls : PullUsers(p))
    /\ SF_vars(\E p \in pulls : PullSend(p))
    /\ WF_vars(\E p \in pulls : PullReturns(p))
    /\ WF_vars(TakeResult /\ Next)
    /\ SF_vars(ApplySucceeds)

FairSpec == Spec /\ Fairness

(***************************************************************************)
(* Properties                                                              *)
(***************************************************************************)

Results == [rev : Nat, cfg : Configs \cup {None}, users : UserLists]

\* Type correctness of the service's state; at most one result is queued and
\* the status channel respects its capacity.
TypeOK ==
    /\ specs \in Seq(Configs) /\ specs # <<>>
    /\ members \in UserLists
    /\ {version, changes, desiredRevision, appliedRevision, certGen,
        skipRemaining} \subseteq Nat
    /\ pc \in {"spec", "users", "register", "loop"}
    /\ pc \in {"users", "register"} =>
         boot \in [rev : Nat, cfg : Configs, users : UserLists]
    /\ {connected, registered, pullActive, reconcileNeeded, wsResyncPending,
        renewed} \subseteq BOOLEAN
    /\ statuses \in Seq([connected : BOOLEAN, needsResync : BOOLEAN])
    /\ Len(statuses) <= StatusCap
    /\ pulls \subseteq [pc : {"spec", "users", "send", "done"}, hash : Configs \cup {None},
                        cert : BOOLEAN, rev : Nat, cfg : Configs \cup {None},
                        users : UserLists]
    /\ pullResults \in Seq(Results) /\ Len(pullResults) <= 1
    /\ lastConfig \in Configs \cup {None}
    /\ lastUsers \in UserLists
    /\ kernel \in [up : BOOLEAN, cfg : Configs \cup {None}, users : UserLists,
                   cert : Nat, down : BOOLEAN]

\* The baseline is what is served: whatever applied, failed or was restored,
\* a kernel with all its listeners runs exactly the configuration and the users
\* that the next poll is compared with, and it runs whenever there are users
\* (applyPullResult's restore after a failed replacement).
BaselineServed ==
    pc = "loop" =>
        /\ kernel.up /\ ~kernel.down => kernel.cfg = lastConfig /\ kernel.users = lastUsers
        /\ lastUsers # NoUsers => kernel.up

\* While the kernel runs, the service stops retrying only once the revision it
\* wants is acknowledged (confirmApplication against the failure paths).
QuietMeansAcknowledged ==
    pc = "loop" /\ kernel.up /\ ~reconcileNeeded => appliedRevision = desiredRevision

\* A service never applies or acknowledges a revision older than the one it is
\* at: concurrent ticks, notifications and slow requests do not reorder
\* snapshots (pullActive and the one-place channel).
RevisionsForward ==
    [][/\ appliedRevision' >= appliedRevision
       /\ desiredRevision' >= desiredRevision]_vars

Converged ==
    specs[Revision] \notin Invalid =>
        /\ lastConfig = specs[Revision]
        /\ lastUsers = members
        /\ members # NoUsers =>
             /\ kernel.up /\ kernel.cfg = lastConfig /\ kernel.users = lastUsers
             /\ appliedRevision = Revision

\* Once the stream is gone for good and the listeners are up, polling serves
\* and acknowledges the last valid specification and users of the panel,
\* whatever notifications were dropped before and through failed requests,
\* failed applications and snapshots torn by an edit between the two requests.
PollingConverges == <>[](~connected /\ ~kernel.down) => <>[]Converged

\* An acknowledged revision is the one the kernel runs
\* (application_test.go: "acknowledged only after the kernel accepts it").
AppliedMeansServed ==
    kernel.up /\ ~kernel.down /\ appliedRevision > 0 =>
        kernel.cfg = specs[appliedRevision]
=============================================================================
