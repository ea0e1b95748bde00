---------------------------- MODULE Orchestrator ----------------------------
(***************************************************************************)
(* The device platform orchestrator: one service per assigned node. The    *)
(* main loop rediscovers the assignment and pulls changes on a ticker; the *)
(* stream's events start rediscoveries and kernel reconciliations in       *)
(* goroutines of their own. All of them start and stop services.           *)
(*                                                                         *)
(* Source: internal/deviceplatform/orchestrator.go. A service is reduced   *)
(* to its life: initial snapshot, registration, run, exit.                 *)
(***************************************************************************)
EXTENDS Integers, Sequences, FiniteSets

CONSTANTS
    Nodes, Kernels, DefaultKernel,
    Handles,        \* identities of nodeHandle values; reused once free
    Main,           \* the goroutine of Run
    Workers,        \* goroutines started by handleChange
    None,
    MaxEdits        \* bound: edits in the panel

ASSUME OrchestratorAssumption ==
    /\ DefaultKernel \in Kernels
    /\ Main \notin Workers
    /\ None \notin Handles \cup Nodes
    /\ MaxEdits \in Nat

VARIABLES
    assigned,   \* panel: the machine's nodes
    wants,      \* panel: the kernel each node's specification asks for
    log,        \* panel: the changes, numbered by the cursor
    connected,  \* the stream
    inflight,   \* cursors of the events on the stream
    cursor,
    ctx,        \* is the context of Run alive?
    stopping,
    nodes,      \* Orchestrator.nodes
    statuses,   \* Orchestrator.statuses: whose channel is registered
    svc,        \* the service goroutine of each handle
    tasks       \* the goroutines that start and stop services

panelVars == <<assigned, wants, log>>
streamVars == <<connected, inflight>>
mapVars == <<nodes, statuses, svc>>
vars == <<assigned, wants, log, connected, inflight, cursor, ctx,
          stopping, nodes, statuses, svc, tasks>>

Tasks == Workers \cup {Main}

Idle == [pc |-> "idle", remove |-> {}, start |-> {}, handle |-> None,
         node |-> None, kernel |-> None, batch |-> <<>>, next |-> 0,
         waits |-> {}, then |-> "idle"]

NoService == [pc |-> "done", node |-> None, kernel |-> None, cancelled |-> FALSE]

Init ==
    /\ assigned \in SUBSET Nodes
    /\ wants \in [Nodes -> Kernels]
    /\ log = <<>>
    /\ connected = FALSE
    /\ inflight = <<>>
    /\ cursor = 0
    /\ ctx = TRUE
    /\ stopping = FALSE
    /\ nodes = [n \in Nodes |-> None]
    /\ statuses = [n \in Nodes |-> None]
    /\ svc = [h \in Handles |-> NoService]
    /\ tasks = [t \in Tasks |-> IF t = Main THEN [Idle EXCEPT !.pc = "list", !.then = "loop"] ELSE Idle]

(***************************************************************************)
(* The panel and the stream. An event published while the stream is down   *)
(* is only in the change log.                                              *)
(***************************************************************************)

Publish(change) ==
    /\ Len(log) < MaxEdits
    /\ log' = Append(log, change)
    /\ inflight' = IF connected THEN Append(inflight, Len(log) + 1) ELSE inflight
    /\ UNCHANGED <<connected, cursor, ctx, stopping, mapVars, tasks>>

EditAssignment(n) ==
    /\ assigned' = IF n \in assigned THEN assigned \ {n} ELSE assigned \cup {n}
    /\ Publish([type |-> "machine.nodes.replace", node |-> None])
    /\ UNCHANGED wants

EditKernel(n) ==
    /\ \E k \in Kernels \ {wants[n]} : wants' = [wants EXCEPT ![n] = k]
    /\ Publish([type |-> "node.spec.replace", node |-> n])
    /\ UNCHANGED assigned

\* Stream.setConnected; broadcast to the services is in NodeService.
StreamChanges ==
    /\ connected' = ~connected
    /\ inflight' = <<>>
    /\ UNCHANGED <<panelVars, cursor, ctx, stopping, mapVars, tasks>>

\* advanceCursor: a compare-and-swap loop that never goes back.
Advanced(value) == IF value <= cursor THEN cursor ELSE value

\* A goroutine on behalf of handleChange; the tasks as they were with ts.
Spawned(ts, task) ==
    {[ts EXCEPT ![w] = task] : w \in {v \in Workers : ts[v].pc = "idle"}}

\* handleChange of one change: the possible new values of tasks.
HandleChange(ts, change) ==
    CASE change.type = "machine.nodes.replace" -> Spawned(ts, [Idle EXCEPT !.pc = "list"])
      [] change.type = "node.spec.replace" /\ nodes[change.node] # None ->
             Spawned(ts, [Idle EXCEPT !.pc = "reconcile", !.node = change.node])
      [] OTHER -> {ts}     \* notifyNode

OnEvent ==
    /\ inflight # <<>>
    /\ ctx
    /\ cursor' = Advanced(Head(inflight))
    /\ tasks' \in HandleChange(tasks, log[Head(inflight)])
    /\ inflight' = Tail(inflight)
    /\ UNCHANGED <<panelVars, connected, ctx, stopping, mapVars>>

(***************************************************************************)
(* The services                                                            *)
(***************************************************************************)

outside == <<panelVars, streamVars, cursor, ctx, stopping>>

Cancelled(h) == svc[h].cancelled \/ ~ctx

\* Initial succeeded and calls registerFn, also when the cancellation came
\* after the last response. A kernel mismatch is an error of the snapshot.
ServiceRegisters(h) ==
    /\ svc[h].pc = "init"
    /\ wants[svc[h].node] = svc[h].kernel
    /\ statuses' = [statuses EXCEPT ![svc[h].node] = h]
    /\ svc' = [svc EXCEPT ![h].pc = "run"]
    /\ UNCHANGED <<outside, nodes, tasks>>

\* Run returns: initialSetup failed, or the context is done.
ServiceReturns(h) ==
    /\ svc[h].pc = "init" \/ (svc[h].pc = "run" /\ Cancelled(h))
    /\ svc' = [svc EXCEPT ![h].pc = "exit"]
    /\ UNCHANGED <<outside, nodes, statuses, tasks>>

\* Mutant: a service that ends by itself stays in the map.
ServiceExitsKeeping(h) ==
    /\ svc[h].pc = "exit"
    /\ svc' = [svc EXCEPT ![h] = NoService]
    /\ UNCHANGED <<outside, nodes, statuses, tasks>>

\* The deferred cleanup: only if the map still holds this service.
ServiceExits(h) ==
    /\ svc[h].pc = "exit"
    /\ svc' = [svc EXCEPT ![h] = NoService]
    /\ IF nodes[svc[h].node] = h
       THEN /\ nodes' = [nodes EXCEPT ![svc[h].node] = None]
            /\ statuses' = [statuses EXCEPT ![svc[h].node] = None]
       ELSE UNCHANGED <<nodes, statuses>>
    /\ UNCHANGED <<outside, tasks>>

(***************************************************************************)
(* rediscover, stopNode, startNode and reconcileNodeSpec in a task         *)
(***************************************************************************)

Goto(t, next) == tasks' = [tasks EXCEPT ![t] = next]

Finished(t) == [Idle EXCEPT !.pc = tasks[t].then]

\* Nodes answers; diffNodes under the lock.
Rediscover(t) ==
    /\ tasks[t].pc = "list"
    /\ ctx
    /\ Goto(t, [tasks[t] EXCEPT !.pc = "work",
                  !.remove = {n \in Nodes \ assigned : nodes[n] # None},
                  !.start = {n \in assigned : nodes[n] = None}])
    /\ UNCHANGED <<outside, mapVars>>

\* Nodes fails or the context is done. In Run's first discovery the error
\* ends Run before stopAll is deferred; main cancels the context.
RediscoverFails(t) ==
    /\ tasks[t].pc = "list"
    /\ IF tasks[t].then = "loop"
       THEN Goto(t, [Idle EXCEPT !.pc = "failed"]) /\ ctx' = FALSE
       ELSE Goto(t, Finished(t)) /\ UNCHANGED ctx
    /\ UNCHANGED <<panelVars, streamVars, cursor, stopping, mapVars>>

\* stopNode: out of the maps under the lock, then cancel, then wait for done.
StopNode(t) ==
    /\ tasks[t].pc = "work"
    /\ \E n \in tasks[t].remove :
         /\ Goto(t, [tasks[t] EXCEPT !.remove = @ \ {n}, !.handle = nodes[n],
                       !.pc = IF nodes[n] = None THEN "work" ELSE "cancel"])
         /\ nodes' = [nodes EXCEPT ![n] = None]
         /\ statuses' = IF nodes[n] = None THEN statuses ELSE [statuses EXCEPT ![n] = None]
    /\ UNCHANGED <<outside, svc>>

StopCancels(t) ==
    /\ tasks[t].pc = "cancel"
    /\ svc' = [svc EXCEPT ![tasks[t].handle].cancelled = TRUE]
    /\ Goto(t, [tasks[t] EXCEPT !.pc = "wait"])
    /\ UNCHANGED <<outside, nodes, statuses>>

StopWaited(t) ==
    /\ tasks[t].pc = "wait"
    /\ svc[tasks[t].handle].pc = "done"
    /\ Goto(t, [tasks[t] EXCEPT !.pc = "work", !.handle = None])
    /\ UNCHANGED <<outside, mapVars>>

\* startNode asks for the specification to choose the kernel; on an error the
\* configured one is taken.
Preflight(t) ==
    /\ tasks[t].pc = "work"
    /\ tasks[t].remove = {}
    /\ \E n \in tasks[t].start, k \in Kernels :
         /\ k \in {wants[n], DefaultKernel}
         /\ Goto(t, IF ctx THEN [tasks[t] EXCEPT !.pc = "commit", !.start = @ \ {n},
                                   !.node = n, !.kernel = k]
                    ELSE [tasks[t] EXCEPT !.start = @ \ {n}])
    /\ UNCHANGED <<outside, mapVars>>

\* A handle nothing refers to any more can stand for a new one.
Free(h) ==
    /\ svc[h].pc = "done"
    /\ \A t \in Tasks : tasks[t].handle # h /\ h \notin tasks[t].waits
    /\ \A n \in Nodes : statuses[n] # h

Started(t, h) ==
    /\ nodes' = [nodes EXCEPT ![tasks[t].node] = h]
    /\ svc' = [svc EXCEPT ![h] = [pc |-> "init", node |-> tasks[t].node,
                                  kernel |-> tasks[t].kernel, cancelled |-> FALSE]]

\* Mutant: startNode does not look at stopping.
StartNodeLate(t) ==
    /\ tasks[t].pc = "commit"
    /\ IF nodes[tasks[t].node] # None
       THEN UNCHANGED <<nodes, svc>>
       ELSE \E h \in Handles : Free(h) /\ Started(t, h)
    /\ Goto(t, [tasks[t] EXCEPT !.pc = "work", !.node = None, !.kernel = None])
    /\ UNCHANGED <<outside, statuses>>

\* Mutant: startNode does not look whether the node is there already.
StartNodeTwice(t) ==
    /\ tasks[t].pc = "commit"
    /\ IF stopping
       THEN UNCHANGED <<nodes, svc>>
       ELSE \E h \in Handles : Free(h) /\ Started(t, h)
    /\ Goto(t, [tasks[t] EXCEPT !.pc = "work", !.node = None, !.kernel = None])
    /\ UNCHANGED <<outside, statuses>>

StartNode(t) ==
    /\ tasks[t].pc = "commit"
    /\ IF stopping \/ nodes[tasks[t].node] # None
       THEN UNCHANGED <<nodes, svc>>
       ELSE \E h \in Handles : Free(h) /\ Started(t, h)
    /\ Goto(t, [tasks[t] EXCEPT !.pc = "work", !.node = None, !.kernel = None])
    /\ UNCHANGED <<outside, statuses>>

WorkDone(t) ==
    /\ tasks[t].pc = "work"
    /\ tasks[t].remove = {} /\ tasks[t].start = {}
    /\ Goto(t, Finished(t))
    /\ UNCHANGED <<outside, mapVars>>

\* reconcileNodeSpec reads the handle, asks for the specification, and if the
\* kernel differs and the handle is still there, stops and starts the node.
ReconcileBegins(t) ==
    /\ tasks[t].pc = "reconcile"
    /\ Goto(t, IF ctx /\ nodes[tasks[t].node] # None
               THEN [tasks[t] EXCEPT !.pc = "spec", !.handle = nodes[tasks[t].node]]
               ELSE Finished(t))
    /\ UNCHANGED <<outside, mapVars>>

ReconcileDiffers(t) ==
    /\ tasks[t].pc = "spec"
    /\ wants[tasks[t].node] # svc[tasks[t].handle].kernel
    /\ Goto(t, [tasks[t] EXCEPT !.pc = "recheck"])
    /\ UNCHANGED <<outside, mapVars>>

\* NodeSpec failed, or the kernel is the same: only notifyNode.
ReconcileNotifies(t) ==
    /\ tasks[t].pc = "spec"
    /\ Goto(t, Finished(t))
    /\ UNCHANGED <<outside, mapVars>>

ReconcileRechecks(t) ==
    /\ tasks[t].pc = "recheck"
    /\ Goto(t, IF nodes[tasks[t].node] = tasks[t].handle
               THEN [tasks[t] EXCEPT !.pc = "work", !.handle = None, !.node = None,
                       !.remove = {tasks[t].node}, !.start = {tasks[t].node}]
               ELSE Finished(t))
    /\ UNCHANGED <<outside, mapVars>>

(***************************************************************************)
(* Run's loop and stopAll                                                  *)
(***************************************************************************)

DiscoveryTick ==
    /\ tasks[Main].pc = "loop"
    /\ Goto(Main, [Idle EXCEPT !.pc = "list", !.then = "changes"])
    /\ UNCHANGED <<outside, mapVars>>

PullChanges ==
    /\ tasks[Main].pc = "changes"
    /\ Goto(Main, [Idle EXCEPT !.pc = "apply", !.next = Len(log),
                     !.batch = [i \in 1 .. Len(log) - cursor |-> cursor + i]])
    /\ UNCHANGED <<outside, mapVars>>

PullFails ==
    /\ tasks[Main].pc = "changes"
    /\ Goto(Main, [Idle EXCEPT !.pc = "loop"])
    /\ UNCHANGED <<outside, mapVars>>

ApplyChange ==
    /\ tasks[Main].pc = "apply"
    /\ tasks[Main].batch # <<>>
    /\ LET i == Head(tasks[Main].batch) IN
       /\ tasks' \in HandleChange([tasks EXCEPT ![Main].batch = Tail(@)], log[i])
    /\ UNCHANGED <<panelVars, streamVars, cursor, ctx, stopping, mapVars>>

PullApplied ==
    /\ tasks[Main].pc = "apply"
    /\ tasks[Main].batch = <<>>
    /\ cursor' = Advanced(tasks[Main].next)
    /\ Goto(Main, [Idle EXCEPT !.pc = "loop"])
    /\ UNCHANGED <<panelVars, streamVars, ctx, stopping, mapVars>>

\* The process is told to stop, or the configuration changed.
Shutdown ==
    /\ ctx
    /\ ctx' = FALSE
    /\ UNCHANGED <<panelVars, streamVars, cursor, stopping, mapVars, tasks>>

StopAll ==
    /\ tasks[Main].pc = "loop"
    /\ ~ctx
    /\ stopping' = TRUE
    /\ LET all == {nodes[n] : n \in Nodes} \ {None} IN
       /\ svc' = [h \in Handles |-> IF h \in all THEN [svc[h] EXCEPT !.cancelled = TRUE]
                                    ELSE svc[h]]
       /\ Goto(Main, [Idle EXCEPT !.pc = "halt", !.waits = all])
    /\ nodes' = [n \in Nodes |-> None]
    /\ statuses' = [n \in Nodes |-> IF nodes[n] = None THEN statuses[n] ELSE None]
    /\ UNCHANGED <<panelVars, streamVars, cursor, ctx>>

RunReturns ==
    /\ tasks[Main].pc = "halt"
    /\ \A h \in tasks[Main].waits : svc[h].pc = "done"
    /\ Goto(Main, [Idle EXCEPT !.pc = "returned"])
    /\ UNCHANGED <<outside, mapVars>>

TaskStep(t) ==
    \/ Rediscover(t) \/ RediscoverFails(t)
    \/ StopNode(t) \/ StopCancels(t) \/ StopWaited(t)
    \/ Preflight(t) \/ StartNode(t) \/ WorkDone(t)
    \/ ReconcileBegins(t) \/ ReconcileDiffers(t) \/ ReconcileNotifies(t)
    \/ ReconcileRechecks(t)

MainStep == DiscoveryTick \/ PullChanges \/ PullFails \/ ApplyChange \/ PullApplied
            \/ StopAll \/ RunReturns

ServiceStep(h) == ServiceRegisters(h) \/ ServiceReturns(h) \/ ServiceExits(h)

Next ==
    \/ \E n \in Nodes : EditAssignment(n) \/ EditKernel(n)
    \/ StreamChanges \/ OnEvent \/ Shutdown
    \/ \E t \in Tasks : TaskStep(t)
    \/ MainStep
    \/ \E h \in Handles : ServiceStep(h)

Spec == Init /\ [][Next]_vars

\* Goroutines run, requests are answered, the ticker fires, and a request that
\* is tried again and again does not fail for ever.
Fairness ==
    /\ \A t \in Tasks : /\ WF_vars(TaskStep(t))
                        /\ SF_vars(Rediscover(t))
    /\ WF_vars(MainStep) /\ SF_vars(PullChanges)
    /\ \A h \in Handles : /\ WF_vars(ServiceReturns(h) /\ Cancelled(h))
                          /\ WF_vars(ServiceStep(h) /\ svc[h].pc # "run")
    /\ SF_vars(\E h \in Handles : ServiceRegisters(h))
    /\ SF_vars(\E t \in Tasks : Preflight(t) /\ \A n \in Nodes :
                   tasks'[t].node = n => tasks'[t].kernel = wants[n])

FairSpec == Spec /\ Fairness

(***************************************************************************)
(* Properties                                                              *)
(***************************************************************************)

TaskPCs == {"idle", "list", "work", "cancel", "wait", "commit", "reconcile", "spec",
            "recheck", "loop", "changes", "apply", "halt", "returned", "failed"}

\* Types, and a task that is stopping, starting or reconciling knows what.
TypeOK ==
    /\ assigned \subseteq Nodes
    /\ wants \in [Nodes -> Kernels]
    /\ cursor \in 0 .. Len(log)
    /\ nodes \in [Nodes -> Handles \cup {None}]
    /\ statuses \in [Nodes -> Handles \cup {None}]
    /\ svc \in [Handles -> [pc : {"init", "run", "exit", "done"}, node : Nodes \cup {None},
                            kernel : Kernels \cup {None}, cancelled : BOOLEAN]]
    /\ \A t \in Tasks :
         /\ tasks[t].pc \in TaskPCs
         /\ tasks[t].pc \in {"cancel", "wait", "spec", "recheck"} => tasks[t].handle \in Handles
         /\ tasks[t].pc \in {"commit", "reconcile", "spec", "recheck"} => tasks[t].node \in Nodes

\* No service is forgotten: one that has not been told to stop is the one the
\* map holds for its node, or a task is just about to cancel it. So a node
\* never has two services that both mean to go on.
NoServiceForgotten ==
    \A h \in Handles : svc[h].pc \in {"init", "run"} /\ ~Cancelled(h) =>
        \/ nodes[svc[h].node] = h
        \/ \E t \in Tasks : tasks[t].pc = "cancel" /\ tasks[t].handle = h

\* After stopAll began, no discovery or reconciliation that was still on its
\* way starts a service.
NothingStartsAfterStop ==
    [][stopping => \A h \in Handles : svc[h].pc = "done" => svc'[h].pc = "done"]_vars

Served(n) == nodes[n] # None /\ svc[nodes[n]].pc = "run"

\* Stale discoveries, failed requests and concurrent restarts settle: in the
\* end exactly the assigned nodes are served, unless the agent is stopped.
AssignmentConverges == <>[](~ctx \/ \A n \in Nodes : n \in assigned <=> Served(n))
=============================================================================
