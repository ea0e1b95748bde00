---------------------------- MODULE ConfigReload ----------------------------
(***************************************************************************)
(* The life of the corade process: it runs one generation of services from *)
(* one version of the configuration file, a watcher reads the file again   *)
(* when it changes, and the process then stops the whole generation and    *)
(* starts the next one. Signals and failing services end the process.      *)
(*                                                                         *)
(* Source: cmd/corade/main.go (runWithReload), internal/config/watcher.go, *)
(* LoadRoot and ValidateStartupLayout in internal/config/config.go.        *)
(*                                                                         *)
(* A version of the file is "good", "invalid" (LoadRoot refuses it) or     *)
(* "conflict" (it loads, but its layout or its health port is refused).    *)
(***************************************************************************)
EXTENDS Naturals

CONSTANTS
    Instances,  \* the instances of a configuration
    None,       \* no version
    MaxEdits,   \* bound: edits of the file
    MaxSignals  \* bound: SIGINT and SIGTERM

VARIABLES
    file,       \* the newest version of the file
    class,      \* what each version is
    root,       \* the version the services run with
    phase,      \* where runWithReload is
    next,       \* newRoot
    alive,      \* running copies of each instance
    ctxDone,    \* the generation's context is cancelled
    watching,   \* the watcher's loop runs
    armed,      \* the debounce timer runs
    reads,      \* versions read by Watcher.reload and not yet delivered
    reloadCh,   \* the channel of capacity one
    sig,        \* a signal waits in sigCh
    handler,    \* the goroutine waiting for a signal
    doomed,     \* the handler of an earlier generation is about to exit
    signals,    \* signals sent
    calm        \* history: the last edit met no reload under way

fileVars == <<file, class, calm>>
watchVars == <<watching, armed, reads, reloadCh>>
signalVars == <<sig, handler, doomed, signals>>
vars == <<fileVars, root, phase, next, alive, ctxDone, watchVars, signalVars>>

Versions == 0 .. MaxEdits
Classes == {"good", "invalid", "conflict"}
Ended == {"exited", "refused"}
AllDone == \A i \in Instances : alive[i] = 0

Init ==
    /\ file = 0 /\ root = 0
    /\ class = [v \in Versions |-> "good"]
    /\ phase = "begin"
    /\ next = None
    /\ alive = [i \in Instances |-> 0]
    /\ ctxDone = FALSE
    /\ watching = FALSE /\ armed = FALSE /\ reads = {} /\ reloadCh = None
    /\ sig = FALSE /\ handler = "gone" /\ doomed = FALSE /\ signals = 0
    /\ calm = TRUE

\* The top of the loop: context, signal channel, watcher, layout, services.
\* (WatchConfigRoot is assumed to succeed; without a watcher nothing reloads.)
Begin ==
    /\ phase = "begin"
    /\ \/ /\ class[root] = "conflict"
          /\ phase' = "refused"
          /\ UNCHANGED <<alive, ctxDone, watching, handler>>
       \/ /\ class[root] # "conflict"
          /\ phase' = "run"
          /\ alive' = [i \in Instances |-> alive[i] + 1]
          /\ ctxDone' = FALSE
          /\ watching' = TRUE
          /\ handler' = "wait"
    /\ UNCHANGED <<fileVars, root, next, armed, reads, reloadCh, sig, doomed, signals>>

Quiet == phase = "run" /\ ~ctxDone /\ reads = {} /\ reloadCh = None

\* Mutant: a file saved by a rename is not noticed (only Write events count).
EditRenamed(c) ==
    /\ phase \notin Ended
    /\ file < MaxEdits
    /\ calm' = Quiet
    /\ file' = file + 1
    /\ class' = [class EXCEPT ![file + 1] = c]
    /\ UNCHANGED <<root, phase, next, alive, ctxDone, watchVars, signalVars>>

\* The file is saved; a watcher's loop that sees it starts its timer anew.
Edit(c) ==
    /\ phase \notin Ended
    /\ file < MaxEdits
    /\ calm' = Quiet
    /\ file' = file + 1
    /\ class' = [class EXCEPT ![file + 1] = c]
    /\ armed' = (armed \/ watching)
    /\ UNCHANGED <<root, phase, next, alive, ctxDone, watching, reads, reloadCh, signalVars>>

\* Watcher.reload: an invalid file is logged and the current one kept.
TimerFires ==
    /\ armed /\ phase \notin Ended
    /\ reads' = IF class[file] = "invalid" THEN reads ELSE reads \cup {file}
    /\ armed' = FALSE
    /\ UNCHANGED <<fileVars, root, phase, next, alive, ctxDone, watching, reloadCh, signalVars>>

\* onChange: what does not fit into the channel is dropped.
Deliver(v) ==
    /\ phase \notin Ended
    /\ v \in reads
    /\ reads' = reads \ {v}
    /\ reloadCh' = IF reloadCh = None THEN v ELSE reloadCh
    /\ UNCHANGED <<fileVars, root, phase, next, alive, ctxDone, watching, armed, signalVars>>

\* Watcher.loop returns when the context ends, and stops its timer.
LoopEnds ==
    /\ watching /\ ctxDone /\ phase \notin Ended
    /\ watching' = FALSE
    /\ armed' = FALSE
    /\ UNCHANGED <<fileVars, root, phase, next, alive, ctxDone, reads, reloadCh, signalVars>>

\* An instance ends: with an error, which cancels the others, or because the
\* context was cancelled.
ServiceEnds(i, err) ==
    /\ phase \notin Ended
    /\ alive[i] > 0
    /\ err \/ ctxDone
    /\ alive' = [alive EXCEPT ![i] = @ - 1]
    /\ ctxDone' = TRUE
    /\ UNCHANGED <<fileVars, root, phase, next, watchVars, signalVars>>

\* The select of runWithReload: a new configuration cancels the generation ...
TakeReload ==
    /\ phase = "run"
    /\ reloadCh # None
    /\ next' = reloadCh
    /\ reloadCh' = None
    /\ ctxDone' = TRUE
    /\ phase' = "wait"
    /\ UNCHANGED <<fileVars, root, alive, watching, armed, reads, signalVars>>

\* ... and without one the end of all services is the end of the process.
Finish ==
    /\ phase = "run"
    /\ AllDone
    /\ phase' = "exited"
    /\ UNCHANGED <<fileVars, root, next, alive, ctxDone, watchVars, signalVars>>

\* Mutant: the next generation does not wait for this one.
RestartEarly ==
    /\ phase = "wait"
    /\ root' = next
    /\ next' = None
    /\ phase' = "begin"
    /\ watching' = FALSE /\ armed' = FALSE /\ reads' = {} /\ reloadCh' = None
    /\ sig' = FALSE
    /\ doomed' = (doomed \/ handler = "timing")
    /\ handler' = "gone"
    /\ UNCHANGED <<fileVars, alive, ctxDone, signals>>

\* Mutant: one channel serves all generations.
RestartSharing ==
    /\ phase = "wait"
    /\ AllDone
    /\ root' = next
    /\ next' = None
    /\ phase' = "begin"
    /\ watching' = FALSE /\ armed' = FALSE
    /\ sig' = FALSE
    /\ doomed' = (doomed \/ handler = "timing")
    /\ handler' = "gone"
    /\ UNCHANGED <<fileVars, alive, ctxDone, reads, reloadCh, signals>>

\* doneCh is closed: signal.Stop, watcher.Stop, and round the loop. Whatever
\* the old watcher or the old signal channel still holds is gone with them.
Restart ==
    /\ phase = "wait"
    /\ AllDone
    /\ root' = next
    /\ next' = None
    /\ phase' = "begin"
    /\ watching' = FALSE /\ armed' = FALSE /\ reads' = {} /\ reloadCh' = None
    /\ sig' = FALSE
    /\ doomed' = (doomed \/ handler = "timing")
    /\ handler' = "gone"
    /\ UNCHANGED <<fileVars, alive, ctxDone, signals>>

\* A signal: where no channel is notified, it ends the process.
Signal ==
    /\ phase \notin Ended
    /\ signals < MaxSignals
    /\ signals' = signals + 1
    /\ sig' = (phase # "begin")
    /\ phase' = IF phase = "begin" THEN "exited" ELSE phase
    /\ UNCHANGED <<fileVars, root, next, alive, ctxDone, watchVars, handler, doomed>>

\* The signal goroutine: the first signal cancels the context and starts the
\* 15-second limit; it leaves when the context is cancelled by others.
HandlerTakes ==
    /\ handler = "wait" /\ sig /\ phase \notin Ended
    /\ handler' = "timing"
    /\ sig' = FALSE
    /\ ctxDone' = TRUE
    /\ UNCHANGED <<fileVars, root, phase, next, alive, watchVars, doomed, signals>>

HandlerLeaves ==
    /\ handler = "wait" /\ ctxDone /\ phase \notin Ended
    /\ handler' = "gone"
    /\ UNCHANGED <<fileVars, root, phase, next, alive, ctxDone, watchVars, sig, doomed, signals>>

\* A second signal, or the 15-second limit, which outlives its generation.
ForceExit ==
    /\ handler = "timing" \/ doomed
    /\ phase \notin Ended
    /\ phase' = "exited"
    /\ UNCHANGED <<fileVars, root, next, alive, ctxDone, watchVars, signalVars>>

Over == phase \in Ended /\ UNCHANGED vars

Next ==
    \/ Begin \/ TimerFires \/ LoopEnds \/ TakeReload \/ Finish \/ Restart
    \/ Signal \/ HandlerTakes \/ HandlerLeaves \/ ForceExit
    \/ \E c \in Classes : Edit(c)
    \/ \E v \in Versions : Deliver(v)
    \/ \E i \in Instances, err \in BOOLEAN : ServiceEnds(i, err)
    \/ Over

Spec == Init /\ [][Next]_vars

\* Goroutines run, timers fire, and a cancelled instance returns from Run.
Fairness ==
    /\ WF_vars(Begin) /\ WF_vars(TimerFires) /\ WF_vars(LoopEnds)
    /\ WF_vars(TakeReload) /\ WF_vars(Finish) /\ WF_vars(Restart)
    /\ WF_vars(HandlerTakes) /\ WF_vars(HandlerLeaves) /\ WF_vars(ForceExit)
    /\ \A v \in Versions : WF_vars(Deliver(v))
    /\ \A i \in Instances : WF_vars(ServiceEnds(i, FALSE))

FairSpec == Spec /\ Fairness

(***************************************************************************)
(* Properties                                                              *)
(***************************************************************************)

\* Services only run with a version that LoadRoot accepted.
TypeOK ==
    /\ file \in Versions /\ root \in Versions /\ class \in [Versions -> Classes]
    /\ class[root] # "invalid"
    /\ phase \in {"begin", "run", "wait"} \cup Ended
    /\ next \in Versions \cup {None} /\ reloadCh \in Versions \cup {None}
    /\ alive \in [Instances -> Nat]
    /\ reads \subseteq Versions
    /\ {ctxDone, watching, armed, sig, doomed} \subseteq BOOLEAN
    /\ handler \in {"wait", "timing", "gone"}
    /\ signals \in 0 .. MaxSignals

\* Two generations of an instance never run at once: they would share ports,
\* directories and the session (doneCh is awaited).
OneGeneration == \A i \in Instances : alive[i] <= 1

\* A slow reload never takes the services back to an older version.
NeverOlder == [][root' >= root]_root

\* The services end up running the file as it was last saved, if that was while
\* no reload was under way, unless it is invalid or the process ends
\* ("restarts all node services when the config file changes").
ChangeReaches ==
    <>[](root = file \/ class[file] = "invalid" \/ phase \in Ended \/ ~calm)

=============================================================================
