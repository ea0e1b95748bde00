----------------------------- MODULE MCProcess -----------------------------
(***************************************************************************)
(* The corade process: how it enrolls (Enrollment) and how it follows its  *)
(* configuration file and signals (ConfigReload).  Enrollment has its own  *)
(* coarse picture of a reload, so the two are checked side by side: a      *)
(* behaviour is one of the first or one of the second; side says which,    *)
(* and the other one keeps its initial state.                              *)
(***************************************************************************)
EXTENDS Enrollment

CONSTANTS Instances, MaxEdits, MaxSignals

VARIABLES
    side,
    file, class, root, phase, next, alive, ctxDone, watching, armed, reads,
    reloadCh, sig, handler, doomed, signals, calm

reloadVars == <<file, class, root, phase, next, alive, ctxDone, watching, armed,
                reads, reloadCh, sig, handler, doomed, signals, calm>>

Process == INSTANCE ConfigReload

MCInit ==
    /\ side \in {"enrollment", "reload"}
    /\ Init
    /\ side = "reload" => \* one initial state of the other side is enough
          source = "config" /\ ~multi /\ conf.pin /\ valid = CHOOSE t \in Tokens : TRUE
    /\ Process!Init

MCNext ==
    \/ side = "enrollment" /\ Next /\ UNCHANGED <<side, reloadVars>>
    \/ side = "reload" /\ Process!Next /\ UNCHANGED <<side, vars>>

\* The side that moves is fair.
MCSpec ==
    /\ MCInit /\ [][MCNext]_<<side, vars, reloadVars>>
    /\ \/ side = "enrollment" /\ Fairness
       \/ side = "reload" /\ Process!Fairness

\* A machine the panel knows gets a session again and again, and the cleanup
\* after enrollment does not restart the agent forever.
SessionAgain == side = "enrollment" => ConnectedAgain /\ RestartsEnd

\* The variables of both have their types; and two generations of an instance
\* never run at once.
OneGeneration ==
    IF side = "enrollment" THEN TypeOK ELSE Process!TypeOK /\ Process!OneGeneration

\* A slow reload never takes the services back to an older version.
NeverOlder == Process!NeverOlder

\* The services end up running the file as it was last saved.
ChangeReaches == Process!ChangeReaches
=============================================================================
