--------------------------- MODULE MCAgentUpgrade ---------------------------
(***************************************************************************)
(* The two ways a machine is upgraded: by a task of the panel              *)
(* (AgentUpgrade; two tasks, one after the other, and one whose version is *)
(* not valid) and by coradectl (CtlUpgrade).  They are checked side by     *)
(* side: a behaviour is one of the first or one of the second; side says   *)
(* which, and the other one keeps its initial state.                       *)
(***************************************************************************)
EXTENDS AgentUpgrade

CONSTANTS Versions, MaxBuild, MaxUpgrades, MaxFaults

VARIABLES
    side,
    site, latest, bin, cli, bakBin, bakCli, running, probed, step, up, outcome,
    apart, upgrades, faults

ctlVars == <<site, latest, bin, cli, bakBin, bakCli, running, probed, step, up,
             outcome, apart, upgrades, faults>>

Ctl == INSTANCE CtlUpgrade WITH Broken <- {<<"v2", 1>>}, pc <- step

MCInit ==
    /\ side \in {"panel", "coradectl"}
    /\ Init
    /\ Ctl!Init
    /\ side = "panel" => latest = "v1" /\ probed

MCNext ==
    \/ side = "panel" /\ Next /\ UNCHANGED <<side, ctlVars>>
    \/ side = "coradectl" /\ Ctl!Next /\ UNCHANGED <<side, vars>>

\* The panel's side is fair; nothing is assumed of the other.
MCSpec ==
    /\ MCInit /\ [][MCNext]_<<side, vars, ctlVars>>
    /\ side = "panel" => Fairness

\* The variables of both have their types; and the state file of a task in
\* progress survives whatever happens to the agent.
LifecycleSurvives ==
    IF side = "panel" THEN TypeOK /\ LifecycleKept ELSE Ctl!TypeOK

\* The agent and coradectl installed are of one release, and what coradectl
\* reports of an upgrade is true.
CtlReportsTrue ==
    /\ [](side = "coradectl" => Ctl!OneRelease)
    /\ Ctl!ReportTrue
=============================================================================
