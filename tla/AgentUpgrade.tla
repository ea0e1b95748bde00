---------------------------- MODULE AgentUpgrade ----------------------------
(***************************************************************************)
(* The upgrade of the agent by a command of the panel: the command is      *)
(* persisted, acknowledged and handed to a detached installer, which       *)
(* replaces the binary, restarts the agent and leaves a result file; the   *)
(* agent of the moment reports what it finds on disk.                      *)
(*                                                                         *)
(* Sources: internal/deviceplatform/orchestrator.go, upgrade.go,           *)
(* upgrade_state.go; install.sh as far as upgrade.go uses it.              *)
(*                                                                         *)
(* The task id stands for the version it asks for as well.                 *)
(***************************************************************************)
EXTENDS Naturals

CONSTANTS
    Tasks,       \* upgrade tasks of the panel
    Invalid,     \* the tasks whose version validateUpgradeVersion rejects
    Initially,   \* the version installed at first
    Nil,         \* no file, no message
    MaxCrashes   \* bound: crashes of the agent or of the machine

ASSUME UpgradeAssumption ==
    /\ Invalid \subseteq Tasks
    /\ Initially \notin Tasks
    /\ Nil \notin Tasks
    /\ MaxCrashes \in Nat

VARIABLES
    pc,        \* the agent's step: see Steps
    version,   \* the version of the running agent
    msg,       \* the upgrade result the agent is sending, or Nil
    state,     \* agent-upgrade-state.json, or Nil
    result,    \* agent-upgrade-result, or Nil; its task is Nil if unreadable
    binary,    \* the version installed
    installer, \* the detached installer of each task
    previous,  \* the binary it saved
    panel,     \* what the panel knows of each task
    crashes,   \* crashes so far (bound only)
    installed  \* history: tasks whose installer succeeded

agentVars == <<pc, version, msg>>
diskVars == <<state, result, binary, previous>>
vars == <<pc, version, msg, state, result, binary, previous, installer, panel,
          crashes, installed>>

\* down; idle: in the select; pending: in reportPendingUpgrade; reporting: its
\* request is sent; heartbeat: before the heartbeat; ack, schedule, failing: in
\* handleCommands.
Steps == {"down", "idle", "pending", "reporting", "heartbeat", "ack",
          "schedule", "failing"}
Terminal == {"succeeded", "failed"}

\* What is on disk: overdue stands for an updated_at 12 minutes ago.
State == [task : Tasks, status : {"acknowledged", "failed"}, overdue : BOOLEAN]
Result == [task : Tasks \cup {Nil}, status : Terminal]

\* A report of the agent; clean tells which files go once it is confirmed.
Message == [task : Tasks, status : Terminal \cup {"acknowledged"},
            clean : {"nothing", "state", "both"}]

Init ==
    /\ pc = "pending"
    /\ version = Initially
    /\ msg = Nil
    /\ state = Nil
    /\ result = Nil
    /\ binary = Initially
    /\ previous = [t \in Tasks |-> Initially]
    /\ installer = [t \in Tasks |-> "none"]
    /\ panel = [t \in Tasks |-> "none"]
    /\ crashes = 0
    /\ installed = {}

(***************************************************************************)
(* The panel.                                                              *)
(***************************************************************************)

\* The administrator asks for an upgrade; the panel has one open task at most.
PanelIssues(t) ==
    /\ panel[t] = "none"
    /\ \A u \in Tasks : panel[u] \in Terminal \cup {"none"}
    /\ panel' = [panel EXCEPT ![t] = "open"]
    /\ UNCHANGED <<agentVars, diskVars, installer, crashes, installed>>

\* The panel hears of a task; the first terminal report counts.
PanelHears(m) ==
    panel' = IF panel[m.task] \in Terminal THEN panel
             ELSE [panel EXCEPT ![m.task] = m.status]

(***************************************************************************)
(* The agent.                                                              *)
(***************************************************************************)

\* Run: the service manager starts the installed binary, and what an earlier
\* process left is reported first.
Boot ==
    /\ pc = "down"
    /\ pc' = "pending"
    /\ version' = binary
    /\ UNCHANGED <<msg, diskVars, installer, panel, crashes, installed>>

\* The heartbeat ticker.
Tick ==
    /\ pc = "idle"
    /\ pc' = "pending"
    /\ UNCHANGED <<version, msg, diskVars, installer, panel, crashes, installed>>

\* Mutant: whatever the installer says is reported.
ClassifyTrusting(r) == r.status

\* classifyUpgradeResult: a success must have brought the wanted version.
Classify(r) ==
    IF r.status = "succeeded" /\ version # state.task THEN "failed" ELSE r.status

\* Mutant: an overdue task is acknowledged again.
PendingReportPatient ==
    CASE result # Nil /\ result.task = state.task ->
             [task |-> state.task, status |-> Classify(result), clean |-> "both"]
      [] OTHER ->
             [task |-> state.task, status |-> "acknowledged", clean |-> "nothing"]

\* reportPendingUpgrade: the report for what is on disk.
PendingReport ==
    CASE result # Nil /\ result.task = state.task ->
             [task |-> state.task, status |-> Classify(result), clean |-> "both"]
      [] result # Nil /\ result.task = Nil ->
             [task |-> state.task, status |-> "failed", clean |-> "both"]
      [] state.status = "failed" ->
             [task |-> state.task, status |-> "failed", clean |-> "state"]
      [] state.status = "acknowledged" /\ state.overdue ->
             [task |-> state.task, status |-> "failed", clean |-> "state"]
      [] OTHER ->
             [task |-> state.task, status |-> "acknowledged", clean |-> "nothing"]

ReportPendingUpgrade ==
    /\ pc = "pending"
    /\ \/ /\ state = Nil
          /\ pc' = "heartbeat"
          /\ UNCHANGED msg
       \/ /\ state # Nil
          /\ pc' = "reporting"
          /\ msg' = PendingReport
    /\ UNCHANGED <<version, diskVars, installer, panel, crashes, installed>>

\* What follows a request, by the step that sent it.
After(step) ==
    CASE step = "reporting" -> "heartbeat"
      [] step = "ack" -> "schedule"
      [] step = "failing" -> "idle"

\* Mutant: the files go although the request failed.
SendFailsCleaning(heard) ==
    /\ pc \in {"reporting", "ack", "failing"}
    /\ IF heard THEN PanelHears(msg) ELSE UNCHANGED panel
    /\ pc' = After(pc)
    /\ msg' = Nil
    /\ state' = IF msg.clean = "nothing" THEN state ELSE Nil
    /\ result' = IF msg.clean = "both" THEN Nil ELSE result
    /\ UNCHANGED <<version, binary, previous, installer, crashes, installed>>

\* sendUpgradeResult fails; the panel may have heard it nevertheless.
SendFails(heard) ==
    /\ pc \in {"reporting", "ack", "failing"}
    /\ IF heard THEN PanelHears(msg) ELSE UNCHANGED panel
    /\ pc' = After(pc)
    /\ msg' = Nil
    /\ UNCHANGED <<version, diskVars, installer, crashes, installed>>

\* sendUpgradeResult is confirmed, and the files it settles are removed.
SendSucceeds ==
    /\ pc \in {"reporting", "ack", "failing"}
    /\ PanelHears(msg)
    /\ pc' = After(pc)
    /\ msg' = Nil
    /\ state' = IF msg.clean = "nothing" THEN state ELSE Nil
    /\ result' = IF msg.clean = "both" THEN Nil ELSE result
    /\ UNCHANGED <<version, binary, previous, installer, crashes, installed>>

\* sendHeartbeat without a response, or without a command in it.
HeartbeatIdle ==
    /\ pc = "heartbeat"
    /\ pc' = "idle"
    /\ UNCHANGED <<version, msg, diskVars, installer, panel, crashes, installed>>

\* sendHeartbeat brings a command: handleCommands up to its first request.
\* A version that is not valid cannot be persisted.
HandleCommand(t) ==
    /\ pc = "heartbeat"
    /\ panel[t] = "open"
    /\ \/ /\ t \notin Invalid
          /\ state' = [task |-> t, status |-> "acknowledged", overdue |-> FALSE]
          /\ pc' = "ack"
          /\ msg' = [task |-> t, status |-> "acknowledged", clean |-> "nothing"]
       \/ /\ t \in Invalid
          /\ pc' = "failing"
          /\ msg' = [task |-> t, status |-> "failed", clean |-> "state"]
          /\ UNCHANGED state
    /\ UNCHANGED <<version, result, binary, previous, installer, panel,
                   crashes, installed>>

\* scheduleAgentUpgrade starts the installer; a unit of that name that still
\* exists is refused by the service manager.
Schedule ==
    /\ pc = "schedule"
    /\ installer[state.task] \notin {"scheduled", "running", "replaced"}
    /\ installer' = [installer EXCEPT ![state.task] = "scheduled"]
    /\ pc' = "idle"
    /\ UNCHANGED <<version, msg, diskVars, panel, crashes, installed>>

\* scheduleAgentUpgrade fails.  failUpgrade asks to persist "failed" with an
\* empty version, which saveUpgradeState rejects: the file stays as it is.
ScheduleFails ==
    /\ pc = "schedule"
    /\ pc' = "failing"
    /\ msg' = [task |-> state.task, status |-> "failed", clean |-> "state"]
    /\ UNCHANGED <<version, diskVars, installer, panel, crashes, installed>>

\* The process ends.
Killed == pc' = "down" /\ msg' = Nil

Crash ==
    /\ pc # "down"
    /\ crashes < MaxCrashes
    /\ crashes' = crashes + 1
    /\ Killed
    /\ UNCHANGED <<version, diskVars, installer, panel, installed>>

\* Twelve minutes go by.
TimePasses ==
    /\ state # Nil
    /\ ~state.overdue
    /\ state' = [state EXCEPT !.overdue = TRUE]
    /\ UNCHANGED <<agentVars, result, binary, previous, installer, panel,
                   crashes, installed>>

(***************************************************************************)
(* The installer.                                                          *)
(***************************************************************************)

\* The script removes the files of an earlier upgrade.
InstallerStarts(t) ==
    /\ installer[t] = "scheduled"
    /\ installer' = [installer EXCEPT ![t] = "running"]
    /\ result' = Nil
    /\ UNCHANGED <<agentVars, state, binary, previous, panel, crashes,
                   installed>>

\* install_artifacts_and_restart stops the agent and replaces the binary.
InstallerReplaces(t) ==
    /\ installer[t] = "running"
    /\ installer' = [installer EXCEPT ![t] = "replaced"]
    /\ binary' = t
    /\ previous' = [previous EXCEPT ![t] = binary]
    /\ Killed
    /\ UNCHANGED <<version, state, result, panel, crashes, installed>>

\* The result is written, or cannot be written whole.
Writes(t, status) ==
    result' \in {[task |-> t, status |-> status], [task |-> Nil, status |-> "failed"]}

\* The installer exits and removes its work directory.
Exits(t) ==
    /\ installer' = [installer EXCEPT ![t] = "ended"]
    /\ previous' = [previous EXCEPT ![t] = Initially]

\* The new agent became healthy.
InstallerSucceeds(t) ==
    /\ installer[t] = "replaced"
    /\ pc # "down"
    /\ Exits(t)
    /\ Writes(t, "succeeded")
    /\ installed' = installed \cup {t}
    /\ UNCHANGED <<agentVars, state, binary, panel, crashes>>

\* The download or its verification fails, before anything is replaced.
InstallerFails(t) ==
    /\ installer[t] = "running"
    /\ Exits(t)
    /\ Writes(t, "failed")
    /\ UNCHANGED <<agentVars, state, binary, panel, crashes, installed>>

\* The new agent did not become healthy: restore_previous_version, which may
\* fail as well.
InstallerRollsBack(t) ==
    /\ installer[t] = "replaced"
    /\ Exits(t)
    /\ binary' \in {binary, previous[t]}
    /\ Killed
    /\ Writes(t, "failed")
    /\ UNCHANGED <<version, state, panel, crashes, installed>>

\* The machine goes down, and its installers with it.
Reboot ==
    /\ crashes < MaxCrashes
    /\ crashes' = crashes + 1
    /\ Killed
    /\ installer' = [t \in Tasks |-> IF installer[t] = "none" THEN "none" ELSE "ended"]
    /\ previous' = [t \in Tasks |-> Initially]
    /\ UNCHANGED <<version, state, result, binary, panel, installed>>

AgentStep ==
    \/ Boot \/ Tick \/ ReportPendingUpgrade
    \/ \E heard \in BOOLEAN : SendFails(heard)
    \/ SendSucceeds
    \/ HeartbeatIdle
    \/ \E t \in Tasks : HandleCommand(t)
    \/ Schedule \/ ScheduleFails

InstallerStep(t) ==
    \/ InstallerStarts(t) \/ InstallerReplaces(t) \/ InstallerSucceeds(t)
    \/ InstallerFails(t) \/ InstallerRollsBack(t)

Next ==
    \/ \E t \in Tasks : PanelIssues(t) \/ InstallerStep(t)
    \/ AgentStep
    \/ Crash \/ Reboot \/ TimePasses

Spec == Init /\ [][Next]_vars

\* The agent is restarted by its service manager and runs; time goes by; of
\* the reports that are repeated for ever one is confirmed.  Nothing is
\* assumed of the installer.
Fairness ==
    /\ WF_vars(AgentStep)
    /\ WF_vars(TimePasses)
    /\ SF_vars(SendSucceeds /\ pc = "reporting" /\ msg.status \in Terminal)

LiveSpec == Spec /\ Fairness

-----------------------------------------------------------------------------
(***************************************************************************)
(* Properties.                                                             *)
(***************************************************************************)

\* Every variable has its type.
TypeOK ==
    /\ pc \in Steps
    /\ version \in Tasks \cup {Initially}
    /\ msg \in Message \cup {Nil}
    /\ state \in State \cup {Nil}
    /\ result \in Result \cup {Nil}
    /\ binary \in Tasks \cup {Initially}
    /\ previous \in [Tasks -> Tasks \cup {Initially}]
    /\ installer \in [Tasks -> {"none", "scheduled", "running", "replaced", "ended"}]
    /\ panel \in [Tasks -> Terminal \cup {"none", "open", "acknowledged"}]
    /\ installed \subseteq Tasks
    /\ pc \in {"reporting", "ack", "failing"} <=> msg # Nil

\* The panel is told of a success only if that task's installer succeeded and
\* by an agent of the version it was to install, whatever result files earlier
\* and slower installers leave: classifyUpgradeResult, and the task id in the
\* result file.
SuccessIsTrue ==
    [][\A t \in Tasks : panel[t] # "succeeded" /\ panel'[t] = "succeeded" =>
          t \in installed /\ version = t]_vars

\* "A persisted state lets the replacement process finish the lifecycle": the
\* state file of a task in progress survives whatever happens to the agent.
LifecycleKept ==
    \A t \in Tasks : panel[t] = "acknowledged" => state # Nil /\ state.task = t

\* upgradePendingResultTimeout "prevents an acknowledged task from remaining
\* in "upgrading" forever when the installer or init system exits
\* unexpectedly".
AcknowledgedEnds ==
    \A t \in Tasks : panel[t] = "acknowledged" ~> panel[t] \in Terminal
=============================================================================
