----------------------------- MODULE CtlUpgrade -----------------------------
(***************************************************************************)
(* `coradectl upgrade`: it resolves a signed release, downloads the agent  *)
(* and the CLI one after the other, verifies each against a manifest of    *)
(* its own, backs the installed pair up, renames the new pair into place,  *)
(* restarts the service and, when the service does not become healthy,     *)
(* renames the backups back.                                               *)
(*                                                                         *)
(* Meanwhile a tag may be published again with another build, a download   *)
(* may be damaged, any file operation or restart may fail and the command  *)
(* may be killed between any two steps.                                    *)
(*                                                                         *)
(* Source: cmd/xbctl/main.go (runUpgrade, runUninstall), release.go,       *)
(* service_manager.go and internal/releaseverify/verify.go.                *)
(*                                                                         *)
(* A release is a version and a build: a tag names the version alone, the  *)
(* signed agent-version.txt names both. All files of a release are         *)
(* abstracted to the release itself.                                       *)
(***************************************************************************)
EXTENDS Naturals

CONSTANTS
    Versions,     \* release versions, each with a tag of its own
    MaxBuild,     \* bound: how often a tag is published
    Broken,       \* the releases whose agent never becomes healthy
    MaxUpgrades,  \* bound: upgrades and uninstallations begun
    MaxFaults     \* bound: damaged downloads, failed operations and crashes

VARIABLES
    site,       \* the build each tag serves
    latest,     \* the version the tag corade-latest serves
    bin, cli,   \* the installed files
    bakBin, bakCli,   \* the .bak files beside them
    running,    \* the release the service runs
    probed,     \* install-meta.json or config.yml names a health port
    pc, up,     \* the command: its step, and what it has resolved and staged
    outcome,    \* what the last command reported
    apart,      \* a command was cut short, or could not restore a file
    upgrades, faults

installed == <<bin, cli, bakBin, bakCli>>
ctlUpgradeVars == <<site, latest, installed, running, probed, pc, up, outcome, apart, upgrades, faults>>

Releases == Versions \X (1..MaxBuild)
None == <<"none", 0>>
Damaged == <<"damaged", 0>>
Files == Releases \cup {None, Damaged}
NoUpgrade == [tag |-> "latest", to |-> None, manifest |-> None, bin |-> None, cli |-> None,
              was |-> <<None, None>>, restored |-> TRUE]

Served(tag) == LET v == IF tag = "latest" THEN latest ELSE tag IN <<v, site[v]>>

Init ==
    /\ site = [v \in Versions |-> 1]
    /\ latest \in Versions
    /\ bin \in Releases \ Broken
    /\ cli = bin
    /\ bin[2] = 1
    /\ bakBin = None /\ bakCli = None
    /\ running = bin
    /\ probed \in BOOLEAN
    /\ pc = "idle"
    /\ up = NoUpgrade
    /\ outcome = "none"
    /\ apart = FALSE
    /\ upgrades = 0
    /\ faults = 0

\* The publisher moves a tag.
Publish(v) ==
    /\ \/ site[v] < MaxBuild /\ site' = [site EXCEPT ![v] = @ + 1] /\ UNCHANGED latest
       \/ latest # v /\ latest' = v /\ UNCHANGED site
    /\ UNCHANGED <<installed, running, probed, pc, up, outcome, apart, upgrades, faults>>

Fault == faults < MaxFaults /\ faults' = faults + 1

Goes(step, u) == pc' = step /\ up' = u

\* The command returns; its staging directories are removed.
Returns(what) ==
    /\ pc' = "idle"
    /\ up' = NoUpgrade
    /\ outcome' = what

\* VerifyVersion: "latest" accepts any signed version, a bare version accepts
\* every build of it, a version with a build only itself.
VerifyVersion(signed, expected) ==
    \/ expected = <<"latest", 0>>
    \/ expected = signed
    \/ expected[2] = 0 /\ expected[1] = signed[1]

\* runUpgrade up to resolveSignedReleaseVersion: the metadata of the tag asked
\* for names the release.
Upgrade(tag) ==
    /\ pc = "idle"
    /\ cli # None
    /\ upgrades < MaxUpgrades
    /\ upgrades' = upgrades + 1
    /\ VerifyVersion(Served(tag), <<tag, 0>>)
    /\ Goes("binMeta", [NoUpgrade EXCEPT !.tag = Served(tag)[1], !.to = Served(tag), !.was = <<bin, cli>>])
    /\ outcome' = "none"
    /\ UNCHANGED <<site, latest, installed, running, probed, apart, faults>>

\* downloadReleaseMetadata for one artifact: the manifest is signed, and it
\* must be of the release resolved before.
FetchMetadata(step, next) ==
    /\ pc = step
    /\ \/ /\ VerifyVersion(Served(up.tag), up.to)
          /\ Goes(next, [up EXCEPT !.manifest = Served(up.tag)])
          /\ UNCHANGED <<outcome, faults>>
       \/ /\ ~VerifyVersion(Served(up.tag), up.to)
          /\ Returns("refused")
          /\ UNCHANGED faults
       \/ Fault /\ Returns("refused")
    /\ UNCHANGED <<site, latest, installed, running, probed, apart, upgrades>>

\* VerifyFile: the digest in the manifest.
VerifyFile(file) == file = up.manifest

\* downloadSignedArtifact: only verified bytes reach the staging file.
Fetch(step, next, artifact) ==
    /\ pc = step
    /\ \E file \in {Served(up.tag), Damaged} :
          /\ IF file = Damaged THEN Fault ELSE UNCHANGED faults
          /\ IF VerifyFile(file)
             THEN Goes(next, [up EXCEPT ![artifact] = file]) /\ UNCHANGED outcome
             ELSE Returns("refused")
    /\ UNCHANGED <<site, latest, installed, running, probed, apart, upgrades>>

\* The version checks of the staged files, then copyFile of the agent and of the
\* CLI. A check or a copy that fails ends the command; the copy may leave a
\* damaged backup.
Backup ==
    /\ pc = "backup"
    /\ \/ /\ bakBin' = IF bin # None THEN bin ELSE bakBin
          /\ bakCli' = IF cli # None THEN cli ELSE bakCli
          /\ Goes("bin", up)
          /\ UNCHANGED <<outcome, faults>>
       \/ /\ Fault
          /\ \/ UNCHANGED <<bakBin, bakCli>>
             \/ bin # None /\ bakBin' = Damaged /\ UNCHANGED bakCli
             \/ bakBin' = (IF bin # None THEN bin ELSE bakBin) /\ bakCli' = Damaged
          /\ Returns("refused")
    /\ UNCHANGED <<site, latest, bin, cli, running, probed, apart, upgrades>>

\* The rename of the agent.
ReplaceBinary ==
    /\ pc = "bin"
    /\ \/ /\ bin' = up.bin
          /\ Goes("cli", up)
          /\ UNCHANGED <<outcome, faults>>
       \/ /\ Fault
          /\ Returns("refused")
          /\ UNCHANGED bin
    /\ UNCHANGED <<site, latest, cli, bakBin, bakCli, running, probed, apart, upgrades>>

\* The rename of the CLI. When it fails the agent's backup is renamed back,
\* and that rename is not looked at.
ReplaceCLI ==
    /\ pc = "cli"
    /\ \/ /\ cli' = up.cli
          /\ Goes("restart", up)
          /\ UNCHANGED <<bin, bakBin, outcome, faults, apart>>
       \/ /\ Fault
          /\ \/ bakBin # None /\ bin' = bakBin /\ bakBin' = None /\ UNCHANGED apart
             \/ apart' = TRUE /\ UNCHANGED <<bin, bakBin>>
          /\ Returns("refused")
          /\ UNCHANGED cli
    /\ UNCHANGED <<site, latest, bakCli, running, probed, upgrades>>

\* The service manager restarts the service: the process that ran is gone and
\* the installed agent runs, or nothing does.
RestartService(file) == running' = file

\* waitForManagedServiceHealthy: with a health port only an agent that answers
\* is healthy; without one an active service is enough, and a broken agent may
\* be seen while the manager is starting it.
MayPass(file) == file \notin Broken \/ ~probed
MayFail(file) == file \in Broken

\* restart, and the wait for its health.
Restart ==
    /\ pc = "restart"
    /\ \/ /\ RestartService(bin)
          /\ MayPass(bin)
          /\ Goes("clean", up)
          /\ UNCHANGED faults
       \/ /\ RestartService(bin)
          /\ MayFail(bin)
          /\ Goes("undoBin", up)
          /\ UNCHANGED faults
       \/ /\ RestartService(None)
          /\ Fault
          /\ Goes("undoBin", up)
    /\ UNCHANGED <<site, latest, installed, probed, outcome, apart, upgrades>>

\* The backups are removed and install-meta.json is written.
Clean ==
    /\ pc = "clean"
    /\ bakBin' = None
    /\ bakCli' = None
    /\ apart' = FALSE
    /\ Returns("complete")
    /\ UNCHANGED <<site, latest, bin, cli, running, probed, upgrades, faults>>

\* The rollback renames the agent's backup, then the CLI's.
UndoBinary ==
    /\ pc = "undoBin"
    /\ \/ /\ bin' = IF bakBin # None THEN bakBin ELSE bin
          /\ bakBin' = None
          /\ Goes("undoCli", up)
          /\ UNCHANGED <<apart, faults>>
       \/ /\ bakBin # None
          /\ Fault
          /\ Goes("undoCli", [up EXCEPT !.restored = FALSE])
          /\ apart' = TRUE
          /\ UNCHANGED <<bin, bakBin>>
    /\ UNCHANGED <<site, latest, cli, bakCli, running, probed, outcome, upgrades>>

\* Mutant: the CLI's backup is not renamed back.
UndoCLIKept ==
    /\ pc = "undoCli"
    /\ Goes("again", up)
    /\ UNCHANGED <<site, latest, installed, running, probed, outcome, apart, upgrades, faults>>

UndoCLI ==
    /\ pc = "undoCli"
    /\ \/ /\ cli' = IF bakCli # None THEN bakCli ELSE cli
          /\ bakCli' = None
          /\ Goes("again", up)
          /\ UNCHANGED <<apart, faults>>
       \/ /\ bakCli # None
          /\ Fault
          /\ Goes("again", [up EXCEPT !.restored = FALSE])
          /\ apart' = TRUE
          /\ UNCHANGED <<cli, bakCli>>
    /\ UNCHANGED <<site, latest, bin, bakBin, running, probed, outcome, upgrades>>

\* The restart after the rollback, and what the command reports.
RestartAgain ==
    /\ pc = "again"
    /\ \/ /\ RestartService(bin)
          /\ MayPass(bin)
          /\ Returns(IF up.restored THEN "rolledBack" ELSE "partial")
          /\ UNCHANGED faults
       \/ /\ RestartService(bin)
          /\ MayFail(bin)
          /\ Returns("unhealthy")
          /\ UNCHANGED faults
       \/ /\ RestartService(None)
          /\ Fault
          /\ Returns("bothFailed")
    /\ UNCHANGED <<site, latest, installed, probed, apart, upgrades>>

\* runUninstall: the service stops and the files go; the backups stay. What
\* fails is a warning and the command goes on.
Uninstall ==
    /\ pc = "idle"
    /\ cli # None
    /\ upgrades < MaxUpgrades
    /\ upgrades' = upgrades + 1
    /\ \/ bin' = None /\ cli' = None /\ running' = None /\ UNCHANGED <<faults, apart>>
       \/ /\ Fault
          /\ bin' \in {None, bin} /\ cli' \in {None, cli} /\ running' \in {None, running}
          /\ apart' = (apart \/ bin' # cli')
    /\ outcome' = "uninstalled"
    /\ UNCHANGED <<site, latest, bakBin, bakCli, probed, pc, up>>

\* The installer puts a pair in place again (external).
Install(r) ==
    /\ pc = "idle"
    /\ None \in {bin, cli}
    /\ bin' = r
    /\ cli' = r
    /\ running' = r
    /\ apart' = FALSE
    /\ outcome' = "none"
    /\ UNCHANGED <<site, latest, bakBin, bakCli, probed, pc, up, upgrades, faults>>

\* The command is killed, or the machine goes down and comes up again with the
\* installed agent; a backup being written is cut short.
Crash ==
    /\ pc # "idle"
    /\ Fault
    /\ Returns("none")
    /\ running' \in {running, bin}
    /\ apart' = (apart \/ bin # cli)
    /\ \/ UNCHANGED <<bakBin, bakCli>>
       \/ pc = "backup" /\ bin # None /\ bakBin' = Damaged /\ UNCHANGED bakCli
       \/ pc = "backup" /\ bakBin' = (IF bin # None THEN bin ELSE bakBin) /\ bakCli' = Damaged
    /\ UNCHANGED <<site, latest, bin, cli, probed, upgrades>>

Next ==
    \/ \E v \in Versions : Publish(v)
    \/ \E tag \in Versions \cup {"latest"} : Upgrade(tag)
    \/ FetchMetadata("binMeta", "binFile")
    \/ Fetch("binFile", "cliMeta", "bin")
    \/ FetchMetadata("cliMeta", "cliFile")
    \/ Fetch("cliFile", "backup", "cli")
    \/ Backup
    \/ ReplaceBinary
    \/ ReplaceCLI
    \/ Restart
    \/ Clean
    \/ UndoBinary
    \/ UndoCLI
    \/ RestartAgain
    \/ Uninstall
    \/ \E r \in Releases \ Broken : r[2] = 1 /\ Install(r)
    \/ Crash

Spec == Init /\ [][Next]_ctlUpgradeVars

-----------------------------------------------------------------------------

\* Type invariant of the installed files and of the command.
TypeOK ==
    /\ site \in [Versions -> 1..MaxBuild] /\ latest \in Versions
    /\ {bin, cli, bakBin, bakCli, running} \subseteq Files
    /\ up.to \in Files /\ up.bin \in Files /\ up.cli \in Files
    /\ apart \in BOOLEAN
    /\ faults \in 0..MaxFaults

\* The agent and the CLI installed by runUpgrade are one signed release, also
\* when the tag was published again between the downloads, a download was
\* damaged or an earlier command was cut short; only a command killed between
\* its two renames, a failed restoring rename or a removal that failed in
\* runUninstall leaves anything else behind, until an upgrade completes.
OneRelease ==
    pc = "idle" /\ ~apart => bin = cli /\ bin \in Releases \cup {None}

\* What runUpgrade reports is so: "Upgrade complete" means the resolved pair is
\* installed and that agent runs, and is healthy if a health port tells;
\* "rolled back successfully" means the files are the pair that was installed
\* before the command, whatever backups earlier commands left, and that agent
\* runs.
ReportTrue ==
    [][/\ outcome' = "complete" /\ pc # "idle" =>
             /\ <<bin', cli'>> = <<up.to, up.to>>
             /\ running' = bin' /\ (probed => bin' \notin Broken)
       /\ outcome' = "rolledBack" /\ pc # "idle" /\ up.was[1] # None =>
             <<bin', cli'>> = up.was /\ running' = bin']_ctlUpgradeVars
=============================================================================
