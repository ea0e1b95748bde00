------------------------------- MODULE Certificates -------------------------------
(***************************************************************************)
(* The certificate manager of a node (internal/cert/cert.go) and the two   *)
(* places of the service that drive it: the poll that applies a pushed     *)
(* certificate configuration and the hand-over of a renewed certificate to *)
(* the kernel.                                                             *)
(*                                                                         *)
(* Three parties move concurrently: the service's main goroutine           *)
(* (`main'), certmagic's renewal goroutine (`handler') and the poll        *)
(* (`pull').  The process may die between any two of their writes; what is *)
(* left is `disk', the pair of files persistPEM renames one at a time, and *)
(* `store', certmagic's own storage.                                       *)
(*                                                                         *)
(* A certificate or a key is the issuance it belongs to: a number and the  *)
(* name it covers.  A pair fits when both halves are of one issuance.      *)
(***************************************************************************)
EXTENDS Integers

CONSTANTS
  Configs,      \* certificate configurations: [mode, domain, content, solver]
  Domains,      \* the names they configure
  MaxIssued,    \* bound on certificates generated or obtained
  MaxPolls,     \* bound on polls
  MaxCrashes    \* bound on restarts of the process

VARIABLES
  cfg,          \* Manager.cfg
  mat,          \* Manager.mat
  acme,         \* acmeStarted and acmeFingerprint, with the instance's number
  renewed,      \* Manager.renewed
  disk,         \* cert.pem and key.pem in cert_dir
  store,        \* certmagic's storage, by domain
  issued,       \* certificates issued so far
  main,         \* where Reconfigure stands
  handler,      \* where the OnEvent handler stands
  pull,         \* the poll in flight and whether it carries a renewal
  stable,       \* Service.cfg.Cert: the last configuration accepted
  served,       \* the pair the kernel was last (re)loaded with
  outcome,      \* how the last Reconfigure ended
  late,         \* history: a torn-down instance stored its renewal
  lost,         \* history: a poll that carried a renewal failed
  polls,
  crashes

manager == <<cfg, mat, acme, renewed>>
files == <<disk, store, issued>>
service == <<pull, stable, served, outcome, lost, polls>>
certVars == <<manager, files, service, main, handler, late, crashes>>

NoCert == [n |-> 0, domain |-> "-"]
NoPair == [cert |-> NoCert, key |-> NoCert]
Pair(id) == [cert |-> id, key |-> id]
Fits(pair) == pair.cert = pair.key /\ pair.cert # NoCert

NoConfig == [mode |-> "none", domain |-> "-", content |-> "empty", solver |-> FALSE]

\* The pairs that come from outside: pushed by the panel, or the two
\* generations of the operator's own files.
Panel == [n |-> -1, domain |-> "panel"]
OwnFile == {[n |-> -2, domain |-> "own"], [n |-> -3, domain |-> "own"]}
Issuances == {NoCert, Panel} \cup OwnFile \cup [n : 1..MaxIssued, domain : Domains]
Pairs == [cert : Issuances, key : Issuances]

IsACME(c) == c.mode \in {"http", "dns"}
Fingerprint(c) == <<c.mode, c.domain, c.solver>>

Off == [on |-> FALSE, fp |-> Fingerprint(NoConfig), instance |-> 0]
Idle == [pc |-> "idle", id |-> NoCert, rollback |-> FALSE, kernel |-> FALSE]
Quiet == [pc |-> "idle", id |-> NoCert, instance |-> 0]
NoPull == [active |-> FALSE, changed |-> FALSE]

Init ==
  /\ cfg = NoConfig /\ mat = NoPair /\ acme = Off /\ renewed = FALSE
  /\ disk = NoPair /\ store = [d \in Domains |-> NoCert] /\ issued = 0
  /\ main = Idle /\ handler = Quiet
  /\ pull = NoPull /\ stable = NoConfig /\ served = NoPair
  /\ outcome = "none" /\ lost = FALSE /\ polls = 0
  /\ late = FALSE /\ crashes = 0

-----------------------------------------------------------------------------
\* pullViaAPI: the renewal flag is consumed before the request is sent.
Poll ==
  /\ main.pc = "idle" /\ ~pull.active /\ polls < MaxPolls
  /\ pull' = [active |-> TRUE, changed |-> renewed]
  /\ renewed' = FALSE
  /\ polls' = polls + 1
  /\ UNCHANGED <<cfg, mat, acme, files, main, handler, stable, served, outcome,
                 late, lost, crashes>>

\* The poll fails, or its answer does not pass validateNodeRuntime: nothing is
\* applied and the flag the poll took goes with it.
PollFails ==
  /\ pull.active
  /\ pull' = NoPull
  /\ lost' = (lost \/ pull.changed)
  /\ UNCHANGED <<manager, files, main, handler, stable, served, outcome, polls,
                 late, crashes>>

\* Reconfigure up to Start: a running ACME instance is torn down when the new
\* configuration is not ACME or has another fingerprint.
TearsDown(c) ==
  acme.on /\ (~IsACME(c) \/ Fingerprint(c) # acme.fp)

Reconfigure(c) ==
  /\ IF TearsDown(c)
       THEN acme' = [acme EXCEPT !.on = FALSE] /\ mat' = NoPair
       ELSE UNCHANGED <<acme, mat>>
  /\ cfg' = c

\* Mutant: a renewal alone does not make the answer worth applying.
SameConfig(c) ==
  c = stable

\* Whether the poll drops the configuration it received as already known.
NothingNew(c) ==
  c = stable /\ ~pull.changed

\* applyPullResult: nothing to do when the configuration is the known one and
\* no renewal is carried; otherwise the certificate is reconfigured first.
PollAnswered(c) ==
  /\ pull.active /\ main.pc = "idle"
  /\ pull' = NoPull
  /\ IF NothingNew(c)
       THEN UNCHANGED <<main, cfg, mat, acme, outcome>>
       ELSE /\ Reconfigure(c)
            /\ main' = [Idle EXCEPT !.pc = "start"]
            /\ outcome' = "none"
  /\ UNCHANGED <<renewed, files, handler, stable, served, lost, polls, late, crashes>>

-----------------------------------------------------------------------------
(* Start, one action per mode.  It ends with a pair to store, with success or *)
(* with an error.                                                             *)
Goes(pc) == main' = [main EXCEPT !.pc = pc]
Stores(id) == main' = [main EXCEPT !.pc = "store", !.id = id]

Issue(d) == [n |-> issued + 1, domain |-> d]

StartNone ==
  /\ main.pc = "start" /\ cfg.mode = "none"
  /\ Goes("ok")
  /\ UNCHANGED <<manager, files, service, handler, late, crashes>>

\* startFile: the two files are read one after the other and must fit.
StartFile ==
  /\ main.pc = "start" /\ cfg.mode = "file"
  /\ \E c, k \in OwnFile :
       IF Fits([cert |-> c, key |-> k]) THEN Stores(c) ELSE Goes("failed")
  /\ UNCHANGED <<manager, files, service, handler, late, crashes>>

\* Mutant: the persisted files are taken as they are.
LoadPersistedUnchecked ==
  disk.cert # NoCert /\ disk.key # NoCert

\* loadPersistedPEM: only a pair that fits is taken from cert_dir.
LoadPersistedPEM ==
  Fits(disk)

\* startSelfSigned: persisted material is reused when it covers the name; it
\* is in memory already when it does not and another one is generated.
StartSelfSigned ==
  /\ main.pc = "start" /\ cfg.mode = "self"
  /\ mat' = IF LoadPersistedPEM THEN disk ELSE mat
  /\ IF LoadPersistedPEM /\ disk.cert.domain = cfg.domain
       THEN Goes("ok") /\ UNCHANGED issued
       ELSE /\ issued < MaxIssued
            /\ Stores(Issue(cfg.domain))
            /\ issued' = issued + 1
  /\ UNCHANGED <<cfg, acme, renewed, disk, store, service, handler, late, crashes>>

\* startContent: the pushed pair, or the persisted one when none is pushed.
StartContent ==
  /\ main.pc = "start" /\ cfg.mode = "content"
  /\ \/ cfg.content = "good" /\ Stores(Panel) /\ UNCHANGED mat
     \/ cfg.content = "bad" /\ Goes("failed") /\ UNCHANGED mat
     \/ /\ cfg.content = "empty"
        /\ mat' = IF LoadPersistedPEM THEN disk ELSE mat
        /\ Goes(IF LoadPersistedPEM THEN "ok" ELSE "failed")
  /\ UNCHANGED <<cfg, acme, renewed, files, service, handler, late, crashes>>

\* startACME before the request: an instance that survived Reconfigure is kept,
\* a DNS provider that cannot be built or a missing name is an error.
StartACME ==
  /\ main.pc = "start" /\ IsACME(cfg)
  /\ Goes(IF cfg.mode = "dns" /\ ~cfg.solver THEN "failed"
          ELSE IF acme.on THEN "ok"
          ELSE IF cfg.domain \notin Domains THEN "failed" ELSE "obtain")
  /\ UNCHANGED <<manager, files, service, handler, late, crashes>>

\* ObtainCertSync and loadPEMFromStorage: a stored certificate is used, a
\* missing one is requested and may be refused.
Obtain ==
  /\ main.pc = "obtain"
  /\ \/ /\ store[cfg.domain] # NoCert
        /\ Stores(store[cfg.domain])
        /\ UNCHANGED <<store, issued>>
     \/ /\ store[cfg.domain] = NoCert /\ issued < MaxIssued
        /\ store' = [store EXCEPT ![cfg.domain] = Issue(cfg.domain)]
        /\ issued' = issued + 1
        /\ Stores(Issue(cfg.domain))
     \/ /\ store[cfg.domain] = NoCert
        /\ Goes("failed")
        /\ UNCHANGED <<store, issued>>
  /\ UNCHANGED <<manager, disk, service, handler, late, crashes>>

\* The end of Start once the pair is stored: a new instance starts managing,
\* unless ManageAsync refuses.
Manages ==
  \/ ~IsACME(cfg) /\ Goes("ok") /\ UNCHANGED acme
  \/ /\ IsACME(cfg) /\ Goes("ok")
     /\ acme' = [on |-> TRUE, fp |-> Fingerprint(cfg), instance |-> acme.instance + 1]
  \/ IsACME(cfg) /\ Goes("failed") /\ UNCHANGED acme

\* storePEM on the main goroutine: memory first, then the two files; a write
\* that fails is only logged.
MainStore ==
  \/ /\ main.pc = "store"
     /\ mat' = Pair(main.id) /\ late' = FALSE /\ Goes("cert")
     /\ UNCHANGED <<disk, acme>>
  \/ /\ main.pc = "cert"
     /\ \E done \in BOOLEAN : disk' = IF done THEN [disk EXCEPT !.cert = main.id] ELSE disk
     /\ Goes("key")
     /\ UNCHANGED <<mat, acme, late>>
  \/ /\ main.pc = "key"
     /\ \E done \in BOOLEAN : disk' = IF done THEN [disk EXCEPT !.key = main.id] ELSE disk
     /\ Manages
     /\ UNCHANGED <<mat, late>>

StoreStep ==
  /\ MainStore
  /\ UNCHANGED <<cfg, renewed, store, issued, service, handler, crashes>>

-----------------------------------------------------------------------------
\* The rest of applyPullResult once the certificate is settled: the kernel is
\* reloaded with what TLSCert returns now, and a refusal undoes the certificate.
Applied ==
  /\ main.pc = "ok" /\ ~main.rollback
  /\ \/ /\ served' = mat /\ stable' = cfg /\ outcome' = "applied" /\ main' = Idle
        /\ UNCHANGED <<cfg, mat, acme>>
     \/ /\ Reconfigure(stable)
        /\ main' = [Idle EXCEPT !.pc = "start", !.rollback = TRUE, !.kernel = TRUE]
        /\ UNCHANGED <<served, stable, outcome>>
  /\ UNCHANGED <<renewed, files, pull, handler, late, lost, polls, crashes>>

\* A certificate error: the previous configuration is applied again.
Refused ==
  /\ main.pc = "failed" /\ ~main.rollback
  /\ Reconfigure(stable)
  /\ main' = [Idle EXCEPT !.pc = "start", !.rollback = TRUE]
  /\ UNCHANGED <<renewed, files, service, handler, late, crashes>>

\* The rollback's own error is ignored; after a kernel failure the last good
\* runtime is loaded with whatever certificate there is.
RolledBack ==
  /\ main.pc \in {"ok", "failed"} /\ main.rollback
  /\ served' = IF main.kernel THEN mat ELSE served
  /\ outcome' = IF main.pc = "ok" THEN "restored" ELSE "failed"
  /\ main' = Idle
  /\ UNCHANGED <<manager, files, pull, stable, handler, late, lost, polls, crashes>>

-----------------------------------------------------------------------------
\* certmagic renews the certificate of the running instance and calls OnEvent.
Renew ==
  /\ acme.on /\ handler.pc = "idle" /\ issued < MaxIssued
  /\ store' = [store EXCEPT ![acme.fp[2]] = Issue(acme.fp[2])]
  /\ issued' = issued + 1
  /\ handler' = [Quiet EXCEPT !.pc = "event", !.instance = acme.instance]
  /\ UNCHANGED <<manager, disk, service, main, late, crashes>>

\* loadPEMFromStorage in the handler: the name is the one configured by now.
RenewLoad ==
  /\ handler.pc = "event"
  /\ handler' = IF cfg.domain \in Domains /\ store[cfg.domain] # NoCert
                  THEN [handler EXCEPT !.pc = "store", !.id = store[cfg.domain]]
                  ELSE Quiet
  /\ UNCHANGED <<manager, files, service, main, late, crashes>>

\* storePEM in the handler.  Nothing waits for it: the instance may have been
\* torn down since.
RenewStore ==
  \/ /\ handler.pc = "store"
     /\ mat' = Pair(handler.id)
     /\ late' = (late \/ ~acme.on \/ acme.instance # handler.instance)
     /\ handler' = [handler EXCEPT !.pc = "cert"]
     /\ UNCHANGED disk
  \/ /\ handler.pc = "cert"
     /\ \E done \in BOOLEAN : disk' = IF done THEN [disk EXCEPT !.cert = handler.id] ELSE disk
     /\ handler' = [handler EXCEPT !.pc = "key"]
     /\ UNCHANGED <<mat, late>>
  \/ /\ handler.pc = "key"
     /\ \E done \in BOOLEAN : disk' = IF done THEN [disk EXCEPT !.key = handler.id] ELSE disk
     /\ handler' = [handler EXCEPT !.pc = "flag"]
     /\ UNCHANGED <<mat, late>>

RenewWrites ==
  /\ RenewStore
  /\ UNCHANGED <<cfg, acme, renewed, store, issued, service, main, crashes>>

\* The flag is raised last.
RenewFlag ==
  /\ handler.pc = "flag"
  /\ renewed' = TRUE
  /\ handler' = Quiet
  /\ UNCHANGED <<cfg, mat, acme, files, service, main, late, crashes>>

\* The process dies and starts again: only the files are left.
Crash ==
  /\ crashes < MaxCrashes
  /\ crashes' = crashes + 1
  /\ cfg' = NoConfig /\ mat' = NoPair /\ acme' = Off /\ renewed' = FALSE
  /\ main' = Idle /\ handler' = Quiet
  /\ pull' = NoPull /\ stable' = NoConfig /\ served' = NoPair
  /\ outcome' = "none" /\ late' = FALSE /\ lost' = FALSE
  /\ UNCHANGED <<files, polls>>

Next ==
  \/ Poll \/ PollFails \/ (\E c \in Configs : PollAnswered(c))
  \/ StartNone \/ StartFile \/ StartSelfSigned \/ StartContent \/ StartACME
  \/ Obtain \/ StoreStep
  \/ Applied \/ Refused \/ RolledBack
  \/ Renew \/ RenewLoad \/ RenewWrites \/ RenewFlag
  \/ Crash

Spec == Init /\ [][Next]_certVars

-----------------------------------------------------------------------------
(* Types of the manager's and the service's state. *)
TypeOK ==
  /\ cfg \in Configs \cup {NoConfig} /\ stable \in Configs \cup {NoConfig}
  /\ mat \in Pairs /\ served \in Pairs /\ disk \in Pairs
  /\ store \in [Domains -> Issuances]
  /\ renewed \in BOOLEAN /\ late \in BOOLEAN /\ lost \in BOOLEAN
  /\ pull \in [active : BOOLEAN, changed : BOOLEAN]
  /\ outcome \in {"none", "applied", "restored", "failed"}
  /\ main.pc \in {"idle", "start", "obtain", "store", "cert", "key", "ok", "failed"}
  /\ handler.pc \in {"idle", "event", "store", "cert", "key", "flag"}

(* What the manager holds and what the kernel was given is always one          *)
(* issuance's certificate with its own key, although cert.pem and key.pem are  *)
(* replaced one at a time, by two goroutines, and a crash may leave a mixture  *)
(* behind (storePEM, loadPersistedPEM).                                        *)
MaterialMatches ==
  \A pair \in {mat, served} : pair = NoPair \/ Fits(pair)

(* Once a configuration that names a domain is in force, the certificate in    *)
(* memory covers that domain: neither a persisted certificate of an earlier    *)
(* name, nor the running ACME instance of another name, is kept                *)
(* (Reconfigure, startSelfSigned).  The exception is the write of a renewal    *)
(* that was under way when its instance was torn down.                         *)
NameCovered ==
  (/\ main.pc = "idle" /\ outcome \in {"applied", "restored"}
   /\ cfg.mode \in {"self", "http", "dns"} /\ ~late)
    => mat.cert.domain = cfg.domain

(* When everything is quiet the kernel serves the certificate in memory: a     *)
(* renewal stored at any moment of a poll or of a reload is still announced to *)
(* the next poll (CertRenewed, applyPullResult).  The exception is a renewal   *)
(* announced to a poll that failed or was refused.                             *)
QuietServed ==
  (/\ main.pc = "idle" /\ handler.pc = "idle" /\ outcome = "applied"
   /\ ~renewed /\ ~pull.changed /\ ~lost)
    => served = mat
=============================================================================
