----------------------------- MODULE MCKernels -----------------------------
(***************************************************************************)
(* Inside the two kernels.  Of xray: the connections its dispatcher counts *)
(* (XrayDispatcher) and the accounts of its instance (XrayUsers).  Of      *)
(* sing-box: the connections its tracker counts (SingboxConns), the speed  *)
(* limits and byte counts of their streams (SpeedLimits) and the reload of *)
(* a running instance (SingboxReload).  Beside them the certificate both   *)
(* kernels are given (Certificates).  They are checked side by side: a     *)
(* behaviour is one of the six; side says which, and the others keep one   *)
(* of their initial states.                                                *)
(***************************************************************************)
EXTENDS XrayDispatcher, Sequences

CONSTANTS
    Ids, Uuids, BadUuids, Configs, Unmanaged, None,               \* XrayUsers
    TrackedAddresses, MaxTracked, MaxTrackedLimit, MaxGens,       \* SingboxConns
    MaxTrackedUpdates,
    MaxFlows, MaxSpeed, MaxLists, MaxBytes,                       \* SpeedLimits
    MaxReloads, MaxFailures,                                      \* SingboxReload
    Domains, MaxIssued, MaxPolls, MaxCrashes                      \* Certificates

VARIABLES
    side,
    running, core, users, nodeConfig, hash, lastUsers, lastConfig, changed,
    gen, tracker, listening, limit, conn, trackedUpdates,
    speed, syncing, mapped, bucket, rate, dropped, flow, up, down, fromUser,
    toUser, lists,
    outs, dependBy, resolved, stale, rules, ins, applied, desired, pc, todo,
    mutated, outcome, reloads, failures, blamed, damaged,
    cfg, mat, acme, renewed, disk, store, issued, main, handler, pull, stable,
    served, certOutcome, late, lost, polls, crashes

userVars == <<running, core, users, nodeConfig, hash, lastUsers, lastConfig, changed>>
connVars == <<gen, tracker, listening, limit, conn, trackedUpdates>>
speedVars == <<speed, syncing, mapped, bucket, rate, dropped, flow, up, down,
               fromUser, toUser, lists>>
reloadVars == <<outs, dependBy, resolved, stale, rules, ins, applied, desired, pc,
                todo, mutated, outcome, reloads, failures, blamed, damaged>>
certVars == <<cfg, mat, acme, renewed, disk, store, issued, main, handler, pull,
              stable, served, certOutcome, late, lost, polls, crashes>>

MCAddresses == 1..3

\* Four runtimes: a chain through an upstream, the same with the upstream's
\* options changed, another chain with a group and more inbounds, and one whose
\* outbounds depend on each other in a circle.
Out(t, o, d) == [tag |-> t, opts |-> o, deps |-> d]

MCRuntimes == {
    [outs |-> <<Out("chain", 1, <<"up">>), Out("up", 1, <<>>)>>,
     rules |-> {"chain", "up"}, ins |-> [main |-> 1]],
    [outs |-> <<Out("chain", 1, <<"up">>), Out("up", 2, <<>>)>>,
     rules |-> {"chain"}, ins |-> [main |-> 1]],
    [outs |-> <<Out("alt", 1, <<>>), Out("group", 1, <<"chain", "alt">>),
                Out("chain", 1, <<"alt">>)>>,
     rules |-> {"group"}, ins |-> [main |-> 2, extra |-> 1, other |-> 1]],
    [outs |-> <<Out("alt", 2, <<"up">>), Out("up", 1, <<"alt">>)>>,
     rules |-> {"up"}, ins |-> [main |-> 1]] }

\* Certificate configurations: every mode, and the changes between them that
\* matter (another domain, another solver, content that does not fit).
Cert(m, d, c, s) == [mode |-> m, domain |-> d, content |-> c, solver |-> s]

MCCerts ==
    {Cert("self", "a", "empty", FALSE), Cert("content", "-", "good", FALSE),
     Cert("content", "-", "bad", FALSE), Cert("content", "-", "empty", FALSE),
     Cert("file", "-", "empty", FALSE), Cert("http", "a", "empty", FALSE),
     Cert("dns", "b", "empty", TRUE), Cert("dns", "b", "empty", FALSE),
     Cert("none", "-", "empty", FALSE)}

Users == INSTANCE XrayUsers

Conns == INSTANCE SingboxConns WITH
    Addresses <- TrackedAddresses, MaxConns <- MaxTracked, MaxLimit <- MaxTrackedLimit,
    MaxUpdates <- MaxTrackedUpdates, updates <- trackedUpdates

Speed == INSTANCE SpeedLimits WITH MaxConns <- MaxFlows, MaxUpdates <- MaxLists

Reload == INSTANCE SingboxReload WITH Runtimes <- MCRuntimes

Certs == INSTANCE Certificates WITH Configs <- MCCerts, outcome <- certOutcome

MCInit ==
    /\ side \in {"dispatcher", "users", "connections", "speed", "reload", "certificates"}
    /\ Init /\ Users!Init /\ Conns!Init /\ Speed!Init /\ Reload!Init /\ Certs!Init
    /\ side # "connections" => limit = 0
    /\ side # "speed" => speed = 0
    /\ side # "reload" => applied = CHOOSE r \in MCRuntimes : Len(r.outs) = 3

MCNext ==
    \/ side = "dispatcher" /\ Next
       /\ UNCHANGED <<side, userVars, connVars, speedVars, reloadVars, certVars>>
    \/ side = "users" /\ Users!Next
       /\ UNCHANGED <<side, vars, connVars, speedVars, reloadVars, certVars>>
    \/ side = "connections" /\ Conns!Next
       /\ UNCHANGED <<side, vars, userVars, speedVars, reloadVars, certVars>>
    \/ side = "speed" /\ Speed!Next
       /\ UNCHANGED <<side, vars, userVars, connVars, reloadVars, certVars>>
    \/ side = "reload" /\ Reload!Next
       /\ UNCHANGED <<side, vars, userVars, connVars, speedVars, certVars>>
    \/ side = "certificates" /\ Certs!Next
       /\ UNCHANGED <<side, vars, userVars, connVars, speedVars, reloadVars>>

MCSpec ==
    MCInit /\ [][MCNext]_<<side, vars, userVars, connVars, speedVars, reloadVars, certVars>>

\* The variables of all six have their types; and a reload leaves one runtime:
\* no rule ever names an outbound that is not there, and once it has ended the
\* managers hold exactly the runtime the kernel believes in.
ReloadLeavesOne ==
    CASE side = "dispatcher" -> TypeOK
      [] side = "users" -> Users!TypeOK
      [] side = "connections" -> Conns!TypeOK
      [] side = "speed" -> Speed!TypeOK
      [] side = "reload" -> Reload!TypeOK /\ Reload!RulesResolve /\ Reload!OneRuntime
      [] side = "certificates" -> Certs!TypeOK

\* A reload is refused only for a cause: a runtime that cannot work, or a call
\* that failed by itself.
RefusedForCause == side = "reload" => Reload!RefusedForCause


\* What the sing-box tracker counts of a user are the connections open.
CountsExact == side = "connections" => Conns!CountsExact

\* A device that is already online is not refused.
OnlineNotRejected == side = "connections" => Conns!OnlineNotRejected

\* The connections of a user share one speed limiter.
SharedLimiter == side = "speed" => Speed!SharedLimiter

\* Every byte a limited or unlimited stream moved is counted once.
BytesCounted == side = "speed" => Speed!BytesCounted

\* A chain uses its upstream as the running configuration has it.
ChainsCurrent == side = "reload" => Reload!ChainsCurrent

\* The certificate the manager holds can be used: certificate and key fit each
\* other, and a configured name is the one it was issued for.
MaterialUsable ==
    side = "certificates" => Certs!MaterialMatches /\ Certs!NameCovered

\* When everything is quiet the kernel serves the certificate the manager holds,
\* unless a renewal was announced to a poll that failed.
QuietServed == side = "certificates" => Certs!QuietServed
=============================================================================
