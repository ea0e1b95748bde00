----------------------------- MODULE Enrollment -----------------------------
(***************************************************************************)
(* How an agent becomes known to the panel: it owns a private identity, a  *)
(* one-use registration token makes the panel accept it, and once it is    *)
(* accepted the token is erased from the configuration, from agent.env and *)
(* from the process. The agent may crash between any two of these writes,  *)
(* a write may fail, an answer may be lost, and an administrator may reset *)
(* the registration and supply a new token.                                *)
(*                                                                         *)
(* Source: internal/platformclient/v2_credentials.go and client.go         *)
(* (establishV2Session), internal/config/enrollment_cleanup.go, the loader *)
(* in internal/config/config.go, the watcher and cmd/corade/main.go.       *)
(*                                                                         *)
(* An identity directory is named by the token its instance ID was derived *)
(* from (AutoInstanceID). Every file is replaced by a rename.              *)
(***************************************************************************)
EXTENDS Naturals

CONSTANTS
    Tokens,     \* registration tokens, each good for one enrollment
    None,       \* no token, no key
    Sources,    \* how tokens are supplied: "config", "env" or "custom"
    Keys,       \* private identities the machine may generate
    MaxFaults   \* bound: crashes, failed writes and lost answers

ASSUME EnrollmentAssumption ==
    /\ None \notin Tokens /\ None \notin Keys
    /\ Sources \subseteq {"config", "env", "custom"}
    /\ MaxFaults \in Nat

VARIABLES
    source,     \* how this machine is given its tokens
    multi,      \* several instances: each has a directory of its own
    conf,       \* config.yml: token, token_env, id and the panel's key
    env,        \* the token in agent.env
    ids,        \* agent-v2-identity.json of each directory
    dirty,      \* config.yml changed since the agent read it
    pc,         \* what the agent is doing
    up,         \* the first handshake of this run succeeded
    penv,       \* the token in the environment of the process
    mem,        \* the loaded credentials: directory, token, token_env
    registered, \* the panel: the key it accepts for this machine
    valid,      \* the panel: the token it accepts
    supplied,   \* the administrator has handed out the valid token
    issued,     \* the tokens the panel has issued
    faults

agentVars == <<pc, up, penv, mem>>
panelVars == <<registered, valid, supplied, issued>>
vars == <<source, multi, conf, env, ids, dirty, agentVars, panelVars, faults>>

Token == Tokens \cup {None}
NoIdentity == [key |-> None, enrolled |-> FALSE]
Running == {"idle", "connected", "connect", "enroll", "accepted", "refused"}

\* How the administrator hands out token t: install.sh writes both files, with
\* or without the panel's key; an edit puts the token into config.yml or into a
\* variable that it names.
Supplied(c, t, pin) ==
    CASE source = "env" -> [token |-> None, ref |-> TRUE, id |-> None, pin |-> pin]
      [] source = "config" -> [c EXCEPT !.token = t]
      [] source = "custom" -> [c EXCEPT !.ref = TRUE]

SuppliedEnv(e, t) == IF source = "config" THEN e ELSE t

\* LoadRoot: the token in effect. CORADE_AGENT_TOKEN overrides the file, any
\* other variable is read only when the file names it.
Effective(c, e) ==
    CASE source = "env" /\ e # None -> e
      [] source = "custom" /\ c.token = None /\ c.ref -> e
      [] OTHER -> c.token

Dir(c, e) ==
    IF ~multi THEN None ELSE IF c.id # None THEN c.id ELSE Effective(c, e)

Init ==
    /\ source \in Sources
    /\ multi \in IF source = "env" THEN {FALSE} ELSE BOOLEAN
    /\ valid \in Tokens
    /\ \E pin \in BOOLEAN :
          conf = Supplied([token |-> None, ref |-> FALSE, id |-> None, pin |-> pin], valid, pin)
    /\ env = SuppliedEnv(None, valid)
    /\ ids = [d \in Token |-> NoIdentity]
    /\ dirty = FALSE
    /\ pc = "down"
    /\ up = FALSE
    /\ penv = None
    /\ mem = [dir |-> None, token |-> None, ref |-> FALSE]
    /\ registered = None
    /\ supplied = TRUE
    /\ issued = {valid}
    /\ faults = 0

\* validate and loadV2Credentials let the agent start: it has a token, or it
\* has the panel's key and an identity that was enrolled.
Startable(c, e) ==
    Effective(c, e) # None \/ (c.pin /\ ids[Dir(c, e)].enrolled)

FreshKeys == {k \in Keys : \A d \in Token : ids[d].key # k /\ registered # k}

\* LoadRoot, New and loadOrCreateIdentity, up to the first handshake.
Load(e) ==
    LET d == Dir(conf, e) IN
    /\ Startable(conf, e)
    /\ mem' = [dir |-> d, token |-> Effective(conf, e), ref |-> conf.ref]
    /\ \/ ids[d].key # None /\ UNCHANGED ids
       \/ /\ ids[d].key = None
          /\ \E k \in FreshKeys : ids' = [ids EXCEPT ![d] = [key |-> k, enrolled |-> FALSE]]
    /\ penv' = e
    /\ pc' = "idle"
    /\ up' = FALSE
    /\ dirty' = FALSE

\* The service manager starts the agent with agent.env as its environment.
Start ==
    /\ pc = "down"
    /\ Load(env)
    /\ UNCHANGED <<source, multi, conf, env, panelVars, faults>>

\* The watcher saw config.yml change: all services restart with the new one.
\* A cleanup that has begun is waited for, and a file that LoadRoot refuses
\* changes nothing.
Reload ==
    /\ dirty
    /\ pc \in Running
    /\ Load(penv)
    /\ UNCHANGED <<source, multi, conf, env, panelVars, faults>>

\* Mutant: an agent that has a token enrolls with it.
ConnectByToken ==
    /\ pc \in {"idle", "connected"}
    /\ pc' = IF mem.token # None THEN "enroll" ELSE "connect"
    /\ UNCHANGED <<source, multi, conf, env, ids, dirty, up, penv, mem, panelVars, faults>>

\* establishV2Session: the identity is tried first. A client without a session
\* does this, and so does the stream whenever it reconnects.
Connect ==
    /\ pc \in {"idle", "connected"}
    /\ pc' = "connect"
    /\ UNCHANGED <<source, multi, conf, env, ids, dirty, up, penv, mem, panelVars, faults>>

\* The panel answers a signed connection, or an enrollment with a token.
PanelConnect ==
    /\ pc = "connect"
    /\ pc' = IF ids[mem.dir].key = registered THEN "accepted" ELSE "refused"
    /\ UNCHANGED <<source, multi, conf, env, ids, dirty, up, penv, mem, panelVars, faults>>

PanelEnroll ==
    /\ pc = "enroll"
    /\ \/ /\ mem.token = valid
          /\ registered' = ids[mem.dir].key
          /\ valid' = None
          /\ pc' = "accepted"
       \/ /\ mem.token # valid
          /\ pc' = "failed"
          /\ UNCHANGED <<registered, valid>>
    /\ UNCHANGED <<source, multi, conf, env, ids, dirty, up, penv, mem, supplied, issued, faults>>

\* 401: with a token in memory, once more in enrollment mode.
Refused ==
    /\ pc = "refused"
    /\ pc' = IF mem.token # None THEN "enroll" ELSE "failed"
    /\ UNCHANGED <<source, multi, conf, env, ids, dirty, up, penv, mem, panelVars, faults>>

\* Any error: Run returns it from its first handshake and the process exits;
\* later the client keeps running and tries again.
Failed ==
    /\ pc = "failed"
    /\ pc' = IF up THEN "idle" ELSE "down"
    /\ UNCHANGED <<source, multi, conf, env, ids, dirty, up, penv, mem, panelVars, faults>>

\* markEnrolled: the identity file first, then the key in memory.
Mark ==
    /\ pc = "accepted"
    /\ ids' = [ids EXCEPT ![mem.dir].enrolled = TRUE]
    /\ mem' = [mem EXCEPT !.token = None]
    /\ pc' = "marked"
    /\ UNCHANGED <<source, multi, conf, env, dirty, up, penv, panelVars, faults>>

\* Mutant: the ID derived from the token is not kept.
CleanedMoving(c) == [c EXCEPT !.token = None, !.ref = FALSE, !.pin = TRUE]

\* cleanControlNode: no token, no token_env; the ID and the panel's key stay.
Cleaned(c) ==
    [token |-> None, ref |-> FALSE, id |-> IF multi THEN mem.dir ELSE None, pin |-> TRUE]

\* ForgetEnrollmentToken, config.yml: replaced only if its contents change.
CleanConfig ==
    /\ pc = "marked"
    /\ conf' = Cleaned(conf)
    /\ dirty' = (dirty \/ conf # Cleaned(conf))
    /\ pc' = "cleaned"
    /\ UNCHANGED <<source, multi, env, ids, up, penv, mem, panelVars, faults>>

\* Mutant: agent.env is left alone.
CleanEnvProcess ==
    /\ pc = "cleaned"
    /\ penv' = None
    /\ mem' = [mem EXCEPT !.ref = FALSE]
    /\ pc' = "connected"
    /\ up' = TRUE
    /\ UNCHANGED <<source, multi, conf, env, ids, dirty, panelVars, faults>>

\* ForgetEnrollmentToken, agent.env and the process: the variable that the
\* loaded configuration names, or else CORADE_AGENT_TOKEN.
CleanEnv ==
    LET named == source = "env" \/ mem.ref IN
    /\ pc = "cleaned"
    /\ env' = IF named THEN None ELSE env
    /\ penv' = IF named THEN None ELSE penv
    /\ mem' = [mem EXCEPT !.ref = FALSE]
    /\ pc' = "connected"
    /\ up' = TRUE
    /\ UNCHANGED <<source, multi, conf, ids, dirty, panelVars, faults>>

\* The request or its answer is lost, or one of the files cannot be written.
Fails ==
    /\ faults < MaxFaults
    /\ pc \in {"connect", "enroll", "accepted", "refused", "marked", "cleaned"}
    /\ pc' = "failed"
    /\ faults' = faults + 1
    /\ UNCHANGED <<source, multi, conf, env, ids, dirty, up, penv, mem, panelVars>>

\* A crash, a kill, a stop.
Crash ==
    /\ faults < MaxFaults
    /\ pc # "down"
    /\ pc' = "down"
    /\ faults' = faults + 1
    /\ UNCHANGED <<source, multi, conf, env, ids, dirty, up, penv, mem, panelVars>>

\* The administrator resets the registration: the panel forgets the key and
\* issues a token.
ResetRegistration(t) ==
    /\ registered # None
    /\ t \notin issued
    /\ registered' = None
    /\ valid' = t
    /\ issued' = issued \cup {t}
    /\ supplied' = FALSE
    /\ UNCHANGED <<source, multi, conf, env, ids, dirty, agentVars, faults>>

\* The administrator stops the agent and hands the token out.
SupplyToken ==
    /\ ~supplied
    /\ pc \in Running \cup {"down"}
    /\ pc' = "down"
    /\ \E pin \in BOOLEAN : conf' = Supplied(conf, valid, pin)
    /\ env' = SuppliedEnv(env, valid)
    /\ supplied' = TRUE
    /\ UNCHANGED <<source, multi, ids, dirty, up, penv, mem, registered, valid, issued, faults>>

Next ==
    \/ Start \/ Reload \/ Connect \/ PanelConnect \/ PanelEnroll \/ Refused
    \/ Failed \/ Mark \/ CleanConfig \/ CleanEnv \/ Fails \/ Crash
    \/ \E t \in Tokens : ResetRegistration(t)
    \/ SupplyToken

Spec == Init /\ [][Next]_vars

\* The agent takes its steps and is restarted when it exits, the watcher fires,
\* the panel answers, and the administrator hands out the token.
Fairness ==
    /\ WF_vars(Start) /\ SF_vars(Reload) /\ WF_vars(Connect)
    /\ WF_vars(PanelConnect) /\ WF_vars(PanelEnroll) /\ WF_vars(Refused)
    /\ WF_vars(Failed) /\ WF_vars(Mark) /\ WF_vars(CleanConfig) /\ WF_vars(CleanEnv)
    /\ SF_vars(SupplyToken)

FairSpec == Spec /\ Fairness

(***************************************************************************)
(* Properties                                                              *)
(***************************************************************************)

\* Every variable has its type; an agent that is marked as enrolled has
\* forgotten its token.
TypeOK ==
    /\ source \in Sources /\ multi \in BOOLEAN
    /\ conf \in [token : Token, ref : BOOLEAN, id : Token, pin : BOOLEAN]
    /\ env \in Token /\ penv \in Token
    /\ ids \in [Token -> [key : Keys \cup {None}, enrolled : BOOLEAN]]
    /\ dirty \in BOOLEAN /\ up \in BOOLEAN
    /\ pc \in Running \cup {"down", "failed", "marked", "cleaned"}
    /\ mem \in [dir : Token, token : Token, ref : BOOLEAN]
    /\ pc \in {"marked", "cleaned", "connected"} => mem.token = None
    /\ registered \in Keys \cup {None} /\ valid \in Token /\ supplied \in BOOLEAN
    /\ issued \subseteq Tokens
    /\ faults \in 0 .. MaxFaults

\* Whatever step a crash interrupts, the agent starts again, and the identity
\* it then loads is the one the panel has registered: a registered machine
\* never needs a new token ("A one-use registration credential must never be
\* needed for reconnects").
IdentityKept ==
    /\ Startable(conf, env)
    /\ registered # None => ids[Dir(conf, env)].key = registered

\* When a session is established, the registration token is gone from
\* config.yml, from agent.env and from the process, however many attempts and
\* crashes the cleanup took. (A variable of another name is out of reach once
\* config.yml no longer names it.)
SecretForgotten ==
    [][source # "custom" /\ pc # "connected" /\ pc' = "connected" =>
          conf'.token = None /\ env' = None /\ penv' = None]_vars

\* A machine the panel knows, or whose token was handed out, gets a session
\* again and again, whatever was lost before.
ConnectedAgain == []<>(pc = "connected")

\* Cleanup is repeated at every reconnect and does not restart the agent
\* forever: replaceEnrollmentFile leaves an unchanged config.yml alone.
RestartsEnd == <>[]~dirty
=============================================================================
