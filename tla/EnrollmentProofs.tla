-------------------------- MODULE EnrollmentProofs --------------------------
(***************************************************************************)
(* A registered machine keeps its identity, for every set of tokens and    *)
(* keys and every number of crashes, failed writes and lost answers.       *)
(***************************************************************************)
EXTENDS Enrollment, TLAPS

Configuration == [token : Token, ref : BOOLEAN, id : Token, pin : BOOLEAN]
Identity == [key : Keys \cup {None}, enrolled : BOOLEAN]
Credentials == [dir : Token, token : Token, ref : BOOLEAN]

Shape ==
    /\ source \in {"config", "env", "custom"} /\ multi \in BOOLEAN
    /\ source = "env" => ~multi
    /\ conf \in Configuration
    /\ source = "custom" => conf.token = None
    /\ env \in Token
    /\ ids \in [Token -> Identity]
    /\ mem \in Credentials
    /\ registered \in Keys \cup {None}

\* What is marked as enrolled has a key; with several instances none lives in
\* the common directory.
Directories ==
    /\ \A d \in Token : ids[d].enrolled => ids[d].key # None
    /\ multi => ~ids[None].enrolled

\* A running agent works in the directory it would find again.
Found ==
    pc # "down" =>
        /\ penv = env
        /\ mem.dir \in Token /\ mem.dir = Dir(conf, env)
        /\ ids[mem.dir].key # None
        /\ multi => mem.dir # None

\* The token is erased only once the identity can do without it.
Erasing ==
    /\ pc \in {"marked", "cleaned"} => ids[mem.dir].enrolled
    /\ pc = "cleaned" => conf.pin /\ (multi => conf.id # None)

\* A token the administrator has not handed out is nowhere on the machine.
HandedOut ==
    /\ {conf.token, env, mem.token, valid} \subseteq issued \cup {None}
    /\ pc = "enroll" => mem.token # None
    /\ ~supplied => /\ registered = None
                    /\ valid \in Tokens
                    /\ valid \notin {conf.token, env, mem.token}

Inv == Shape /\ Directories /\ Found /\ Erasing /\ HandedOut /\ IdentityKept

-----------------------------------------------------------------------------

\* The directory and the token in effect are among what was written down.
LEMMA EffectiveIs ==
    ASSUME NEW c \in Configuration, NEW e \in Token
    PROVE  Effective(c, e) \in {c.token, e} /\ Effective(c, e) \in Token
                                           /\ Dir(c, e) \in Token
<1>1. c.token \in Token /\ c.id \in Token
  BY DEF Configuration
<1>2. Effective(c, e) \in {c.token, e}
  BY DEF Effective
<1>3. None \in Token
  BY DEF Token
<1> QED BY <1>1, <1>2, <1>3 DEF Dir

\* The administrator's token is in effect once it is handed out.
LEMMA SuppliedIsEffective ==
    ASSUME NEW c \in Configuration, NEW e \in Token, NEW t \in Tokens, NEW pin \in BOOLEAN,
           source \in {"config", "env", "custom"}, source = "custom" => c.token = None
    PROVE  /\ Supplied(c, t, pin) \in Configuration /\ SuppliedEnv(e, t) \in Token
           /\ Supplied(c, t, pin).token \in {c.token, t, None}
           /\ SuppliedEnv(e, t) \in {e, t}
           /\ source = "custom" => Supplied(c, t, pin).token = None
           /\ Effective(Supplied(c, t, pin), SuppliedEnv(e, t)) = t
<1>1. t # None /\ t \in Token /\ None \in Token
  BY EnrollmentAssumption DEF Token
<1>2. CASE source = "env"
  BY <1>1, <1>2 DEF Supplied, SuppliedEnv, Effective, Configuration
<1>3. CASE source = "config"
  BY <1>1, <1>3 DEF Supplied, SuppliedEnv, Effective, Configuration
<1>4. CASE source = "custom"
  BY <1>1, <1>4 DEF Supplied, SuppliedEnv, Effective, Configuration
<1> QED BY <1>2, <1>3, <1>4

LEMMA InvInit ==
    ASSUME Init
    PROVE  Inv
<1> DEFINE c0(pin) == [token |-> None, ref |-> FALSE, id |-> None, pin |-> pin]
<1>1. None \in Token /\ None \notin Tokens
  BY EnrollmentAssumption DEF Token
<1>2. PICK pin \in BOOLEAN : conf = Supplied(c0(pin), valid, pin)
  BY DEF Init
<1>3. c0(pin) \in Configuration /\ c0(pin).token = None
  BY <1>1 DEF Configuration
<1>4. /\ source \in {"config", "env", "custom"} /\ valid \in Tokens
      /\ env = SuppliedEnv(None, valid)
  BY EnrollmentAssumption DEF Init
<1> HIDE DEF c0
<1>5. /\ conf \in Configuration /\ env \in Token
      /\ conf.token \in {valid, None} /\ env \in {valid, None}
      /\ source = "custom" => conf.token = None
      /\ Effective(conf, env) = valid
  BY <1>1, <1>2, <1>3, <1>4, SuppliedIsEffective
<1>6. NoIdentity \in Identity /\ ~NoIdentity.enrolled
  <2>1. ~NoIdentity.enrolled
    BY DEF NoIdentity
  <2> QED BY <2>1 DEF NoIdentity, Identity
<1>7. ids \in [Token -> Identity] /\ \A d \in Token : ~ids[d].enrolled
  BY <1>6 DEF Init
<1>8. Shape
  <2>1. multi \in BOOLEAN /\ (source = "env" => ~multi)
    BY DEF Init
  <2>2. mem \in Credentials
    BY <1>1 DEF Init, Credentials
  <2> QED BY <1>4, <1>5, <1>7, <2>1, <2>2 DEF Init, Shape
<1>9. Directories
  BY <1>1, <1>7 DEF Directories
<1>10. Found /\ Erasing
  BY DEF Init, Found, Erasing
<1>11. HandedOut
  <2>1. mem.token = None /\ issued = {valid} /\ supplied /\ pc = "down"
    BY DEF Init
  <2> QED BY <1>5, <2>1 DEF HandedOut
<1>12. IdentityKept
  BY <1>1, <1>4, <1>5 DEF Init, IdentityKept, Startable
<1> QED BY <1>8, <1>9, <1>10, <1>11, <1>12 DEF Inv

\* A step that only moves the agent on or stops it.
LEMMA MovingKeepsInv ==
    ASSUME Inv, UNCHANGED <<source, multi, conf, env, ids, penv, mem, panelVars>>,
           pc' # "down" => pc # "down",
           pc' \notin {"marked", "cleaned"},
           pc' = "enroll" => mem.token # None
    PROVE  Inv'
BY DEF Inv, Shape, Directories, Found, Erasing, HandedOut, IdentityKept, Startable,
       Dir, Effective, panelVars

\* Start and Reload: the identity in use is loaded again, and only a machine
\* without one generates it.
LEMMA LoadKeepsInv ==
    ASSUME Inv, NEW e, e = env, Load(e),
           UNCHANGED <<source, multi, conf, env, panelVars>>
    PROVE  Inv'
<1>1. PICK d : d = Dir(conf, env)
  OBVIOUS
<1>2. /\ d \in Token /\ conf \in Configuration /\ env \in Token
      /\ Effective(conf, env) \in {conf.token, env} /\ Effective(conf, env) \in Token
      /\ ids \in [Token -> Identity] /\ None \in Token
  BY <1>1, EffectiveIs DEF Inv, Shape, Token
<1>3. /\ mem' = [dir |-> d, token |-> Effective(conf, env), ref |-> conf.ref]
      /\ penv' = env /\ pc' = "idle" /\ Startable(conf, env)
      /\ \/ ids[d].key # None /\ ids' = ids
         \/ /\ ids[d].key = None
            /\ \E k \in FreshKeys : ids' = [ids EXCEPT ![d] = [key |-> k, enrolled |-> FALSE]]
  BY <1>1 DEF Load
<1>4. /\ \A c, x : Effective(c, x)' = Effective(c, x) /\ Dir(c, x)' = Dir(c, x)
      /\ Dir(conf, env)' = d /\ Effective(conf, env)' = Effective(conf, env)
  BY <1>1 DEF Effective, Dir
<1>5. multi => d # None
  BY <1>1, <1>3 DEF Inv, Directories, Startable, Dir
<1>6. /\ ids' \in [Token -> Identity] /\ ids'[d].key # None
      /\ \A x \in Token : ids'[x].enrolled <=> ids[x].enrolled
      /\ \A x \in Token : ids[x].key # None => ids'[x].key = ids[x].key
  <2>1. CASE ids[d].key # None /\ ids' = ids
    BY <1>2, <2>1
  <2>2. CASE ids[d].key = None /\ \E k \in FreshKeys : ids' = [ids EXCEPT ![d] = [key |-> k, enrolled |-> FALSE]]
    <3>1. PICK k \in Keys : ids' = [ids EXCEPT ![d] = [key |-> k, enrolled |-> FALSE]]
      BY <2>2 DEF FreshKeys
    <3> DEFINE i == [key |-> k, enrolled |-> FALSE]
    <3>2. k # None /\ i \in Identity /\ i.key = k /\ ~i.enrolled
      <4>1. ~i.enrolled
        OBVIOUS
      <4> QED BY <4>1, EnrollmentAssumption DEF Identity
    <3>3. ids' = [ids EXCEPT ![d] = i]
      BY <3>1
    <3> HIDE DEF i
    <3>4. ~ids[d].enrolled
      BY <1>2, <2>2 DEF Inv, Directories
    <3> QED BY <1>2, <2>2, <3>2, <3>3, <3>4
  <2> QED BY <1>3, <2>1, <2>2
<1>7. mem' \in Credentials /\ mem'.dir = d /\ mem'.token = Effective(conf, env)
  BY <1>2, <1>3 DEF Credentials, Configuration
<1>8. Shape'
  BY <1>2, <1>6, <1>7 DEF Inv, Shape, panelVars
<1>9. Directories'
  BY <1>2, <1>6 DEF Inv, Directories
<1>10. Found'
  BY <1>2, <1>3, <1>4, <1>5, <1>6, <1>7 DEF Found
<1>11. Erasing'
  BY <1>3 DEF Erasing
<1>12. HandedOut'
  BY <1>2, <1>3, <1>7 DEF Inv, HandedOut, panelVars
<1>13. IdentityKept'
  <2>1. Startable(conf, env)'
    BY <1>1, <1>2, <1>3, <1>4, <1>6 DEF Startable
  <2>2. registered # None => ids'[d].key = registered
    BY <1>1, <1>2, <1>6 DEF Inv, IdentityKept
  <2> QED BY <1>4, <2>1, <2>2 DEF IdentityKept, panelVars
<1> QED BY <1>8, <1>9, <1>10, <1>11, <1>12, <1>13 DEF Inv

\* The panel registers the identity the agent would find again.
LEMMA PanelEnrollKeepsInv ==
    ASSUME Inv, PanelEnroll
    PROVE  Inv'
<1>1. /\ UNCHANGED <<source, multi, conf, env, ids, penv, mem, supplied, issued>>
      /\ pc = "enroll" /\ pc' \in {"accepted", "failed"}
  BY DEF PanelEnroll
<1>2. CASE mem.token # valid
  BY <1>1, <1>2, MovingKeepsInv DEF PanelEnroll, panelVars
<1>3. CASE mem.token = valid
  <2>1. registered' = ids[mem.dir].key /\ valid' = None
    BY <1>3 DEF PanelEnroll
  <2>2. supplied /\ mem.dir = Dir(conf, env) /\ mem.dir \in Token
    BY <1>1, <1>3 DEF Inv, HandedOut, Found
  <2>3. Dir(conf, env)' = Dir(conf, env) /\ Startable(conf, env)' = Startable(conf, env)
    BY <1>1 DEF Dir, Startable, Effective
  <2>4. Shape'
    BY <1>1, <2>1, <2>2 DEF Inv, Shape, Identity
  <2>5. Directories' /\ Found' /\ Erasing'
    BY <1>1, <2>3 DEF Inv, Directories, Found, Erasing
  <2>6. HandedOut'
    BY <1>1, <2>1, <2>2 DEF Inv, HandedOut
  <2>7. IdentityKept'
    BY <1>1, <2>1, <2>2, <2>3 DEF Inv, IdentityKept
  <2> QED BY <2>4, <2>5, <2>6, <2>7 DEF Inv
<1> QED BY <1>2, <1>3

\* markEnrolled: the identity file says so before the token is erased.
LEMMA MarkKeepsInv ==
    ASSUME Inv, Mark
    PROVE  Inv'
<1>1. PICK d : d = mem.dir
  OBVIOUS
<1>2. /\ d \in Token /\ d = Dir(conf, env) /\ ids[d].key # None
      /\ ids \in [Token -> Identity] /\ mem \in Credentials /\ None \in Token
      /\ multi => d # None
  BY <1>1 DEF Mark, Inv, Found, Shape, Token
<1> DEFINE i == [ids[d] EXCEPT !.enrolled = TRUE]
<1>3. i \in Identity /\ i.key = ids[d].key
  BY <1>2 DEF Identity
<1>4. i.enrolled
  BY <1>2 DEF Identity
<1>5. /\ ids' = [ids EXCEPT ![d] = i]
      /\ mem' = [mem EXCEPT !.token = None] /\ pc' = "marked"
      /\ UNCHANGED <<source, multi, conf, env, penv, panelVars>>
  BY <1>1, <1>2 DEF Mark
<1> HIDE DEF i
<1>6. mem' \in Credentials /\ mem'.dir = d /\ mem'.token = None
  BY <1>1, <1>2, <1>5 DEF Credentials
<1>7. /\ ids' \in [Token -> Identity] /\ ids'[d].enrolled
      /\ \A x \in Token : ids'[x].key = ids[x].key
      /\ \A x \in Token : ids[x].enrolled => ids'[x].enrolled
      /\ \A x \in Token \ {d} : ids'[x] = ids[x]
  BY <1>2, <1>3, <1>4, <1>5
<1>8. /\ Dir(conf, env)' = d /\ Effective(conf, env)' = Effective(conf, env)
  BY <1>2, <1>5 DEF Effective, Dir
<1>9. Shape'
  BY <1>5, <1>6, <1>7 DEF Inv, Shape, panelVars
<1>10. Directories'
  BY <1>2, <1>5, <1>7 DEF Inv, Directories
<1>11. Found' /\ Erasing'
  BY <1>2, <1>5, <1>6, <1>7, <1>8 DEF Inv, Found, Erasing, Mark
<1>12. HandedOut'
  BY <1>5, <1>6, EnrollmentAssumption DEF Inv, HandedOut, panelVars
<1>13. IdentityKept'
  BY <1>2, <1>5, <1>7, <1>8 DEF Inv, IdentityKept, Startable, panelVars
<1> QED BY <1>9, <1>10, <1>11, <1>12, <1>13 DEF Inv

\* ForgetEnrollmentToken, config.yml: the directory it names is the one in use.
LEMMA CleanConfigKeepsInv ==
    ASSUME Inv, CleanConfig
    PROVE  Inv'
<1>1. /\ mem.dir \in Token /\ mem.dir = Dir(conf, env) /\ ids[mem.dir].enrolled
      /\ multi => mem.dir # None
      /\ conf \in Configuration /\ env \in Token /\ None \in Token
  BY DEF CleanConfig, Inv, Found, Erasing, Shape, Token
<1>2. /\ pc = "marked" /\ conf' = Cleaned(conf) /\ pc' = "cleaned"
      /\ UNCHANGED <<source, multi, env, ids, penv, mem, panelVars>>
  BY DEF CleanConfig
<1>3. /\ Cleaned(conf) \in Configuration /\ Cleaned(conf).token = None
      /\ Cleaned(conf).id = IF multi THEN mem.dir ELSE None
  BY <1>1 DEF Cleaned, Configuration
<1>4. Cleaned(conf).pin
  BY DEF Cleaned
<1>5. Dir(conf, env)' = mem.dir
  BY <1>1, <1>2, <1>3 DEF Dir
<1>6. Shape'
  BY <1>2, <1>3 DEF Inv, Shape, panelVars
<1>7. Directories'
  BY <1>2 DEF Inv, Directories
<1>8. Found' /\ Erasing'
  BY <1>1, <1>2, <1>3, <1>4, <1>5 DEF Inv, Found, Erasing
<1>9. HandedOut'
  BY <1>2, <1>3, EnrollmentAssumption DEF Inv, HandedOut, panelVars
<1>10. IdentityKept'
  BY <1>1, <1>2, <1>4, <1>5 DEF Inv, IdentityKept, Startable, panelVars
<1> QED BY <1>6, <1>7, <1>8, <1>9, <1>10 DEF Inv

\* ForgetEnrollmentToken, agent.env and the process: the identity is enrolled
\* and config.yml names its directory, so the token is not needed any more.
LEMMA CleanEnvKeepsInv ==
    ASSUME Inv, CleanEnv
    PROVE  Inv'
<1>1. /\ mem.dir \in Token /\ mem.dir = Dir(conf, env) /\ ids[mem.dir].enrolled
      /\ penv = env /\ conf.pin /\ (multi => conf.id # None)
      /\ mem \in Credentials /\ env \in Token /\ None \in Token
  BY DEF CleanEnv, Inv, Found, Erasing, Shape, Token
<1>2. /\ penv' = env' /\ env' \in {env, None} /\ pc' = "connected"
      /\ mem' = [mem EXCEPT !.ref = FALSE]
      /\ UNCHANGED <<source, multi, conf, ids, panelVars>>
  BY <1>1 DEF CleanEnv
<1>3. mem' \in Credentials /\ mem'.dir = mem.dir /\ mem'.token = mem.token
  BY <1>1, <1>2 DEF Credentials
<1>4. Dir(conf, env)' = mem.dir
  BY <1>1, <1>2 DEF Dir
<1>5. Shape'
  BY <1>1, <1>2, <1>3 DEF Inv, Shape, panelVars
<1>6. Directories'
  BY <1>2 DEF Inv, Directories
<1>7. Found' /\ Erasing'
  BY <1>2, <1>3, <1>4 DEF Inv, Found, Erasing, CleanEnv
<1>8. HandedOut'
  BY <1>2, <1>3, EnrollmentAssumption DEF Inv, HandedOut, panelVars
<1>9. IdentityKept'
  BY <1>1, <1>2, <1>4 DEF Inv, IdentityKept, Startable, panelVars
<1> QED BY <1>5, <1>6, <1>7, <1>8, <1>9 DEF Inv

\* The administrator forgets the registration; the new token was never on the
\* machine.
LEMMA ResetKeepsInv ==
    ASSUME Inv, NEW t \in Tokens, ResetRegistration(t)
    PROVE  Inv'
<1>1. /\ registered' = None /\ valid' = t /\ issued' = issued \cup {t} /\ ~supplied'
      /\ t \notin issued /\ t # None
      /\ UNCHANGED <<source, multi, conf, env, ids, pc, penv, mem>>
  BY EnrollmentAssumption DEF ResetRegistration, agentVars
<1>2. Dir(conf, env)' = Dir(conf, env) /\ Startable(conf, env)' = Startable(conf, env)
  BY <1>1 DEF Dir, Startable, Effective
<1>3. Shape'
  BY <1>1 DEF Inv, Shape
<1>4. Directories' /\ Found' /\ Erasing'
  BY <1>1, <1>2 DEF Inv, Directories, Found, Erasing
<1>5. HandedOut'
  BY <1>1 DEF Inv, HandedOut
<1>6. IdentityKept'
  BY <1>1, <1>2 DEF Inv, IdentityKept
<1> QED BY <1>3, <1>4, <1>5, <1>6 DEF Inv

\* The administrator hands the token out: the agent can start with it.
LEMMA SupplyKeepsInv ==
    ASSUME Inv, SupplyToken
    PROVE  Inv'
<1>1. /\ registered = None /\ valid \in Tokens /\ valid # None
      /\ conf \in Configuration /\ env \in Token
      /\ source \in {"config", "env", "custom"} /\ (source = "custom" => conf.token = None)
  BY EnrollmentAssumption DEF SupplyToken, Inv, HandedOut, Shape
<1>2. PICK pin \in BOOLEAN : conf' = Supplied(conf, valid, pin)
  BY DEF SupplyToken
<1>3. /\ env' = SuppliedEnv(env, valid) /\ pc' = "down" /\ supplied'
      /\ UNCHANGED <<source, multi, ids, penv, mem, registered, valid, issued>>
  BY DEF SupplyToken
<1>4. /\ conf' \in Configuration /\ env' \in Token
      /\ conf'.token \in {conf.token, valid, None} /\ env' \in {env, valid}
      /\ source = "custom" => conf'.token = None
      /\ Effective(Supplied(conf, valid, pin), SuppliedEnv(env, valid)) = valid
  BY <1>1, <1>2, <1>3, SuppliedIsEffective
<1>5. Effective(conf, env)' = valid
  BY <1>2, <1>3, <1>4 DEF Effective
<1>6. Shape'
  BY <1>3, <1>4 DEF Inv, Shape
<1>7. Directories' /\ Found' /\ Erasing'
  BY <1>3 DEF Inv, Directories, Found, Erasing
<1>8. HandedOut'
  BY <1>3, <1>4 DEF Inv, HandedOut
<1>9. IdentityKept'
  BY <1>1, <1>3, <1>5 DEF IdentityKept, Startable
<1> QED BY <1>6, <1>7, <1>8, <1>9 DEF Inv

LEMMA InvNext ==
    ASSUME Inv, [Next]_vars
    PROVE  Inv'
<1> USE DEF agentVars
<1>1. CASE UNCHANGED vars
  BY <1>1 DEF vars, panelVars, Inv, Shape, Directories, Found, Erasing, HandedOut,
              IdentityKept, Startable, Dir, Effective
<1>2. CASE Start
  BY <1>2, LoadKeepsInv DEF Start
<1>3. CASE Reload
  <2>1. penv = env
    BY <1>3 DEF Reload, Running, Inv, Found
  <2> QED BY <1>3, <2>1, LoadKeepsInv DEF Reload
<1>4. CASE Connect
  BY <1>4, MovingKeepsInv DEF Connect
<1>5. CASE PanelConnect
  BY <1>5, MovingKeepsInv DEF PanelConnect
<1>6. CASE PanelEnroll
  BY <1>6, PanelEnrollKeepsInv
<1>7. CASE Refused
  BY <1>7, MovingKeepsInv DEF Refused
<1>8. CASE Failed
  BY <1>8, MovingKeepsInv DEF Failed
<1>9. CASE Mark
  BY <1>9, MarkKeepsInv
<1>10. CASE CleanConfig
  BY <1>10, CleanConfigKeepsInv
<1>11. CASE CleanEnv
  BY <1>11, CleanEnvKeepsInv
<1>12. CASE Fails
  BY <1>12, MovingKeepsInv DEF Fails
<1>13. CASE Crash
  BY <1>13, MovingKeepsInv DEF Crash
<1>14. CASE \E t \in Tokens : ResetRegistration(t)
  BY <1>14, ResetKeepsInv
<1>15. CASE SupplyToken
  BY <1>15, SupplyKeepsInv
<1> QED BY <1>1, <1>2, <1>3, <1>4, <1>5, <1>6, <1>7, <1>8, <1>9, <1>10, <1>11, <1>12,
           <1>13, <1>14, <1>15 DEF Next

-----------------------------------------------------------------------------

\* After any crash, failed write or lost answer in establishV2Session,
\* markEnrolled or ForgetEnrollmentToken the agent starts again, with the
\* identity the panel has registered.
THEOREM IdentityIsKept == Spec => []IdentityKept
<1>1. Init => Inv
  BY InvInit
<1>2. Inv /\ [Next]_vars => Inv'
  BY InvNext
<1>3. Inv => IdentityKept
  BY DEF Inv
<1> QED BY <1>1, <1>2, <1>3, PTL DEF Spec
=============================================================================
