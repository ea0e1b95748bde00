------------------------ MODULE PlatformCallsProofs ------------------------
(***************************************************************************)
(* What the calls over the shared session promise, for every number of     *)
(* callers and however often the panel forgets its sessions.  The one      *)
(* assumption is that no caller has the name that stands for nobody.       *)
(***************************************************************************)
EXTENDS PlatformCalls, TLAPS

Phases == {"idle", "ensure", "handshake", "complete", "seal", "waiting", "answer",
           "refused", "done", "failed", "rejected"}

Shape ==
  /\ session \in Nat /\ made \in Nat /\ installed \in Nat /\ forgets \in Nat
  /\ call \in [Callers -> [pc : Phases, attempt : {0, 1}, session : Nat, began : Nat]]
  /\ flying \subseteq [caller : Callers, attempt : {0, 1}, session : Nat]
  /\ executed \in [Callers -> Nat]
  /\ alive \subseteq Nat \ {0} /\ \A s \in alive : s <= made
  /\ \A r \in Callers :
       /\ call[r].session <= made /\ call[r].began <= forgets
       /\ At(r, "idle") => call[r].attempt = 0

\* A request on its way has not been executed, its caller waits for it or has
\* given up, and it is the only one of its caller.
Flights ==
  /\ \A q \in flying :
       /\ executed[q.caller] = 0
       /\ call[q.caller].pc \in {"waiting", "failed"}
       /\ At(q.caller, "waiting") => q = Request(q.caller)
       /\ \A p \in flying : p.caller = q.caller => p = q
  /\ \A r \in Callers :
       /\ executed[r] \in {0, 1}
       /\ executed[r] = 1 => call[r].pc \in {"answer", "done", "failed"}

\* sessionMu: its holder alone shakes hands, and there is no session meanwhile.
Handshakes ==
  /\ \A r \in Callers : call[r].pc \in {"handshake", "complete"} => lock = r /\ session = 0
  /\ \A r \in Callers : At(r, "complete") => call[r].session = made
  /\ session # 0 => session = made

\* Each session the client installed, but the current one while it is alive,
\* was forgotten.
Paid ==
  /\ session \notin alive => installed <= forgets
  /\ installed <= forgets + 1
  /\ \A r \in Callers : At(r, "complete") /\ call[r].session \notin alive => installed < forgets

\* A session that was made after the one a call holds is alive, unless the
\* panel forgot its sessions since the call began.
Newer ==
  \A r \in Callers :
    /\ \/ forgets > call[r].began
       \/ call[r].pc \in {"idle", "done", "failed", "rejected"}
       \/ call[r].attempt = 0 /\ call[r].pc \in {"ensure", "handshake"}
       \/ \A t \in Nat : call[r].session < t /\ t <= made => t \in alive
    /\ call[r].attempt = 1 /\ call[r].pc \in {"ensure", "handshake"}
         => /\ session = 0 \/ session > call[r].session
            /\ \A x \in Callers : At(x, "complete") => call[x].session > call[r].session

\* A refused session is not alive; the second one a call takes is, unless the
\* panel forgot it since the call began.
Causes ==
  \A r \in Callers :
    /\ At(r, "refused") => call[r].session \notin alive
    /\ call[r].attempt = 1 /\ call[r].pc \in {"complete", "seal", "waiting", "refused"}
         => call[r].session \in alive \/ forgets > call[r].began
    /\ At(r, "rejected") => forgets > call[r].began

Inv == Shape /\ Flights /\ Handshakes /\ Paid /\ Newer /\ Causes
-----------------------------------------------------------------------------

\* Nobody has called yet and there are no sessions.
LEMMA InvInit == Init => Inv
BY DEF Init, Inv, Shape, Phases, Flights, Handshakes, Paid, Newer, Causes, At

\* Every step of a call and of the panel keeps the invariant.
LEMMA InvNext == Nobody \notin Callers /\ Inv /\ [Next]_callVars => Inv'
<1> SUFFICES ASSUME Nobody \notin Callers, Inv, [Next]_callVars PROVE Inv'
  OBVIOUS
<1> USE DEF Inv, At, Becomes
<1>1. ASSUME NEW r \in Callers, Begin(r) PROVE Inv'
  <2>1. Shape'
    <3>1. call' \in [Callers -> [pc : Phases, attempt : {0, 1}, session : Nat, began : Nat]]
      <4> DEFINE State == [pc : Phases, attempt : {0, 1}, session : Nat, began : Nat]
      <4>1. call \in [Callers -> State] /\ call[r] \in State /\ forgets \in Nat
        BY DEF Shape
      <4>2. [call[r] EXCEPT !.pc = "ensure", !.began = forgets] \in State
        BY <4>1 DEF Phases
      <4>3. call' = [call EXCEPT ![r] = [call[r] EXCEPT !.pc = "ensure", !.began = forgets]]
        BY <1>1, <4>1 DEF Begin
      <4> QED BY <4>1, <4>2, <4>3
    <3>2. ASSUME NEW s \in Callers
          PROVE  /\ call'[s].session <= made /\ call'[s].began <= forgets
                 /\ call'[s].pc = "idle" => call'[s].attempt = 0
      BY <1>1 DEF Begin, Shape, Phases
    <3> QED BY <1>1, <3>1, <3>2 DEF Begin, Shape
  <2>2. Flights'
    BY <1>1 DEF Begin, Request, Flights, Shape, Phases
  <2>3. Handshakes'
    BY <1>1 DEF Begin, Handshakes, Shape, Phases
  <2>4. Paid'
    BY <1>1 DEF Begin, Paid, Shape, Phases, Handshakes
  <2>5. Newer'
    BY <1>1 DEF Begin, Newer, Shape, Phases, Handshakes
  <2>6. Causes'
    BY <1>1 DEF Begin, Causes, Shape, Phases, Handshakes, Newer
  <2> QED BY <2>1, <2>2, <2>3, <2>4, <2>5, <2>6
<1>2. ASSUME NEW r \in Callers, Ensure(r) PROVE Inv'
  <2>1. Shape'
    BY <1>2 DEF Ensure, Shape, Phases
  <2>2. Flights'
    BY <1>2 DEF Ensure, Request, Flights, Shape, Phases
  <2>3. Handshakes'
    BY <1>2 DEF Ensure, Handshakes, Shape, Phases
  <2>4. Paid'
    BY <1>2 DEF Ensure, Paid, Shape, Phases, Handshakes
  <2>5. Newer'
    BY <1>2 DEF Ensure, Newer, Shape, Phases, Handshakes
  <2>6. Causes'
    BY <1>2 DEF Ensure, Causes, Shape, Phases, Handshakes, Newer
  <2> QED BY <2>1, <2>2, <2>3, <2>4, <2>5, <2>6
<1>3. ASSUME NEW r \in Callers, PanelHandshake(r) PROVE Inv'
  <2>1. Shape'
    BY <1>3 DEF PanelHandshake, Shape, Phases
  <2>2. Flights'
    BY <1>3 DEF PanelHandshake, Request, Flights, Shape, Phases
  <2>3. Handshakes'
    BY <1>3 DEF PanelHandshake, Handshakes, Shape, Phases
  <2>4. Paid'
    BY <1>3 DEF PanelHandshake, Paid, Shape, Phases, Handshakes
  <2>5. Newer'
    BY <1>3 DEF PanelHandshake, Newer, Shape, Phases, Handshakes
  <2>6. Causes'
    BY <1>3 DEF PanelHandshake, Causes, Shape, Phases, Handshakes, Newer
  <2> QED BY <2>1, <2>2, <2>3, <2>4, <2>5, <2>6
<1>4. ASSUME NEW r \in Callers, Complete(r) PROVE Inv'
  <2>1. Shape'
    BY <1>4 DEF Complete, Shape, Phases
  <2>2. Flights'
    BY <1>4 DEF Complete, Request, Flights, Shape, Phases
  <2>3. Handshakes'
    BY <1>4 DEF Complete, Handshakes, Shape, Phases
  <2>4. Paid'
    BY <1>4 DEF Complete, Paid, Shape, Phases, Handshakes
  <2>5. Newer'
    BY <1>4 DEF Complete, Newer, Shape, Phases, Handshakes
  <2>6. Causes'
    BY <1>4 DEF Complete, Causes, Shape, Phases, Handshakes, Newer
  <2> QED BY <2>1, <2>2, <2>3, <2>4, <2>5, <2>6
<1>5. ASSUME NEW r \in Callers, HandshakeFails(r) PROVE Inv'
  <2>1. Shape'
    BY <1>5 DEF HandshakeFails, Shape, Phases
  <2>2. Flights'
    BY <1>5 DEF HandshakeFails, Request, Flights, Shape, Phases
  <2>3. Handshakes'
    BY <1>5 DEF HandshakeFails, Handshakes, Shape, Phases
  <2>4. Paid'
    BY <1>5 DEF HandshakeFails, Paid, Shape, Phases, Handshakes
  <2>5. Newer'
    BY <1>5 DEF HandshakeFails, Newer, Shape, Phases, Handshakes
  <2>6. Causes'
    BY <1>5 DEF HandshakeFails, Causes, Shape, Phases, Handshakes, Newer
  <2> QED BY <2>1, <2>2, <2>3, <2>4, <2>5, <2>6
<1>6. ASSUME NEW r \in Callers, Send(r) PROVE Inv'
  <2>1. Shape'
    BY <1>6 DEF Send, Request, Shape, Phases
  <2>2. Flights'
    BY <1>6 DEF Send, Request, Flights, Shape, Phases
  <2>3. Handshakes'
    BY <1>6 DEF Send, Request, Handshakes, Shape, Phases
  <2>4. Paid'
    BY <1>6 DEF Send, Request, Paid, Shape, Phases, Handshakes
  <2>5. Newer'
    BY <1>6 DEF Send, Request, Newer, Shape, Phases, Handshakes
  <2>6. Causes'
    BY <1>6 DEF Send, Request, Causes, Shape, Phases, Handshakes, Newer
  <2> QED BY <2>1, <2>2, <2>3, <2>4, <2>5, <2>6
<1>7. ASSUME NEW q \in flying, PanelHandles(q) PROVE Inv'
  <2>1. Shape'
    BY <1>7 DEF PanelHandles, Request, Shape, Phases
  <2>2. Flights'
    BY <1>7 DEF PanelHandles, Request, Flights, Shape, Phases
  <2>3. Handshakes'
    BY <1>7 DEF PanelHandles, Request, Handshakes, Shape, Phases
  <2>4. Paid'
    BY <1>7 DEF PanelHandles, Request, Paid, Shape, Phases, Handshakes
  <2>5. Newer'
    <3>1. CASE UNCHANGED call
      BY <1>7, <3>1 DEF PanelHandles, Newer
    <3>2. ASSUME NEW pc \in {"answer", "refused"}, At(q.caller, "waiting"), Becomes(q.caller, pc)
          PROVE  Newer'
      <4>1. q.caller \in Callers
        BY DEF Shape
      <4>2. \A s \in Callers :
               /\ call'[s].session = call[s].session /\ call'[s].began = call[s].began
               /\ call'[s].attempt = call[s].attempt
               /\ call'[s].pc = IF s = q.caller THEN pc ELSE call[s].pc
        BY <3>2, <4>1 DEF Shape
      <4> QED BY <1>7, <3>2, <4>1, <4>2 DEF PanelHandles, Newer
    <3> QED BY <1>7, <3>1, <3>2 DEF PanelHandles
  <2>6. Causes'
    BY <1>7 DEF PanelHandles, Request, Causes, Shape, Phases, Handshakes, Newer
  <2> QED BY <2>1, <2>2, <2>3, <2>4, <2>5, <2>6
<1>8. ASSUME NEW r \in Callers, Lose(r) PROVE Inv'
  <2>1. Shape'
    BY <1>8 DEF Lose, Shape, Phases
  <2>2. Flights'
    BY <1>8 DEF Lose, Request, Flights, Shape, Phases
  <2>3. Handshakes'
    BY <1>8 DEF Lose, Handshakes, Shape, Phases
  <2>4. Paid'
    BY <1>8 DEF Lose, Paid, Shape, Phases, Handshakes
  <2>5. Newer'
    BY <1>8 DEF Lose, Newer, Shape, Phases, Handshakes
  <2>6. Causes'
    BY <1>8 DEF Lose, Causes, Shape, Phases, Handshakes, Newer
  <2> QED BY <2>1, <2>2, <2>3, <2>4, <2>5, <2>6
<1>9. ASSUME NEW r \in Callers, Answered(r) PROVE Inv'
  <2>1. Shape'
    BY <1>9 DEF Answered, Shape, Phases
  <2>2. Flights'
    BY <1>9 DEF Answered, Request, Flights, Shape, Phases
  <2>3. Handshakes'
    BY <1>9 DEF Answered, Handshakes, Shape, Phases
  <2>4. Paid'
    BY <1>9 DEF Answered, Paid, Shape, Phases, Handshakes
  <2>5. Newer'
    BY <1>9 DEF Answered, Newer, Shape, Phases, Handshakes
  <2>6. Causes'
    BY <1>9 DEF Answered, Causes, Shape, Phases, Handshakes, Newer
  <2> QED BY <2>1, <2>2, <2>3, <2>4, <2>5, <2>6
<1>10. ASSUME NEW r \in Callers, Refused(r) PROVE Inv'
  <2>1. Shape'
    BY <1>10 DEF Refused, Invalidate, Shape, Phases
  <2>2. Flights'
    BY <1>10 DEF Refused, Invalidate, Request, Flights, Shape, Phases
  <2>3. Handshakes'
    BY <1>10 DEF Refused, Invalidate, Handshakes, Shape, Phases
  <2>4. Paid'
    BY <1>10 DEF Refused, Invalidate, Paid, Shape, Phases, Handshakes
  <2>5. Newer'
    BY <1>10 DEF Refused, Invalidate, Newer, Shape, Phases, Handshakes
  <2>6. Causes'
    BY <1>10 DEF Refused, Invalidate, Causes, Shape, Phases, Handshakes, Newer
  <2> QED BY <2>1, <2>2, <2>3, <2>4, <2>5, <2>6
<1>11. CASE Forget
  <2>1. Shape'
    BY <1>11 DEF Forget, Shape, Phases
  <2>2. Flights'
    BY <1>11 DEF Forget, Request, Flights, Shape, Phases
  <2>3. Handshakes'
    BY <1>11 DEF Forget, Handshakes, Shape, Phases
  <2>4. Paid'
    BY <1>11 DEF Forget, Paid, Shape, Phases, Handshakes
  <2>5. Newer'
    BY <1>11 DEF Forget, Newer, Shape, Phases, Handshakes
  <2>6. Causes'
    BY <1>11 DEF Forget, Causes, Shape, Phases, Handshakes, Newer
  <2> QED BY <2>1, <2>2, <2>3, <2>4, <2>5, <2>6
<1>12. CASE UNCHANGED callVars
  BY <1>12 DEF callVars, Shape, Flights, Request, Handshakes, Paid, Newer, Causes
<1> QED
  BY <1>1, <1>2, <1>3, <1>4, <1>5, <1>6, <1>7, <1>8, <1>9, <1>10, <1>11, <1>12 DEF Next, Client

\* The invariant holds in every reachable state.
LEMMA InvAlways ==
    ASSUME Nobody \notin Callers
    PROVE  Spec => []Inv
<1>1. Inv /\ [Next]_callVars => Inv'
  BY InvNext
<1> QED BY <1>1, InvInit, PTL DEF Spec

\* requestV2: no call is executed twice, a lost session is replaced once, and a
\* call is refused only if the panel forgot its sessions while it was made.
THEOREM CallsAreMadeOnce ==
    ASSUME Nobody \notin Callers
    PROVE  Spec => []CallsOnce
<1>1. Inv => CallsOnce
  BY DEF Inv, CallsOnce, ExecutedOnce, ReplacedOnce, RejectedForCause, Flights, Paid, Causes
<1> QED BY <1>1, InvAlways, PTL
=============================================================================
