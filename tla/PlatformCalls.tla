---------------------------- MODULE PlatformCalls ----------------------------
(***************************************************************************)
(* The calls the services of a machine make to the panel over one shared   *)
(* encrypted session (internal/platformclient/client.go, requestV2).       *)
(*                                                                         *)
(* All callers use one Client.  A caller takes the current session, or     *)
(* opens one while it holds sessionMu, seals its request and waits for the *)
(* answer.  The panel may forget sessions at any time (it restarts, or     *)
(* they expire); a request of a forgotten session is answered with 412 and *)
(* repeated once with a fresh session.  Requests and answers may be lost   *)
(* or come too late.                                                       *)
(***************************************************************************)
EXTENDS Integers, FiniteSets

CONSTANTS
  Callers,      \* concurrent calls, each made once
  MaxForgets,   \* bound on how often the panel forgets its sessions
  MaxFaults     \* bound on lost answers and refused handshakes

VARIABLES
  session,      \* Client.session, 0 when there is none
  lock,         \* the caller that holds sessionMu across a handshake
  call,         \* where each call stands
  flying,       \* requests the panel has not handled yet
  alive,        \* the sessions the panel knows
  made,         \* sessions the panel has created
  executed,     \* history: how often the panel executed each call
  installed,    \* history: sessions the client installed
  forgets,
  faults

callVars == <<session, lock, call, flying, alive, made, executed, installed, forgets, faults>>

Nobody == "nobody"
Ended == {"done", "failed", "rejected"}

Init ==
  /\ session = 0 /\ lock = Nobody
  /\ call = [r \in Callers |-> [pc |-> "idle", attempt |-> 0, session |-> 0, began |-> 0]]
  /\ flying = {} /\ alive = {} /\ made = 0
  /\ executed = [r \in Callers |-> 0] /\ installed = 0
  /\ forgets = 0 /\ faults = 0

At(r, pc) == call[r].pc = pc
Becomes(r, pc) == call' = [call EXCEPT ![r].pc = pc]

Begin(r) ==
  /\ At(r, "idle")
  /\ call' = [call EXCEPT ![r].pc = "ensure", ![r].began = forgets]
  /\ UNCHANGED <<session, lock, flying, alive, made, executed, installed, forgets, faults>>

\* ensureV2Session: the current session, or sessionMu is kept for a handshake.
Ensure(r) ==
  /\ At(r, "ensure") /\ lock = Nobody
  /\ IF session # 0
       THEN /\ call' = [call EXCEPT ![r].pc = "seal", ![r].session = session]
            /\ UNCHANGED lock
       ELSE Becomes(r, "handshake") /\ lock' = r
  /\ UNCHANGED <<session, flying, alive, made, executed, installed, forgets, faults>>

\* The panel answers the handshake with a session of its own.
PanelHandshake(r) ==
  /\ At(r, "handshake")
  /\ made' = made + 1
  /\ alive' = alive \cup {made + 1}
  /\ call' = [call EXCEPT ![r].pc = "complete", ![r].session = made + 1]
  /\ UNCHANGED <<session, lock, flying, executed, installed, forgets, faults>>

\* Complete and the end of ensureV2Session: the session becomes the client's.
Complete(r) ==
  /\ At(r, "complete")
  /\ session' = call[r].session
  /\ installed' = installed + 1
  /\ lock' = Nobody
  /\ Becomes(r, "seal")
  /\ UNCHANGED <<flying, alive, made, executed, forgets, faults>>

\* establishV2Session returns an error: refused, lost, or Complete rejects the
\* answer.  The mutex is released and the call ends.
HandshakeFails(r) ==
  /\ call[r].pc \in {"handshake", "complete"} /\ faults < MaxFaults
  /\ faults' = faults + 1
  /\ lock' = Nobody
  /\ Becomes(r, "failed")
  /\ UNCHANGED <<session, flying, alive, made, executed, installed, forgets>>

Request(r) == [caller |-> r, attempt |-> call[r].attempt, session |-> call[r].session]

\* Seal and Do: the request is on its way.
Send(r) ==
  /\ At(r, "seal")
  /\ flying' = flying \cup {Request(r)}
  /\ Becomes(r, "waiting")
  /\ UNCHANGED <<session, lock, alive, made, executed, installed, forgets, faults>>

\* The panel handles a request, whether or not somebody still waits for the
\* answer: one of a session it knows is executed, any other one gets 412.
PanelHandles(q) ==
  LET known == q.session \in alive
      waits == At(q.caller, "waiting") /\ q = Request(q.caller)
  IN
  /\ flying' = flying \ {q}
  /\ executed' = [executed EXCEPT ![q.caller] = IF known THEN @ + 1 ELSE @]
  /\ IF waits THEN Becomes(q.caller, IF known THEN "answer" ELSE "refused")
     ELSE UNCHANGED call
  /\ UNCHANGED <<session, lock, alive, made, installed, forgets, faults>>

\* Do or reading the body fails, or the time is up: the call ends with an
\* error and its request stays where it is.
Lose(r) ==
  /\ call[r].pc \in {"waiting", "answer", "refused"} /\ faults < MaxFaults
  /\ faults' = faults + 1
  /\ Becomes(r, "failed")
  /\ UNCHANGED <<session, lock, flying, alive, made, executed, installed, forgets>>

\* Open and the decoding of a sealed answer.
Answered(r) ==
  /\ At(r, "answer")
  /\ Becomes(r, "done")
  /\ UNCHANGED <<session, lock, flying, alive, made, executed, installed, forgets, faults>>

\* Mutant: whatever session there is, is dropped.
InvalidateAny(s) ==
  session' = 0

\* invalidateV2Session: only the session that was refused is dropped.
Invalidate(s) ==
  session' = IF session = s THEN 0 ELSE session

\* 412: the first time the session is dropped, under sessionMu, and the request
\* repeated; the second time the plain answer does not open.
Refused(r) ==
  /\ At(r, "refused")
  /\ IF call[r].attempt = 0
       THEN /\ lock = Nobody
            /\ Invalidate(call[r].session)
            /\ call' = [call EXCEPT ![r].pc = "ensure", ![r].attempt = 1]
       ELSE Becomes(r, "rejected") /\ UNCHANGED session
  /\ UNCHANGED <<lock, flying, alive, made, executed, installed, forgets, faults>>

\* The panel restarts, or its sessions expire.
Forget ==
  /\ forgets < MaxForgets
  /\ forgets' = forgets + 1
  /\ alive' = {}
  /\ UNCHANGED <<session, lock, call, flying, made, executed, installed, faults>>

Client(r) ==
  Begin(r) \/ Ensure(r) \/ Complete(r) \/ HandshakeFails(r) \/ Send(r) \/ Answered(r) \/ Refused(r)

Next ==
  \/ \E r \in Callers : Client(r) \/ PanelHandshake(r) \/ Lose(r)
  \/ \E q \in flying : PanelHandles(q)
  \/ Forget

Spec == Init /\ [][Next]_callVars

-----------------------------------------------------------------------------
(* Types; sessionMu is held exactly while its holder shakes hands. *)
TypeOK ==
  /\ session \in 0..made /\ alive \subseteq 1..made
  /\ \A r \in Callers : /\ call[r].attempt \in {0, 1}
                        /\ call[r].pc \in {"idle", "ensure", "handshake", "complete", "seal",
                                           "waiting", "answer", "refused"} \cup Ended
  /\ \A r \in Callers : (lock = r) <=> (call[r].pc \in {"handshake", "complete"})

(* The panel executes a call at most once: the repetition after 412 follows a  *)
(* refusal, never a lost answer, so a report that is not idempotent by its key *)
(* is not doubled by the client itself (requestV2).                            *)
ExecutedOnce == \A r \in Callers : executed[r] <= 1

(* A session the panel lost is replaced once, however many calls find out: a   *)
(* late 412 of the old session does not discard the new one                    *)
(* (invalidateV2Session).                                                      *)
ReplacedOnce == installed <= forgets + 1

(* A call ends with the panel's refusal only if the panel forgot its sessions  *)
(* again while the call was under way; losing them before, between or during   *)
(* other calls is repaired without an error (requestV2's second attempt).      *)
RejectedForCause ==
  \A r \in Callers : At(r, "rejected") => forgets > call[r].began

(* The three together: what the services may rely on when they call.           *)
CallsOnce == ExecutedOnce /\ ReplacedOnce /\ RejectedForCause
=============================================================================
