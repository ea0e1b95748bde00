------------------------- MODULE SpeedLimitsProofs -------------------------
(***************************************************************************)
(* The limiters of SpeedTracker are shared and the bytes of its            *)
(* connections counted once, for every number of connections, lists, speed *)
(* limits and bytes.                                                       *)
(***************************************************************************)
EXTENDS SpeedLimits, TLAPS

\* What the two properties need of the types: a limiter is named by the
\* connection that created it, and the counters are numbers.
Shape ==
    /\ flow \in [Flows -> [pc : {"new", "looked", "read", "open", "waiting",
                                 "sending", "closed"},
                           udp : BOOLEAN, speed : Int, lim : {NoLimiter} \cup Flows]]
    /\ bucket \in {NoLimiter} \cup Flows
    /\ dropped \subseteq Flows
    /\ up \in Int /\ down \in Int /\ fromUser \in Int /\ toUser \in Int

\* The list holds numbers.
Listed == speed \in Int

Inv == Shape /\ Listed /\ SharedLimiter /\ BytesCounted

\* A new tracker has no limiters and has counted nothing.
LEMMA InvInit == Init => Inv
BY DEF Init, Inv, Shape, Listed, SharedLimiter, BytesCounted, NoLimiter

\* The steps of the service: a limiter that leaves the table is dropped.
LEMMA ListKeepsInv ==
    ASSUME Inv, UpdateBuckets \/ \E n \in Absent..MaxSpeed : UpdateUsers(n)
    PROVE  Inv'
<1>1. ASSUME NEW n \in Absent..MaxSpeed, UpdateUsers(n) PROVE Inv'
  BY <1>1 DEF UpdateUsers, byteVars, Inv, Shape, Listed, SharedLimiter, BytesCounted
<1>2. CASE UpdateBuckets
  <2>1. CASE bucket # NoLimiter /\ speed > 0
    BY <1>2, <2>1 DEF UpdateBuckets, byteVars, Inv, Shape, Listed, SharedLimiter,
                      BytesCounted
  <2>2. CASE ~(bucket # NoLimiter /\ speed > 0)
    BY <1>2, <2>2 DEF UpdateBuckets, byteVars, Inv, Shape, Listed, SharedLimiter,
                      BytesCounted
  <2> QED BY <2>1, <2>2
<1> QED BY <1>1, <1>2

\* GetLimiter: a connection takes the limiter of the table, also when it was
\* about to store one of its own; it stores its own only into an empty place.
LEMMA GetLimiterKeepsInv ==
    ASSUME Inv, NEW c \in Flows,
           (\E udp \in BOOLEAN : Lookup(c, udp)) \/ ReadSpeed(c) \/ InstallLimiter(c)
    PROVE  Inv'
<1> USE DEF Inv, Listed, BytesCounted, byteVars, limitVars
<1>1. ASSUME NEW udp \in BOOLEAN, Lookup(c, udp) PROVE Inv'
  BY <1>1 DEF Lookup, Shape, SharedLimiter
<1>2. CASE ReadSpeed(c)
  BY <1>2 DEF ReadSpeed, Opened, Shape, SharedLimiter
<1>3. CASE InstallLimiter(c)
  <2>1. CASE bucket # NoLimiter
    BY <1>3, <2>1 DEF InstallLimiter, Install, Opened, Shape, SharedLimiter
  <2>2. CASE bucket = NoLimiter
    BY <1>3, <2>2 DEF InstallLimiter, Install, Opened, Shape, SharedLimiter
  <2> QED BY <2>1, <2>2
<1> QED BY <1>1, <1>2, <1>3

\* The transfers: whoever moves a byte counts it in the same step.
LEMMA TransfersKeepInv ==
    ASSUME Inv, NEW c \in Flows,
           \/ \E unwrapped \in BOOLEAN : Receive(c, unwrapped)
           \/ SendUnwrapped(c) \/ SendLimited(c) \/ Send(c) \/ Proceed(c) \/ Cancel(c)
    PROVE  Inv'
<1> USE DEF Inv, Listed, byteVars, limitVars, CountUp, CountDown, TokensOrWait
<1>1. ASSUME NEW unwrapped \in BOOLEAN, Receive(c, unwrapped) PROVE Inv'
  BY <1>1 DEF Receive, Shape, SharedLimiter, BytesCounted
<1>2. CASE SendUnwrapped(c)
  BY <1>2 DEF SendUnwrapped, Shape, SharedLimiter, BytesCounted
<1>3. CASE SendLimited(c)
  BY <1>3 DEF SendLimited, Shape, SharedLimiter, BytesCounted
<1>4. CASE Send(c)
  BY <1>4 DEF Send, Shape, SharedLimiter, BytesCounted
<1>5. CASE Proceed(c)
  BY <1>5 DEF Proceed, Shape, SharedLimiter, BytesCounted
<1>6. CASE Cancel(c)
  BY <1>6 DEF Cancel, Shape, SharedLimiter, BytesCounted
<1> QED BY <1>1, <1>2, <1>3, <1>4, <1>5, <1>6

\* Every step keeps the invariant.
LEMMA InvNext == Inv /\ [Next]_speedVars => Inv'
<1> SUFFICES ASSUME Inv, [Next]_speedVars PROVE Inv'
  OBVIOUS
<1>1. CASE Next
  BY <1>1, ListKeepsInv, GetLimiterKeepsInv, TransfersKeepInv DEF Next
<1>2. CASE UNCHANGED speedVars
  BY <1>2 DEF speedVars, limitVars, byteVars, Inv, Shape, Listed, SharedLimiter,
              BytesCounted
<1> QED BY <1>1, <1>2

\* The invariant holds in every reachable state.
LEMMA InvAlways == Spec => []Inv
BY InvInit, InvNext, PTL DEF Spec

\* GetLimiter never leaves a connection with a limiter beside the one of its
\* user, however many connections are routed while the list changes.
THEOREM LimitersAreShared == Spec => []SharedLimiter
<1>1. Inv => SharedLimiter BY DEF Inv
<1> QED BY <1>1, InvAlways, PTL

\* Read, Write and the count functions count every byte once.
THEOREM BytesAreCounted == Spec => []BytesCounted
<1>1. Inv => BytesCounted BY DEF Inv
<1> QED BY <1>1, InvAlways, PTL
=============================================================================
