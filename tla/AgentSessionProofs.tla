------------------------- MODULE AgentSessionProofs -------------------------
(***************************************************************************)
(* For every window width and every number of envelopes: nothing is opened *)
(* twice, and nothing good is refused without need. The inductive          *)
(* invariant says what a bit of the window means.                          *)
(***************************************************************************)
EXTENDS AgentSession, TLAPS

\* Numbers beyond the maximum are unopened; within the window a bit is set
\* exactly for the opened numbers; nothing was opened more than once.
WindowExact ==
    \A s \in Seqs :
        /\ opens[s] \in {0, 1}
        /\ s > maxSeq => opens[s] = 0
        /\ s <= maxSeq /\ maxSeq - s < W => (maxSeq - s \in bitmap <=> opens[s] = 1)

Inv == TypeOK /\ WindowExact

\* replayWindow.accept lets a number pass only if it has not been opened.
LEMMA PassingIsUnopened ==
    ASSUME Inv, NEW s \in Seqs, Accepts(s)
    PROVE  opens[s] = 0
BY SessionAssumption DEF Inv, TypeOK, WindowExact, Accepts, Seqs

LEMMA TypeStep == ASSUME TypeOK, Next PROVE TypeOK'
<1> USE SessionAssumption DEF TypeOK, Seqs
<1>0. ASSUME NEW n \in Seqs, NEW a \in BOOLEAN
      PROVE  [seq |-> n, authentic |-> a] \in [seq : Seqs, authentic : BOOLEAN]
    OBVIOUS
<1>1. CASE Seal
  <2>1. sendSeq + 1 \in Seqs /\ sendSeq' \in 0 .. MaxSeq BY <1>1 DEF Seal
  <2>2. wire' \subseteq [seq : Seqs, authentic : BOOLEAN]
      BY ONLY <1>0, <1>1, <2>1, wire \subseteq [seq : Seqs, authentic : BOOLEAN], Zenon DEF Seal
  <2> QED BY <1>1, <2>1, <2>2 DEF Seal
<1>2. ASSUME NEW s \in Seqs, Damage(s) PROVE TypeOK'
  <2>1. wire' \subseteq [seq : Seqs, authentic : BOOLEAN]
      BY ONLY <1>0, <1>2, wire \subseteq [seq : Seqs, authentic : BOOLEAN], Zenon DEF Damage
  <2> QED BY <1>2, <2>1 DEF Damage
<1>3. ASSUME NEW e \in wire, Open(e) PROVE TypeOK'
  <2>1. e.seq \in 1 .. MaxSeq BY <1>3
  <2>2. maxSeq' \in 0 .. MaxSeq BY <1>3, <2>1 DEF Open, Slide
  <2>3. bitmap' \subseteq 0 .. W - 1
    <3>1. CASE e.seq > maxSeq BY <1>3, <2>1, <3>1 DEF Open, Slide, Shifted
    <3>2. CASE ~(e.seq > maxSeq)
      <4>1. maxSeq - e.seq < W BY <1>3, <3>2 DEF Open, Accepts
      <4>2. maxSeq - e.seq \in 0 .. W - 1 BY <2>1, <3>2, <4>1
      <4> QED BY <1>3, <3>2, <4>2 DEF Open, Slide
    <3> QED BY <3>1, <3>2
  <2>4. opens' \in [1 .. MaxSeq -> Nat] BY <1>3, <2>1 DEF Open
  <2> QED BY <1>3, <2>2, <2>3, <2>4 DEF Open
<1> QED BY <1>1, <1>2, <1>3 DEF Next

\* Opening an envelope keeps the meaning of the bits.
LEMMA OpenStep ==
    ASSUME Inv, NEW e \in wire, Open(e)
    PROVE  WindowExact'
<1> USE SessionAssumption
<1>1. PICK n \in Seqs : n = e.seq BY DEF Inv, TypeOK
<1>2. opens[n] = 0 BY <1>1, PassingIsUnopened DEF Open
<1>3. n \in Nat /\ maxSeq \in Nat /\ W \in Nat BY <1>1 DEF Inv, TypeOK, Seqs
<1>4. opens' = [opens EXCEPT ![n] = @ + 1] BY <1>1 DEF Open
<1>5. bitmap \subseteq 0 .. W - 1 /\ opens \in [Seqs -> Nat] BY DEF Inv, TypeOK
<1> SUFFICES ASSUME NEW s \in Seqs
             PROVE  /\ opens'[s] \in {0, 1}
                    /\ s > maxSeq' => opens'[s] = 0
                    /\ s <= maxSeq' /\ maxSeq' - s < W => (maxSeq' - s \in bitmap' <=> opens'[s] = 1)
    BY DEF WindowExact
<1>6. s \in Nat BY DEF Seqs
<1>7. /\ opens[s] \in {0, 1}
      /\ s > maxSeq => opens[s] = 0
      /\ s <= maxSeq /\ maxSeq - s < W => (maxSeq - s \in bitmap <=> opens[s] = 1)
    BY DEF Inv, WindowExact
<1>8. opens'[s] = IF s = n THEN 1 ELSE opens[s] BY <1>2, <1>4, <1>5
<1>9. CASE n > maxSeq
  <2>1. maxSeq' = n /\ bitmap' = Shifted(n) BY <1>1, <1>9 DEF Open, Slide
  <2>2. ASSUME s <= n, n - s < W, s # n
        PROVE  n - s \in Shifted(n) <=> opens[s] = 1
    <3>1. n - s \in 0 .. W - 1 /\ n - s # 0 BY <1>3, <1>6, <2>2
    <3>2. n - s \in Shifted(n) <=> \E b \in bitmap : n - s = b + (n - maxSeq)
        BY <3>1 DEF Shifted
    <3>3. CASE s <= maxSeq
      <4>1. maxSeq - s < W BY <1>3, <1>6, <1>9, <2>2, <3>3
      <4>2. \A b \in bitmap : b \in Nat BY <1>5
      <4>3. (\E b \in bitmap : n - s = b + (n - maxSeq)) <=> maxSeq - s \in bitmap
          BY <1>3, <1>6, <1>9, <3>3, <4>2
      <4> QED BY <1>7, <3>2, <3>3, <4>1, <4>3
    <3>4. CASE s > maxSeq
      <4>1. \A b \in bitmap : b \in Nat BY <1>5
      <4>2. \A b \in bitmap : n - s # b + (n - maxSeq) BY <1>3, <1>6, <3>4, <4>1
      <4> QED BY <1>7, <3>2, <3>4, <4>2
    <3> QED BY <1>3, <1>6, <3>3, <3>4
  <2>3. 0 \in Shifted(n) BY <1>3 DEF Shifted
  <2> QED BY <1>3, <1>6, <1>7, <1>8, <1>9, <2>1, <2>2, <2>3
<1>10. CASE ~(n > maxSeq)
  <2>1. maxSeq' = maxSeq /\ bitmap' = bitmap \cup {maxSeq - n} BY <1>1, <1>10 DEF Open, Slide
  <2>2. s # n /\ s <= maxSeq => maxSeq - s # maxSeq - n BY <1>3, <1>6, <1>10
  <2> QED BY <1>3, <1>6, <1>7, <1>8, <1>10, <2>1, <2>2
<1> QED BY <1>9, <1>10

LEMMA InvAlways == Spec => []Inv
<1>1. Init => Inv BY SessionAssumption DEF Init, Inv, TypeOK, WindowExact, Seqs
<1>2. ASSUME Inv, [Next]_vars PROVE Inv'
  <2>1. CASE UNCHANGED vars BY <1>2, <2>1 DEF Inv, TypeOK, WindowExact, vars
  <2>2. CASE Next
    <3>1. TypeOK' BY <1>2, <2>2, TypeStep DEF Inv
    <3>2. CASE Seal BY <1>2, <3>1, <3>2 DEF Seal, Inv, WindowExact
    <3>3. ASSUME NEW s \in Seqs, Damage(s) PROVE Inv' BY <1>2, <3>1, <3>3 DEF Damage, Inv, WindowExact
    <3>4. ASSUME NEW e \in wire, Open(e) PROVE Inv' BY <1>2, <3>1, <3>4, OpenStep DEF Inv
    <3> QED BY <2>2, <3>2, <3>3, <3>4 DEF Next
  <2> QED BY <1>2, <2>1, <2>2
<1> QED BY <1>1, <1>2, PTL DEF Spec

\* The type invariant of the session, for every width of the window.
THEOREM SessionTypes == Spec => []TypeOK
BY InvAlways, PTL DEF Inv

\* Open never opens an envelope twice, for every width of the window and every
\* order, repetition and damage of the envelopes.
THEOREM EnvelopesOpenOnce == Spec => []NoReplay
<1>1. Inv => NoReplay BY DEF Inv, WindowExact, NoReplay
<1> QED BY <1>1, InvAlways, PTL

\* Open refuses no genuine, unopened envelope that is less than W behind.
THEOREM GoodEnvelopesPass == Spec => []FreshPasses
<1>1. Inv => FreshPasses
  <2> SUFFICES ASSUME Inv, NEW e \in wire, opens[e.seq] = 0, maxSeq < e.seq + W
               PROVE  Accepts(e.seq)
      BY DEF FreshPasses
  <2>1. e.seq \in Seqs BY DEF Inv, TypeOK
  <2> QED BY <2>1, SessionAssumption DEF Inv, TypeOK, WindowExact, Accepts, Seqs
<1> QED BY <1>1, InvAlways, PTL
\* An authentic envelope on the wire was sealed.
SealedOnly == \A e \in wire : e.authentic => e.seq <= sendSeq

LEMMA SealedAlways == Spec => []SealedOnly
<1>1. Init => SealedOnly BY DEF Init, SealedOnly
<1>2. ASSUME TypeOK, SealedOnly, [Next]_vars PROVE SealedOnly'
  <2>1. CASE UNCHANGED vars BY <1>2, <2>1 DEF SealedOnly, vars
  <2>2. CASE Seal
    <3>1. \A e \in wire : e.seq \in Nat BY <1>2 DEF TypeOK, Seqs
    <3> QED BY <1>2, <2>2, <3>1 DEF Seal, SealedOnly, TypeOK
  <2>3. ASSUME NEW s \in Seqs, Damage(s) PROVE SealedOnly' BY <1>2, <2>3 DEF Damage, SealedOnly
  <2>4. ASSUME NEW e \in wire, Open(e) PROVE SealedOnly' BY <1>2, <2>4 DEF Open, SealedOnly
  <2> QED BY <1>2, <2>1, <2>2, <2>3, <2>4 DEF Next
<1> QED BY <1>1, <1>2, SessionTypes, PTL DEF Spec

\* The session implements the channel for every width of the window and every
\* number of envelopes: sealing is Channel!Seal, opening an envelope is
\* Channel!Deliver of its number, and damage is no step of the channel.
THEOREM SessionIsChannel == Spec => ImplementsChannel
<1>1. Init => Channel!Init BY DEF Init, Channel!Init
<1>2. ASSUME Inv, SealedOnly, [Next]_vars
      PROVE  [Channel!Next]_<<sendSeq, opens>>
  <2>1. CASE UNCHANGED vars BY <2>1 DEF vars
  <2>2. CASE Seal BY <2>2 DEF Seal, Channel!Next, Channel!Seal
  <2>3. ASSUME NEW s \in Seqs, Damage(s) PROVE UNCHANGED <<sendSeq, opens>> BY <2>3 DEF Damage
  <2>4. ASSUME NEW e \in wire, Open(e) PROVE Channel!Next
    <3>1. PICK n \in Seqs : n = e.seq BY <1>2 DEF Inv, TypeOK
    <3>2. opens[n] = 0 BY <1>2, <2>4, <3>1, PassingIsUnopened DEF Open
    <3>3. n <= sendSeq BY <1>2, <2>4, <3>1 DEF Open, SealedOnly
    <3>4. opens' = [opens EXCEPT ![n] = 1] BY <2>4, <3>1, <3>2 DEF Open
    <3>5. Channel!Deliver(n) BY <2>4, <3>2, <3>3, <3>4 DEF Open, Channel!Deliver
    <3> QED BY <3>5 DEF Channel!Next
  <2> QED BY <1>2, <2>1, <2>2, <2>3, <2>4 DEF Next
<1> QED BY <1>1, <1>2, InvAlways, SealedAlways, PTL DEF Spec, ImplementsChannel, Channel!Spec
=============================================================================
