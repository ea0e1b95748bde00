------------------------ MODULE XrayDispatcherProofs ------------------------
(***************************************************************************)
(* The reference counts of LimitDispatcher are exact, for every set of     *)
(* addresses and all bounds.                                               *)
(***************************************************************************)
EXTENDS XrayDispatcher, TLAPS

Inv == TypeOK /\ RefCountsExact

\* A connection that is counted can be uncounted: delConn takes exactly one
\* from the two counters of its address and leaves the others alone.
LEMMA DelConnTakesOne ==
    ASSUME NEW a \in Addresses,
           limited \in [Addresses -> Nat], unlimited \in [Addresses -> Nat],
           limited[a] + unlimited[a] > 0,
           DelConn(a)
    PROVE  /\ limited' \in [Addresses -> Nat]
           /\ unlimited' \in [Addresses -> Nat]
           /\ \A b \in Addresses :
                 limited'[b] + unlimited'[b] =
                     IF b = a THEN limited[b] + unlimited[b] - 1
                              ELSE limited[b] + unlimited[b]
<1>1. CASE unlimited[a] > 0
  BY <1>1 DEF DelConn
<1>2. CASE ~(unlimited[a] > 0)
  BY <1>2 DEF DelConn
<1> QED
  BY <1>1, <1>2

\* No connection is counted at first.
LEMMA InvInit == Init => Inv
BY DispatcherAssumption DEF Init, Inv, TypeOK, RefCountsExact, Zero

\* Every handler keeps the counts exact.
LEMMA InvNext == Inv /\ [Next]_vars => Inv'
<1> SUFFICES ASSUME Inv, [Next]_vars PROVE Inv'
  OBVIOUS
<1> USE DispatcherAssumption DEF Inv
<1>1. ASSUME NEW n \in 0..MaxLimit, UpdateLimits(n) PROVE Inv'
  BY <1>1 DEF UpdateLimits, TypeOK, RefCountsExact
<1>2. ASSUME NEW a \in Addresses, Admit(a) PROVE Inv'
  <2>1. TypeOK'
    BY <1>2 DEF Admit, TypeOK
  <2>2. RefCountsExact'
    <3>1. CASE deviceLimit <= 0
      BY <1>2, <3>1 DEF Admit, TypeOK, RefCountsExact
    <3>2. CASE ~(deviceLimit <= 0)
      BY <1>2, <3>2 DEF Admit, TypeOK, RefCountsExact
    <3> QED BY <3>1, <3>2
  <2> QED BY <2>1, <2>2
<1>3. ASSUME NEW a \in Addresses, DispatchFails(a) PROVE Inv'
  <2>1. limited[a] + unlimited[a] > 0
    BY <1>3 DEF DispatchFails, TypeOK, RefCountsExact
  <2>2. /\ limited' \in [Addresses -> Nat]
        /\ unlimited' \in [Addresses -> Nat]
        /\ \A b \in Addresses :
              limited'[b] + unlimited'[b] =
                  IF b = a THEN limited[b] + unlimited[b] - 1
                           ELSE limited[b] + unlimited[b]
    BY <1>3, <2>1, DelConnTakesOne DEF DispatchFails, TypeOK
  <2>3. TypeOK'
    <3>1. admitted' \in [Addresses -> Nat]
      BY <1>3 DEF DispatchFails, TypeOK
    <3>2. limited' \in [Addresses -> Nat] /\ unlimited' \in [Addresses -> Nat]
      BY <2>2
    <3> QED BY <1>3, <3>1, <3>2 DEF DispatchFails, TypeOK
  <2>4. RefCountsExact'
    <3> SUFFICES ASSUME NEW b \in Addresses
                 PROVE  limited'[b] + unlimited'[b] = admitted'[b] + open'[b]
      BY DEF RefCountsExact
    <3>1. limited[b] + unlimited[b] = admitted[b] + open[b]
      BY DEF RefCountsExact
    <3>2. /\ admitted'[b] = IF b = a THEN admitted[b] - 1 ELSE admitted[b]
          /\ open'[b] = open[b]
          /\ admitted[b] \in Nat /\ open[b] \in Nat
          /\ limited[b] \in Nat /\ unlimited[b] \in Nat
      BY <1>3 DEF DispatchFails, TypeOK
    <3>3. limited'[b] + unlimited'[b] =
              IF b = a THEN limited[b] + unlimited[b] - 1
                       ELSE limited[b] + unlimited[b]
      BY <2>2
    <3>4. limited'[b] \in Nat /\ unlimited'[b] \in Nat
      BY <2>2
    <3> QED BY <3>1, <3>2, <3>3, <3>4
  <2> QED BY <2>3, <2>4
<1>4. ASSUME NEW a \in Addresses, TrackLink(a) PROVE Inv'
  BY <1>4 DEF TrackLink, TypeOK, RefCountsExact
<1>5. ASSUME NEW a \in Addresses, DispatchUDP(a) PROVE Inv'
  BY <1>5 DEF DispatchUDP, TypeOK, RefCountsExact
<1>6. ASSUME NEW a \in Addresses, Close(a) PROVE Inv'
  <2>1. limited[a] + unlimited[a] > 0
    BY <1>6 DEF Close, TypeOK, RefCountsExact
  <2>2. /\ limited' \in [Addresses -> Nat]
        /\ unlimited' \in [Addresses -> Nat]
        /\ \A b \in Addresses :
              limited'[b] + unlimited'[b] =
                  IF b = a THEN limited[b] + unlimited[b] - 1
                           ELSE limited[b] + unlimited[b]
    BY <1>6, <2>1, DelConnTakesOne DEF Close, TypeOK
  <2>3. TypeOK'
    <3>1. open' \in [Addresses -> Nat]
      BY <1>6 DEF Close, TypeOK
    <3>2. limited' \in [Addresses -> Nat] /\ unlimited' \in [Addresses -> Nat]
      BY <2>2
    <3> QED BY <1>6, <3>1, <3>2 DEF Close, TypeOK
  <2>4. RefCountsExact'
    <3> SUFFICES ASSUME NEW b \in Addresses
                 PROVE  limited'[b] + unlimited'[b] = admitted'[b] + open'[b]
      BY DEF RefCountsExact
    <3>1. limited[b] + unlimited[b] = admitted[b] + open[b]
      BY DEF RefCountsExact
    <3>2. /\ open'[b] = IF b = a THEN open[b] - 1 ELSE open[b]
          /\ admitted'[b] = admitted[b]
          /\ open[b] \in Nat /\ admitted[b] \in Nat
          /\ limited[b] \in Nat /\ unlimited[b] \in Nat
      BY <1>6 DEF Close, TypeOK
    <3>3. limited'[b] + unlimited'[b] =
              IF b = a THEN limited[b] + unlimited[b] - 1
                       ELSE limited[b] + unlimited[b]
      BY <2>2
    <3>4. limited'[b] \in Nat /\ unlimited'[b] \in Nat
      BY <2>2
    <3> QED BY <3>1, <3>2, <3>3, <3>4
  <2> QED BY <2>3, <2>4
<1>7. CASE CloseUDP
  BY <1>7 DEF CloseUDP, TypeOK, RefCountsExact
<1>8. CASE UNCHANGED vars
  BY <1>8 DEF vars, TypeOK, RefCountsExact
<1> QED
  BY <1>1, <1>2, <1>3, <1>4, <1>5, <1>6, <1>7, <1>8 DEF Next

\* Both facts hold in every reachable state.
LEMMA InvAlways == Spec => []Inv
BY InvInit, InvNext, PTL DEF Spec

\* checkDeviceLimit and delConn leave every counter a natural number.
THEOREM DispatcherTypes == Spec => []TypeOK
<1>1. Inv => TypeOK BY DEF Inv
<1> QED BY <1>1, InvAlways, PTL

\* The counters of an address are its TCP connections, whatever the limit was
\* when they were admitted and is when they close.
THEOREM CountsAreExact == Spec => []RefCountsExact
<1>1. Inv => RefCountsExact BY DEF Inv
<1> QED BY <1>1, InvAlways, PTL
=============================================================================
