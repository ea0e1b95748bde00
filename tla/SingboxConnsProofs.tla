------------------------- MODULE SingboxConnsProofs -------------------------
(***************************************************************************)
(* The counts of ConnTracker are exact and no device that is online is     *)
(* rejected, for every number of connections, addresses and instances.     *)
(***************************************************************************)
EXTENDS SingboxConns, FiniteSetTheorems, TLAPS

Phases == {"new", "routed", "limited", "local", "admitted", "open", "closed", "rejected"}

Tracker == [known : BOOLEAN, stats : BOOLEAN, ips : [Addresses -> Int],
            connCount : Int, global : SUBSET Addresses, fresh : BOOLEAN]

Connection == [pc : Phases, gen : Gens, addr : Addresses \cup {0}, us : BOOLEAN,
               limit : Int, local : SUBSET Addresses, held : SUBSET Conns]

Shape ==
    /\ gen \in Gens /\ listening \subseteq 1..gen
    /\ limit \in Int
    /\ tracker \in [Gens -> Tracker]
    /\ conn \in [Conns -> Connection]

\* A connection that has statistics has those of a tracker in use, which still
\* has them.
Attached ==
    \A c \in Conns :
        /\ conn[c].gen <= gen
        /\ conn[c].us => tracker[conn[c].gen].stats /\ conn[c].addr \in Addresses

\* The connections of an address that a tracker counts.
RegisteredAt(g, a) == {c \in Registered(g) : conn[c].addr = a}

\* What is remembered of a connection on its way through the gate is counted;
\* behind the lookup of its address there is nothing left to remember.
Remembered ==
    \A c \in Conns :
        /\ conn[c].pc \in {"routed", "limited"}
              => conn[c].held \subseteq RegisteredAt(conn[c].gen, conn[c].addr)
        /\ conn[c].pc \in {"local", "rejected"} => conn[c].held = {}

Inv == Shape /\ Attached /\ CountsExact /\ Remembered

-----------------------------------------------------------------------------

\* There are finitely many connections.
LEMMA RegisteredFinite ==
    ASSUME MaxConns \in Nat, NEW g, NEW a
    PROVE  IsFiniteSet(Registered(g)) /\ IsFiniteSet(RegisteredAt(g, a))
<1>1. IsFiniteSet(Conns)
  BY FS_Interval DEF Conns
<1>2. Registered(g) \in SUBSET Conns /\ RegisteredAt(g, a) \in SUBSET Conns
  BY DEF Registered, RegisteredAt
<1> QED BY <1>1, <1>2, FS_Subset

\* A step that moves only a connection that is not open, before and after,
\* leaves what is registered alone.
LEMMA MovesKeepRegistered ==
    ASSUME NEW c \in Conns, conn[c].pc # "open", conn'[c].pc # "open",
           \A d \in Conns \ {c} : conn'[d] = conn[d]
    PROVE  \A g, a : /\ Registered(g)' = Registered(g)
                     /\ RegisteredAt(g, a)' = RegisteredAt(g, a)
BY DEF Registered, RegisteredAt

\* Counters that do not change stay exact while what is registered does not.
LEMMA CountsKept ==
    ASSUME CountsExact,
           \A g, a : /\ Registered(g)' = Registered(g)
                     /\ RegisteredAt(g, a)' = RegisteredAt(g, a),
           \A g \in Gens : /\ tracker'[g].ips = tracker[g].ips
                           /\ tracker'[g].connCount = tracker[g].connCount
    PROVE  CountsExact'
<1> SUFFICES ASSUME NEW g \in Gens
             PROVE  /\ \A a \in Addresses : tracker'[g].ips[a] = Cardinality(RegisteredAt(g, a)')
                    /\ tracker'[g].connCount = Cardinality(Registered(g)')
  BY DEF CountsExact, RegisteredAt
<1>1. /\ \A a \in Addresses : tracker[g].ips[a] = Cardinality(RegisteredAt(g, a))
      /\ tracker[g].connCount = Cardinality(Registered(g))
  BY DEF CountsExact, RegisteredAt
<1> QED BY <1>1

\* What is left of a connection that is over.
LEMMA GoneIsOver ==
    ASSUME NEW pc \in Phases, 1 \in Gens
    PROVE  /\ Gone(pc) \in Connection
           /\ Gone(pc).pc = pc /\ Gone(pc).gen = 1 /\ Gone(pc).held = {}
           /\ ~Gone(pc).us
<1>1. NotArrived \in Connection
  BY DEF NotArrived, Connection, Phases
<1>2. Gone(pc) \in Connection
  BY <1>1 DEF Gone, Connection
<1>3. Gone(pc).pc = pc /\ Gone(pc).gen = 1 /\ Gone(pc).held = {}
  BY DEF Gone, NotArrived
<1>4. ~Gone(pc).us
  BY DEF Gone, NotArrived
<1> QED BY <1>2, <1>3, <1>4

\* Routing, up to the gate's decision: the connection and nothing else moves.
LEMMA RoutingKeepsInv ==
    ASSUME Inv, NEW c \in Conns,
           \/ \E g \in Gens, a \in Addresses : Routed(c, g, a)
           \/ ReadLimit(c) \/ ReadLocal(c) \/ Decide(c),
           MaxConns \in Nat, MaxGens \in Nat \ {0}
    PROVE  Inv'
<1>1. /\ conn \in [Conns -> Connection] /\ conn[c] \in Connection
      /\ gen \in Gens /\ gen \in Nat /\ 1 \in Gens
  BY DEF Inv, Shape, Gens
<1> DEFINE Quiet(k) == /\ conn' = [conn EXCEPT ![c] = k] /\ k \in Connection
                       /\ conn[c].pc # "open" /\ k.pc # "open"
                       /\ UNCHANGED <<gen, tracker, listening, limit>>
                       /\ k.gen <= gen
                       /\ k.us => tracker[k.gen].stats /\ k.addr \in Addresses
                       /\ k.pc \in {"routed", "limited"}
                             => k.held \subseteq RegisteredAt(k.gen, k.addr)
                       /\ k.pc \in {"local", "rejected"} => k.held = {}
<1>2. ASSUME NEW k, Quiet(k) PROVE Inv'
  <2>1. \A g, a : /\ Registered(g)' = Registered(g)
                  /\ RegisteredAt(g, a)' = RegisteredAt(g, a)
    <3>1. conn'[c].pc # "open" /\ \A d \in Conns \ {c} : conn'[d] = conn[d]
      BY <1>1, <1>2
    <3> QED BY <1>2, <3>1, MovesKeepRegistered
  <2>2. Shape'
    BY <1>1, <1>2 DEF Inv, Shape
  <2>3. Attached'
    BY <1>1, <1>2 DEF Inv, Attached
  <2>4. CountsExact'
    BY <1>2, <2>1, CountsKept DEF Inv
  <2>5. Remembered'
    BY <1>1, <1>2, <2>1 DEF Inv, Remembered
  <2> QED BY <2>2, <2>3, <2>4, <2>5 DEF Inv
<1>3. ASSUME NEW g \in Gens, NEW a \in Addresses, Routed(c, g, a) PROVE Inv'
  <2> DEFINE us == tracker[g].known /\ tracker[g].stats
             k == [pc |-> "routed", gen |-> g, addr |-> a, us |-> us, limit |-> 0,
                   local |-> {}, held |-> {d \in Registered(g) : conn[d].addr = a /\ us}]
  <2>1. k \in Connection
    BY DEF Connection, Phases, Registered
  <2>2. g <= gen /\ k.held \subseteq RegisteredAt(g, a)
    BY <1>1, <1>3 DEF Routed, Inv, Shape, Gens, RegisteredAt
  <2>3. conn' = [conn EXCEPT ![c] = k] /\ conn[c].pc # "open"
        /\ UNCHANGED <<gen, tracker, listening, limit>>
    BY <1>3 DEF Routed
  <2>4. k.pc = "routed" /\ k.gen = g /\ k.addr = a /\ (k.us => tracker[g].stats)
    OBVIOUS
  <2> HIDE DEF k
  <2> QED BY <1>2, <2>1, <2>2, <2>3, <2>4
<1> DEFINE Admitted == [conn[c] EXCEPT !.pc = "admitted", !.limit = 0, !.local = {}, !.held = {}]
<1>4. /\ Admitted \in Connection /\ Admitted.pc = "admitted"
      /\ Admitted.gen = conn[c].gen /\ Admitted.us = conn[c].us /\ Admitted.addr = conn[c].addr
  <2>1. Admitted \in Connection
    <3>1. /\ "admitted" \in Phases /\ 0 \in Int
          /\ {} \in SUBSET Addresses /\ {} \in SUBSET Conns
      BY DEF Phases
    <3> QED BY <1>1, <3>1, Zenon DEF Connection
  <2>2. Admitted.pc = "admitted" /\ Admitted.gen = conn[c].gen /\ Admitted.addr = conn[c].addr
    BY <1>1 DEF Connection
  <2>3. Admitted.us = conn[c].us
    BY <1>1 DEF Connection
  <2> QED BY <2>1, <2>2, <2>3
<1>5. Admit(c) => conn' = [conn EXCEPT ![c] = Admitted]
  BY <1>1 DEF Admit, Connection
<1>6. /\ conn[c].gen <= gen
      /\ conn[c].us => tracker[conn[c].gen].stats /\ conn[c].addr \in Addresses
  BY DEF Inv, Attached
<1> HIDE DEF Admitted
<1>7. ASSUME Admit(c), conn[c].pc # "open", UNCHANGED <<gen, tracker, listening, limit>>
      PROVE  Inv'
  BY <1>2, <1>4, <1>5, <1>6, <1>7
<1>8. CASE ReadLimit(c)
  <2> DEFINE k == [conn[c] EXCEPT !.limit = limit, !.pc = "limited"]
  <2>1. k \in Connection /\ k.pc = "limited" /\ k.gen = conn[c].gen /\ k.us = conn[c].us
        /\ k.addr = conn[c].addr /\ k.held = conn[c].held
    BY <1>1 DEF Connection, Phases, Inv, Shape
  <2>2. conn[c].held \subseteq RegisteredAt(conn[c].gen, conn[c].addr)
    BY <1>8 DEF ReadLimit, Inv, Remembered
  <2>3. CASE limit > 0 /\ conn[c].us
    <3>1. conn' = [conn EXCEPT ![c] = k]
      BY <1>1, <1>8, <2>3 DEF ReadLimit, Connection
    <3> HIDE DEF k
    <3> QED BY <1>2, <1>6, <1>8, <2>1, <2>2, <3>1 DEF ReadLimit
  <2>4. CASE ~(limit > 0 /\ conn[c].us)
    BY <1>7, <1>8, <2>4 DEF ReadLimit
  <2> QED BY <2>3, <2>4
<1>9. CASE ReadLocal(c)
  <2> DEFINE local == InUse(conn[c].gen)
             k == [conn[c] EXCEPT !.local = local, !.pc = "local"]
  <2>1. k \in Connection /\ k.pc = "local" /\ k.gen = conn[c].gen /\ k.us = conn[c].us
        /\ k.addr = conn[c].addr /\ k.held = conn[c].held
    BY <1>1 DEF Connection, Phases, InUse
  <2>2. CASE conn[c].addr \in local
    BY <1>7, <1>9, <2>2 DEF ReadLocal
  <2>3. CASE conn[c].addr \notin local
    <3>1. conn[c].held \subseteq RegisteredAt(conn[c].gen, conn[c].addr)
      BY <1>9 DEF ReadLocal, Inv, Remembered
    <3>2. RegisteredAt(conn[c].gen, conn[c].addr) = {}
      <4> SUFFICES ASSUME NEW d \in RegisteredAt(conn[c].gen, conn[c].addr) PROVE FALSE
        OBVIOUS
      <4>1. conn[c].addr \in Addresses /\ conn[c].gen \in Gens
        <5>1. d \in Conns /\ conn[d].us /\ conn[d].addr = conn[c].addr
          BY DEF RegisteredAt, Registered
        <5> QED BY <1>1, <5>1 DEF Inv, Attached, Connection
      <4>2. tracker[conn[c].gen].ips[conn[c].addr] \in Int
        BY <4>1 DEF Inv, Shape, Tracker
      <4>3. ~(tracker[conn[c].gen].ips[conn[c].addr] > 0)
        BY <2>3, <4>1 DEF InUse
      <4>4. tracker[conn[c].gen].ips[conn[c].addr] =
               Cardinality(RegisteredAt(conn[c].gen, conn[c].addr))
        BY <4>1 DEF Inv, CountsExact, RegisteredAt
      <4>5. /\ IsFiniteSet(RegisteredAt(conn[c].gen, conn[c].addr))
            /\ Cardinality(RegisteredAt(conn[c].gen, conn[c].addr)) \in Nat
        BY RegisteredFinite, FS_CardinalityType
      <4>6. Cardinality(RegisteredAt(conn[c].gen, conn[c].addr)) # 0
        BY <4>5, FS_EmptySet
      <4> QED BY <4>3, <4>4, <4>5, <4>6
    <3>3. conn' = [conn EXCEPT ![c] = k]
      BY <1>1, <1>9, <2>3 DEF ReadLocal, Connection
    <3> HIDE DEF k
    <3> QED BY <1>2, <1>6, <1>9, <2>1, <3>1, <3>2, <3>3 DEF ReadLocal
  <2> QED BY <2>2, <2>3
<1>10. CASE Decide(c)
  <2> DEFINE k == [Gone("rejected") EXCEPT !.held = conn[c].held]
  <2>1. conn[c].held = {}
    BY <1>10 DEF Decide, Inv, Remembered
  <2>2. k \in Connection /\ k.pc = "rejected" /\ k.gen = 1 /\ ~k.us /\ k.held = {}
    <3>1. Gone("rejected") \in Connection /\ Gone("rejected").pc = "rejected"
          /\ Gone("rejected").gen = 1 /\ ~Gone("rejected").us
      BY <1>1, GoneIsOver DEF Phases
    <3>2. k \in Connection
      BY <2>1, <3>1 DEF Connection
    <3>3. k.pc = "rejected" /\ k.gen = 1 /\ k.held = {}
      BY <2>1, <3>1 DEF Connection
    <3>4. ~k.us
      BY <3>1 DEF Connection
    <3> QED BY <3>2, <3>3, <3>4
  <2>3. 1 <= gen
    BY <1>1 DEF Gens
  <2>4. CASE Rejects(c)
    <3>1. conn' = [conn EXCEPT ![c] = k]
      BY <1>10, <2>4 DEF Decide
    <3> HIDE DEF k
    <3> QED BY <1>2, <1>10, <2>2, <2>3, <3>1 DEF Decide
  <2>5. CASE ~Rejects(c)
    BY <1>7, <1>10, <2>5 DEF Decide
  <2> QED BY <2>4, <2>5
<1> QED BY <1>3, <1>8, <1>9, <1>10

\* The trackers once the two counters of an address have changed by n.
Moved(g, b, n) ==
    [tracker EXCEPT ![g] =
        [tracker[g] EXCEPT !.ips = [tracker[g].ips EXCEPT ![b] = tracker[g].ips[b] + n],
                           !.connCount = tracker[g].connCount + n]]

\* Two counters of one tracker change and nothing else of it.
LEMMA CountersMove ==
    ASSUME NEW g \in Gens, NEW b \in Addresses, NEW n \in Int, tracker \in [Gens -> Tracker],
           tracker' = Moved(g, b, n)
    PROVE  /\ tracker' \in [Gens -> Tracker]
           /\ \A h \in Gens : tracker'[h].stats = tracker[h].stats
           /\ \A h \in Gens \ {g} : tracker'[h] = tracker[h]
           /\ \A a \in Addresses : tracker'[g].ips[a] =
                 IF a = b THEN tracker[g].ips[a] + n ELSE tracker[g].ips[a]
           /\ tracker'[g].connCount = tracker[g].connCount + n
<1> DEFINE ips == [tracker[g].ips EXCEPT ![b] = tracker[g].ips[b] + n]
           t == [tracker[g] EXCEPT !.ips = ips, !.connCount = tracker[g].connCount + n]
<1>1. tracker[g] \in Tracker
  OBVIOUS
<1>2. /\ ips \in [Addresses -> Int]
      /\ \A a \in Addresses : ips[a] = IF a = b THEN tracker[g].ips[a] + n ELSE tracker[g].ips[a]
  BY <1>1 DEF Tracker
<1>3. tracker[g].connCount + n \in Int
  BY <1>1 DEF Tracker
<1> HIDE DEF ips
<1>4. /\ t \in Tracker /\ t.stats = tracker[g].stats
      /\ t.connCount = tracker[g].connCount + n /\ t.ips = ips
  BY <1>1, <1>2, <1>3 DEF Tracker
<1>5. tracker' = [tracker EXCEPT ![g] = t]
  BY DEF ips, Moved
<1> HIDE DEF t
<1> QED BY <1>2, <1>4, <1>5

\* addConn counts the connection in the statistics it was given.
LEMMA AddConnKeepsInv ==
    ASSUME Inv, NEW c \in Conns, AddConn(c), MaxConns \in Nat
    PROVE  Inv'
<1> PICK g, b : g = conn[c].gen /\ b = conn[c].addr
  OBVIOUS
<1> DEFINE k == [conn[c] EXCEPT !.pc = "open"]
<1>1. /\ conn \in [Conns -> Connection] /\ conn[c] \in Connection
      /\ g \in Gens /\ tracker \in [Gens -> Tracker] /\ tracker[g] \in Tracker
  BY DEF Inv, Shape, Connection
<1>2. /\ k \in Connection /\ k.pc = "open" /\ k.gen = g /\ k.addr = b
      /\ k.us = conn[c].us
  BY <1>1 DEF Connection, Phases
<1>3. conn' = [conn EXCEPT ![c] = k]
  BY <1>1 DEF AddConn, Connection
<1>4. conn[c].pc = "admitted" /\ UNCHANGED <<gen, listening, limit>>
  BY DEF AddConn
<1>5. conn[c].us => tracker[g].stats /\ b \in Addresses
  BY DEF Inv, Attached
<1> HIDE DEF k
<1>6. CASE ~conn[c].us
  <2>1. tracker' = tracker
    BY <1>6 DEF AddConn
  <2>2. \A h, a : /\ Registered(h)' = Registered(h)
                  /\ RegisteredAt(h, a)' = RegisteredAt(h, a)
    <3>1. \A h : Registered(h)' = Registered(h)
      BY <1>1, <1>2, <1>3, <1>6 DEF Registered
    <3>2. \A h : c \notin Registered(h)
      BY <1>6 DEF Registered
    <3> QED BY <1>1, <1>3, <3>1, <3>2 DEF RegisteredAt, Registered
  <2>3. Shape'
    BY <1>1, <1>2, <1>3, <1>4, <2>1 DEF Inv, Shape
  <2>4. Attached'
    BY <1>1, <1>2, <1>3, <1>4, <2>1 DEF Inv, Attached
  <2>5. CountsExact'
    BY <2>1, <2>2, CountsKept DEF Inv
  <2>6. Remembered'
    BY <1>1, <1>2, <1>3, <2>2 DEF Inv, Remembered
  <2> QED BY <2>3, <2>4, <2>5, <2>6 DEF Inv
<1>7. CASE conn[c].us
  <2>1. tracker' = [tracker EXCEPT ![g].ips[b] = @ + 1, ![g].connCount = @ + 1]
    BY <1>5, <1>7 DEF AddConn
  <2>2. /\ tracker' \in [Gens -> Tracker]
        /\ \A h \in Gens : tracker'[h].stats = tracker[h].stats
        /\ \A h \in Gens \ {g} : tracker'[h] = tracker[h]
        /\ \A a \in Addresses : tracker'[g].ips[a] =
              IF a = b THEN tracker[g].ips[a] + 1 ELSE tracker[g].ips[a]
        /\ tracker'[g].connCount = tracker[g].connCount + 1
    <3>1. tracker' = Moved(g, b, 1)
      BY <1>1, <2>1 DEF Tracker, Moved
    <3> QED BY <1>1, <1>5, <1>7, <3>1, CountersMove
  <2>3. /\ c \notin Registered(g)
        /\ Registered(g)' = Registered(g) \cup {c}
        /\ \A h \in Gens \ {g} : Registered(h)' = Registered(h)
    BY <1>1, <1>2, <1>3, <1>4, <1>7 DEF Registered
  <2>4. /\ RegisteredAt(g, b)' = RegisteredAt(g, b) \cup {c}
        /\ \A a \in Addresses \ {b} : RegisteredAt(g, a)' = RegisteredAt(g, a)
        /\ \A h \in Gens \ {g}, a \in Addresses : RegisteredAt(h, a)' = RegisteredAt(h, a)
    BY <1>1, <1>2, <1>3, <2>3 DEF RegisteredAt, Registered
  <2>5. Shape'
    BY <1>1, <1>2, <1>3, <1>4, <2>2 DEF Inv, Shape
  <2>6. Attached'
    BY <1>1, <1>2, <1>3, <1>4, <2>2 DEF Inv, Attached, Connection
  <2>7. CountsExact'
    <3> SUFFICES ASSUME NEW h \in Gens
                 PROVE  /\ \A a \in Addresses :
                              tracker'[h].ips[a] = Cardinality(RegisteredAt(h, a)')
                        /\ tracker'[h].connCount = Cardinality(Registered(h)')
      BY DEF CountsExact, RegisteredAt
    <3>1. /\ \A a \in Addresses : tracker[h].ips[a] = Cardinality(RegisteredAt(h, a))
          /\ tracker[h].connCount = Cardinality(Registered(h))
      BY DEF Inv, CountsExact, RegisteredAt
    <3>2. CASE h # g
      BY <2>2, <2>3, <2>4, <3>1, <3>2
    <3>3. CASE h = g
      <4>1. Cardinality(Registered(g) \cup {c}) = Cardinality(Registered(g)) + 1
        BY <2>3, RegisteredFinite, FS_AddElement
      <4>2. c \notin RegisteredAt(g, b)
        BY <2>3 DEF RegisteredAt
      <4>3. Cardinality(RegisteredAt(g, b) \cup {c}) = Cardinality(RegisteredAt(g, b)) + 1
        BY <4>2, RegisteredFinite, FS_AddElement
      <4>4. ASSUME NEW a \in Addresses
            PROVE  tracker'[g].ips[a] = Cardinality(RegisteredAt(g, a)')
        <5>1. CASE a = b
          BY <2>2, <2>4, <3>1, <3>3, <4>3, <5>1
        <5>2. CASE a # b
          BY <2>2, <2>4, <3>1, <3>3, <5>2
        <5> QED BY <5>1, <5>2
      <4>5. tracker'[g].connCount = Cardinality(Registered(g)')
        BY <2>2, <2>3, <3>1, <3>3, <4>1
      <4> QED BY <3>3, <4>4, <4>5
    <3> QED BY <3>2, <3>3
  <2>8. Remembered'
    <3> SUFFICES ASSUME NEW d \in Conns
                 PROVE  (/\ conn[d].pc \in {"routed", "limited"}
                              => conn[d].held \subseteq RegisteredAt(conn[d].gen, conn[d].addr)
                         /\ conn[d].pc \in {"local", "rejected"} => conn[d].held = {})'
      BY DEF Remembered
    <3>1. CASE d = c
      BY <1>1, <1>2, <1>3, <3>1
    <3>2. CASE d # c
      <4>1. conn'[d] = conn[d]
        BY <1>1, <1>3, <3>2
      <4>2. \A e \in Conns : conn[e].pc = "open" => conn'[e] = conn[e]
        BY <1>1, <1>3, <1>4
      <4> QED BY <4>1, <4>2 DEF Inv, Remembered, RegisteredAt, Registered
    <3> QED BY <3>1, <3>2
  <2> QED BY <2>5, <2>6, <2>7, <2>8 DEF Inv
<1> QED BY <1>6, <1>7

\* removeConn takes the connection out of the same statistics, and nobody
\* remembers it.
LEMMA CloseKeepsInv ==
    ASSUME Inv, NEW c \in Conns, Close(c), MaxConns \in Nat, MaxGens \in Nat \ {0}
    PROVE  Inv'
<1> PICK g, b : g = conn[c].gen /\ b = conn[c].addr
  OBVIOUS
<1>1. /\ conn \in [Conns -> Connection] /\ conn[c] \in Connection
      /\ g \in Gens /\ tracker \in [Gens -> Tracker] /\ tracker[g] \in Tracker
      /\ 1 \in Gens /\ gen \in Nat /\ 1 <= gen
  BY DEF Inv, Shape, Connection, Gens
<1>2. /\ Gone("closed") \in Connection /\ Gone("closed").pc = "closed"
      /\ Gone("closed").gen = 1 /\ ~Gone("closed").us
  BY <1>1, GoneIsOver DEF Phases
<1>3. /\ conn'[c] = Gone("closed")
      /\ \A d \in Conns \ {c} : conn'[d] = [conn[d] EXCEPT !.held = @ \ {c}]
      /\ DOMAIN conn' = Conns /\ conn' = [d \in Conns |-> conn'[d]]
  BY DEF Close
<1>4. \A d \in Conns \ {c} :
         /\ conn'[d] \in Connection
         /\ conn'[d].pc = conn[d].pc /\ conn'[d].gen = conn[d].gen
         /\ conn'[d].addr = conn[d].addr /\ conn'[d].held = conn[d].held \ {c}
         /\ conn'[d].us = conn[d].us
  BY <1>1, <1>3 DEF Connection
<1>5. conn[c].pc = "open" /\ UNCHANGED <<gen, listening, limit>>
  BY DEF Close
<1>6. conn[c].us => tracker[g].stats /\ b \in Addresses
  BY DEF Inv, Attached
<1>7. \A h : Registered(h)' = Registered(h) \ {c}
  BY <1>2, <1>3, <1>4 DEF Registered
<1>8. \A h, a : RegisteredAt(h, a)' = RegisteredAt(h, a) \ {c}
  BY <1>2, <1>3, <1>4, <1>7 DEF RegisteredAt, Registered
<1>9. /\ tracker' \in [Gens -> Tracker]
      /\ \A h \in Gens : tracker'[h].stats = tracker[h].stats
  <2>1. CASE ~conn[c].us
    BY <1>1, <2>1 DEF Close
  <2>2. CASE conn[c].us
    <3>1. tracker' = Moved(g, b, -1)
      BY <1>1, <1>6, <2>2 DEF Close, Tracker, Moved
    <3> QED BY <1>1, <1>6, <2>2, <3>1, CountersMove
  <2> QED BY <2>1, <2>2
<1>10. Shape'
  <2>1. conn' \in [Conns -> Connection]
    BY <1>2, <1>3, <1>4
  <2> QED BY <1>5, <1>9, <2>1 DEF Inv, Shape
<1>11. Attached'
  <2> SUFFICES ASSUME NEW d \in Conns
               PROVE  /\ conn'[d].gen <= gen
                      /\ conn'[d].us => tracker'[conn'[d].gen].stats /\ conn'[d].addr \in Addresses
    BY <1>5 DEF Attached
  <2>1. CASE d = c
    BY <1>1, <1>2, <1>3, <2>1
  <2>2. CASE d # c
    <3>1. conn[d].gen \in Gens
      BY <1>1 DEF Connection
    <3> QED BY <1>4, <1>9, <2>2, <3>1 DEF Inv, Attached
  <2> QED BY <2>1, <2>2
<1>12. CountsExact'
  <2> SUFFICES ASSUME NEW h \in Gens
               PROVE  /\ \A a \in Addresses :
                            tracker'[h].ips[a] = Cardinality(RegisteredAt(h, a)')
                      /\ tracker'[h].connCount = Cardinality(Registered(h)')
    BY DEF CountsExact, RegisteredAt
  <2>1. /\ \A a \in Addresses : tracker[h].ips[a] = Cardinality(RegisteredAt(h, a))
        /\ tracker[h].connCount = Cardinality(Registered(h))
    BY DEF Inv, CountsExact, RegisteredAt
  <2>2. CASE ~(conn[c].us /\ h = g)
    <3>1. c \notin Registered(h)
      BY <2>2 DEF Registered
    <3>2. Registered(h)' = Registered(h) /\ \A a : RegisteredAt(h, a)' = RegisteredAt(h, a)
      BY <1>7, <1>8, <3>1 DEF RegisteredAt
    <3>3. tracker'[h] = tracker[h]
      BY <1>1, <2>2 DEF Close
    <3> QED BY <2>1, <3>2, <3>3
  <2>3. CASE conn[c].us /\ h = g
    <3>1. tracker' = Moved(g, b, -1)
      BY <1>1, <1>6, <2>3 DEF Close, Tracker, Moved
    <3>2. /\ \A a \in Addresses : tracker'[g].ips[a] =
                IF a = b THEN tracker[g].ips[a] + (-1) ELSE tracker[g].ips[a]
          /\ tracker'[g].connCount = tracker[g].connCount + (-1)
      BY <1>1, <1>6, <2>3, <3>1, CountersMove
    <3>3. c \in Registered(g) /\ c \in RegisteredAt(g, b)
      BY <1>5, <2>3 DEF Registered, RegisteredAt
    <3>4. /\ Cardinality(Registered(g) \ {c}) = Cardinality(Registered(g)) - 1
          /\ Cardinality(RegisteredAt(g, b) \ {c}) = Cardinality(RegisteredAt(g, b)) - 1
          /\ Cardinality(Registered(g)) \in Nat /\ Cardinality(RegisteredAt(g, b)) \in Nat
      BY <3>3, RegisteredFinite, FS_RemoveElement, FS_CardinalityType
    <3>5. ASSUME NEW a \in Addresses
          PROVE  tracker'[g].ips[a] = Cardinality(RegisteredAt(g, a)')
      <4>1. CASE a = b
        BY <1>8, <2>1, <2>3, <3>2, <3>4, <4>1
      <4>2. CASE a # b
        <5>1. c \notin RegisteredAt(g, a)
          BY <4>2 DEF RegisteredAt
        <5>2. RegisteredAt(g, a)' = RegisteredAt(g, a)
          BY <1>8, <5>1
        <5> QED BY <2>1, <2>3, <3>2, <4>2, <5>2
      <4> QED BY <4>1, <4>2
    <3>6. tracker'[g].connCount = Cardinality(Registered(g)')
      BY <1>7, <2>1, <2>3, <3>2, <3>4
    <3> QED BY <2>3, <3>5, <3>6
  <2> QED BY <2>2, <2>3
<1>13. Remembered'
  <2> SUFFICES ASSUME NEW d \in Conns
               PROVE  (/\ conn[d].pc \in {"routed", "limited"}
                            => conn[d].held \subseteq RegisteredAt(conn[d].gen, conn[d].addr)
                       /\ conn[d].pc \in {"local", "rejected"} => conn[d].held = {})'
    BY DEF Remembered
  <2>1. CASE d = c
    BY <1>2, <1>3, <2>1
  <2>2. CASE d # c
    <3>1. /\ conn[d].pc \in {"routed", "limited"}
               => conn[d].held \subseteq RegisteredAt(conn[d].gen, conn[d].addr)
          /\ conn[d].pc \in {"local", "rejected"} => conn[d].held = {}
      BY DEF Inv, Remembered
    <3> QED BY <1>2, <1>3, <1>4, <2>2, <3>1 DEF RegisteredAt, Registered
  <2> QED BY <2>1, <2>2
<1> QED BY <1>10, <1>11, <1>12, <1>13 DEF Inv

\* A step that leaves the connections and the counters alone, and takes no
\* statistics away.
LEMMA ListsKeepInv ==
    ASSUME Inv, conn' = conn, gen' = gen, limit' \in Int, listening' \subseteq listening,
           tracker' \in [Gens -> Tracker],
           \A h \in Gens : /\ tracker'[h].ips = tracker[h].ips
                           /\ tracker'[h].connCount = tracker[h].connCount
                           /\ tracker[h].stats => tracker'[h].stats
    PROVE  Inv'
<1>1. Shape'
  BY DEF Inv, Shape
<1>2. Attached'
  <2>1. \A c \in Conns : conn[c].gen \in Gens
    BY DEF Inv, Shape, Connection
  <2> QED BY <2>1 DEF Inv, Attached
<1>3. \A g, a : /\ Registered(g)' = Registered(g)
                /\ RegisteredAt(g, a)' = RegisteredAt(g, a)
  BY DEF Registered, RegisteredAt
<1>4. CountsExact'
  BY <1>3, CountsKept DEF Inv
<1>5. Remembered'
  BY <1>3 DEF Inv, Remembered
<1> QED BY <1>1, <1>2, <1>4, <1>5 DEF Inv

\* A new tracker counts nothing.
LEMMA FreshCountsNothing ==
    ASSUME NEW known \in BOOLEAN
    PROVE  /\ Fresh(known) \in Tracker
           /\ \A a \in Addresses : Fresh(known).ips[a] = 0
           /\ Fresh(known).connCount = 0
<1>1. [a \in Addresses |-> 0] \in [Addresses -> Int]
  OBVIOUS
<1> QED BY <1>1 DEF Fresh, Tracker

\* The instance that is started has no connection yet.
LEMMA StartKeepsInv ==
    ASSUME Inv, NEW known \in BOOLEAN, Start(known), MaxGens \in Nat \ {0}
    PROVE  Inv'
<1>1. /\ gen \in Gens /\ gen \in Nat /\ gen + 1 \in Gens /\ gen' = gen + 1
      /\ conn' = conn /\ limit' = limit
      /\ tracker \in [Gens -> Tracker]
      /\ tracker' = [tracker EXCEPT ![gen + 1] = Fresh(known)]
  BY DEF Inv, Shape, Start, Gens
<1>2. \A c \in Conns : conn[c].gen \in Gens /\ conn[c].gen <= gen /\ conn[c].gen # gen + 1
  <2>1. \A c \in Conns : conn[c].gen \in Gens /\ conn[c].gen <= gen
    BY DEF Inv, Shape, Connection, Attached
  <2> QED BY <1>1, <2>1 DEF Gens
<1>3. /\ tracker' \in [Gens -> Tracker] /\ tracker'[gen + 1] = Fresh(known)
      /\ \A h \in Gens \ {gen + 1} : tracker'[h] = tracker[h]
  BY <1>1, FreshCountsNothing
<1>4. Shape'
  <2>1. listening' \subseteq 1..gen'
    BY <1>1 DEF Start, Inv, Shape
  <2> QED BY <1>1, <1>3, <2>1 DEF Inv, Shape
<1>5. Attached'
  BY <1>1, <1>2, <1>3 DEF Inv, Attached, Gens
<1>6. \A g, a : /\ Registered(g)' = Registered(g)
                /\ RegisteredAt(g, a)' = RegisteredAt(g, a)
  BY <1>1 DEF Registered, RegisteredAt
<1>7. \A a : Registered(gen + 1) = {} /\ RegisteredAt(gen + 1, a) = {}
  BY <1>2 DEF Registered, RegisteredAt
<1>8. CountsExact'
  <2> SUFFICES ASSUME NEW h \in Gens
               PROVE  /\ \A a \in Addresses :
                            tracker'[h].ips[a] = Cardinality(RegisteredAt(h, a)')
                      /\ tracker'[h].connCount = Cardinality(Registered(h)')
    BY DEF CountsExact, RegisteredAt
  <2>1. CASE h = gen + 1
    BY <1>3, <1>6, <1>7, <2>1, FreshCountsNothing, FS_EmptySet
  <2>2. CASE h # gen + 1
    <3>1. /\ \A a \in Addresses : tracker[h].ips[a] = Cardinality(RegisteredAt(h, a))
          /\ tracker[h].connCount = Cardinality(Registered(h))
      BY DEF Inv, CountsExact, RegisteredAt
    <3> QED BY <1>3, <1>6, <2>2, <3>1
  <2> QED BY <2>1, <2>2
<1>9. Remembered'
  BY <1>1, <1>6 DEF Inv, Remembered
<1> QED BY <1>4, <1>5, <1>8, <1>9 DEF Inv

LEMMA InvInit ==
    ASSUME Init, MaxConns \in Nat, MaxGens \in Nat \ {0}, MaxLimit \in Nat
    PROVE  Inv
<1>1. 1 \in Gens
  BY DEF Gens
<1>2. NotArrived \in Connection /\ NotArrived.pc = "new" /\ NotArrived.gen = 1 /\ ~NotArrived.us
  BY <1>1 DEF NotArrived, Connection, Phases
<1>3. \A c \in Conns : conn[c] = NotArrived
  BY DEF Init
<1>4. \A g \in Gens : /\ tracker[g] \in Tracker
                      /\ \A a \in Addresses : tracker[g].ips[a] = 0
                      /\ tracker[g].connCount = 0
  <2> SUFFICES ASSUME NEW g \in Gens
               PROVE  /\ tracker[g] \in Tracker
                      /\ \A a \in Addresses : tracker[g].ips[a] = 0
                      /\ tracker[g].connCount = 0
    OBVIOUS
  <2>1. tracker[g] = Fresh(g = 1) /\ (g = 1) \in BOOLEAN
    BY DEF Init
  <2> QED BY <2>1, FreshCountsNothing
<1>5. Shape
  <2>1. conn \in [Conns -> Connection]
    BY <1>2 DEF Init
  <2>2. tracker \in [Gens -> Tracker]
    BY <1>4 DEF Init
  <2> QED BY <1>1, <2>1, <2>2 DEF Init, Shape
<1>6. Attached
  BY <1>2, <1>3 DEF Attached, Init
<1>7. \A g, a : Registered(g) = {} /\ RegisteredAt(g, a) = {}
  BY <1>2, <1>3 DEF Registered, RegisteredAt
<1>8. CountsExact
  BY <1>4, <1>7, FS_EmptySet DEF CountsExact, RegisteredAt
<1>9. Remembered
  BY <1>2, <1>3 DEF Remembered
<1> QED BY <1>5, <1>6, <1>8, <1>9 DEF Inv

LEMMA InvNext ==
    ASSUME Inv, [Next]_connVars, MaxConns \in Nat, MaxGens \in Nat \ {0}, MaxLimit \in Nat
    PROVE  Inv'
<1>1. tracker \in [Gens -> Tracker] /\ gen \in Gens /\ limit \in Int
  BY DEF Inv, Shape
<1>2. CASE UNCHANGED connVars
  BY <1>1, <1>2, ListsKeepInv DEF connVars
<1>3. CASE \E c \in Conns : \/ \E g \in Gens, a \in Addresses : Routed(c, g, a)
                            \/ ReadLimit(c) \/ ReadLocal(c) \/ Decide(c)
  BY <1>3, RoutingKeepsInv
<1>4. CASE \E c \in Conns : AddConn(c)
  BY <1>4, AddConnKeepsInv
<1>5. CASE \E c \in Conns : Close(c)
  BY <1>5, CloseKeepsInv
<1>6. CASE \E n \in 0..MaxLimit : UpdateUsers(n)
  <2>1. limit' \in Int /\ UNCHANGED <<conn, gen, listening, tracker>>
    BY <1>6 DEF UpdateUsers, Update
  <2> QED BY <1>1, <2>1, ListsKeepInv
<1>7. CASE KernelUsers
  <2> PICK known \in BOOLEAN : SetUserMap(known)
    BY <1>1, <1>7 DEF KernelUsers, Tracker
  <2> DEFINE t == [tracker[gen] EXCEPT !.known = known, !.stats = @ \/ known]
  <2>1. tracker' = [tracker EXCEPT ![gen] = t] /\ UNCHANGED <<conn, gen, listening, limit>>
    BY <1>7 DEF KernelUsers, SetUserMap, Update
  <2>2. /\ t.ips = tracker[gen].ips /\ t.connCount = tracker[gen].connCount
        /\ tracker[gen].stats => t.stats
    BY <1>1 DEF Tracker
  <2>3. t \in Tracker
    BY <1>1, Zenon DEF Tracker
  <2> HIDE DEF t
  <2>4. tracker' \in [Gens -> Tracker]
    BY <1>1, <2>1, <2>3
  <2>5. \A h \in Gens : /\ tracker'[h].ips = tracker[h].ips
                        /\ tracker'[h].connCount = tracker[h].connCount
                        /\ tracker[h].stats => tracker'[h].stats
    BY <1>1, <2>1, <2>2
  <2> QED BY <1>1, <2>1, <2>4, <2>5, ListsKeepInv
<1>8. ASSUME NEW g \in Gens, NEW ips \in SUBSET Addresses, NEW fresh \in BOOLEAN,
             tracker' = [tracker EXCEPT ![g].global = ips, ![g].fresh = fresh],
             UNCHANGED <<conn, gen, listening, limit>>
      PROVE  Inv'
  <2> DEFINE t == [tracker[g] EXCEPT !.global = ips, !.fresh = fresh]
  <2>1. tracker' = [tracker EXCEPT ![g] = t]
    BY <1>1, <1>8
  <2>2. /\ t \in Tracker /\ t.ips = tracker[g].ips
        /\ t.connCount = tracker[g].connCount /\ t.stats = tracker[g].stats
    BY <1>1 DEF Tracker
  <2> HIDE DEF t
  <2>3. tracker' \in [Gens -> Tracker]
    BY <1>1, <2>1, <2>2
  <2>4. \A h \in Gens : /\ tracker'[h].ips = tracker[h].ips
                        /\ tracker'[h].connCount = tracker[h].connCount
                        /\ tracker[h].stats => tracker'[h].stats
    BY <1>1, <2>1, <2>2
  <2> QED BY <1>1, <1>8, <2>3, <2>4, ListsKeepInv
<1>9. CASE \E ips \in SUBSET Addresses : UpdateGlobalDevices(ips)
  BY <1>1, <1>8, <1>9 DEF UpdateGlobalDevices, Update
<1>10. CASE \E g \in Gens : ForgetGlobalDevices(g)
  BY <1>1, <1>8, <1>10 DEF ForgetGlobalDevices
<1>11. CASE \E known \in BOOLEAN : Start(known)
  BY <1>11, StartKeepsInv
<1>12. CASE \E g \in Gens : Recycle(g)
  <2>1. listening' \subseteq listening /\ UNCHANGED <<gen, tracker, limit, conn>>
    BY <1>12 DEF Recycle
  <2> QED BY <1>1, <2>1, ListsKeepInv
<1> QED BY <1>2, <1>3, <1>4, <1>5, <1>6, <1>7, <1>9, <1>10, <1>11, <1>12 DEF Next

LEMMA InvAlways ==
    ASSUME MaxConns \in Nat, MaxGens \in Nat \ {0}, MaxLimit \in Nat
    PROVE  Spec => []Inv
<1>1. Init => Inv
  BY InvInit
<1>2. Inv /\ [Next]_connVars => Inv'
  BY InvNext
<1> QED BY <1>1, <1>2, PTL DEF Spec

-----------------------------------------------------------------------------

\* What addConn and removeConn count is what is open, whatever SetUserMap and
\* a full restart do in between.
THEOREM CountsAreExact ==
    ASSUME MaxConns \in Nat, MaxGens \in Nat \ {0}, MaxLimit \in Nat
    PROVE  Spec => []CountsExact
<1>1. Inv => CountsExact
  BY DEF Inv
<1> QED BY <1>1, InvAlways, PTL

\* checkDeviceGate rejects no connection from an address that is online here.
THEOREM OnlineIsNotRejected ==
    ASSUME MaxConns \in Nat, MaxGens \in Nat \ {0}, MaxLimit \in Nat
    PROVE  Spec => []OnlineNotRejected
<1>1. Inv => OnlineNotRejected
  BY DEF Inv, Remembered, OnlineNotRejected
<1> QED BY <1>1, InvAlways, PTL
=============================================================================
