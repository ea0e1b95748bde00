---------------------------- MODULE SingboxConns ----------------------------
(***************************************************************************)
(* ConnTracker, which admits and counts the connections of the sing-box    *)
(* kernel, across a full restart, where the old instance is drained in the *)
(* background while the new one has a tracker of its own.                  *)
(*                                                                         *)
(* Source: internal/kernel/singbox/conntracker.go, the tracker's part of   *)
(* singbox.go, and the device limits of internal/limiter/limiter.go.       *)
(*                                                                         *)
(* Users do not interact, so this is one of them: a UUID that is on the    *)
(* kernel's list or not.  Addresses are numbers, in the order of           *)
(* sort.Strings.  A lock section is a step: routing a connection takes the *)
(* locks of the tracker, the limiter, the user's statistics and the global *)
(* state one after the other.                                              *)
(***************************************************************************)
EXTENDS Integers, FiniteSets

CONSTANTS
    Addresses,   \* source addresses, a set of integers
    MaxConns,    \* bound: connections accepted, numbered in order
    MaxLimit,    \* bound: device limits
    MaxGens,     \* bound: instances started
    MaxUpdates   \* bound: changes of the list, limit, global state, instance

VARIABLES
    gen,        \* the instance whose tracker SingBox holds
    tracker,    \* the tracker of every instance
    listening,  \* instances whose inbounds accept
    limit,      \* Limiter.uuidDeviceLimit[uuid]; 0 is no entry
    conn,       \* the connections
    updates     \* changes so far (bound only)

connVars == <<gen, tracker, listening, limit, conn, updates>>

Conns == 1..MaxConns
Gens == 1..MaxGens

\* NewConnTracker followed by SetUserMap: known is an entry of uuidMap, stats
\* one of users.  A connection keeps the statistics it was given.
Fresh(known) == [known |-> known, stats |-> known,
                 ips |-> [a \in Addresses |-> 0], connCount |-> 0,
                 global |-> {}, fresh |-> FALSE]

NotArrived == [pc |-> "new", gen |-> 1, addr |-> 0, us |-> FALSE, limit |-> 0,
               local |-> {}, held |-> {}]

Gone(pc) == [NotArrived EXCEPT !.pc = pc]

Init ==
    /\ gen = 1
    /\ tracker = [g \in Gens |-> Fresh(g = 1)]
    /\ listening = {1}
    /\ limit \in 0..MaxLimit
    /\ conn = [c \in Conns |-> NotArrived]
    /\ updates = 0

InUse(g) == {a \in Addresses : tracker[g].ips[a] > 0}

\* The connections registered with a tracker and not yet closed.
Registered(g) == {c \in Conns : /\ conn[c].gen = g /\ conn[c].us
                                /\ conn[c].pc = "open"}

\* The gate is passed; what it read is no longer needed.
Admit(c) == conn' = [conn EXCEPT ![c].pc = "admitted", ![c].limit = 0,
                                 ![c].local = {}, ![c].held = {}]

-----------------------------------------------------------------------------
(***************************************************************************)
(* Routing a connection.                                                   *)
(***************************************************************************)

\* RoutedConnection or RoutedPacketConnection: the user's id and statistics.
\* held is history: the connections of the address that are open, without
\* those that close while this one is being decided on.
Routed(c, g, a) ==
    /\ conn[c].pc = "new"
    /\ \A d \in Conns : d < c => conn[d].pc # "new"
    /\ g \in listening
    /\ LET t == tracker[g]
           us == t.known /\ t.stats
       IN  conn' = [conn EXCEPT ![c] =
               [pc |-> "routed", gen |-> g, addr |-> a, us |-> us,
                limit |-> 0, local |-> {},
                held |-> {d \in Registered(g) : conn[d].addr = a /\ us}]]
    /\ UNCHANGED <<gen, tracker, listening, limit, updates>>

\* GetDeviceLimitByUUID; without a limit, or without statistics, there is no
\* gate.
ReadLimit(c) ==
    /\ conn[c].pc = "routed"
    /\ IF limit > 0 /\ conn[c].us
       THEN conn' = [conn EXCEPT ![c].limit = limit, ![c].pc = "limited"]
       ELSE Admit(c)
    /\ UNCHANGED <<gen, tracker, listening, limit, updates>>

\* Mutant: the local addresses are only counted, not looked up.
ReadLocalCountOnly(c) ==
    /\ conn[c].pc = "limited"
    /\ conn' = [conn EXCEPT ![c].local = InUse(conn[c].gen), ![c].pc = "local"]
    /\ UNCHANGED <<gen, tracker, listening, limit, updates>>

\* checkDeviceGate: the addresses in use here, under us.mu.
ReadLocal(c) ==
    /\ conn[c].pc = "limited"
    /\ LET local == InUse(conn[c].gen)
       IN  IF conn[c].addr \in local THEN Admit(c)
           ELSE conn' = [conn EXCEPT ![c].local = local, ![c].pc = "local"]
    /\ UNCHANGED <<gen, tracker, listening, limit, updates>>

\* checkDeviceGate: the addresses on other nodes, unless they are stale, and
\* the decision: an address in use elsewhere is let in, and so is one among
\* the lowest.
Rejects(c) ==
    LET t == tracker[conn[c].gen]
        global == IF t.fresh THEN t.global ELSE {}
        all == conn[c].local \union global
    IN  /\ conn[c].addr \notin global
        /\ Cardinality({b \in all : b < conn[c].addr}) >= conn[c].limit

Decide(c) ==
    /\ conn[c].pc = "local"
    /\ IF Rejects(c)
       THEN conn' = [conn EXCEPT ![c] = [Gone("rejected") EXCEPT !.held = conn[c].held]]
       ELSE Admit(c)
    /\ UNCHANGED <<gen, tracker, listening, limit, updates>>

\* addConn, on the statistics the connection was given, and the wrapper.  (The
\* reference kept in connMap is for CloseByID, which nothing calls.)
AddConn(c) ==
    /\ conn[c].pc = "admitted"
    /\ conn' = [conn EXCEPT ![c].pc = "open"]
    /\ LET g == conn[c].gen
       IN  tracker' = IF conn[c].us = tracker[g].stats /\ conn[c].us
                      THEN [tracker EXCEPT ![g].ips[conn[c].addr] = @ + 1,
                                           ![g].connCount = @ + 1]
                      ELSE tracker
    /\ UNCHANGED <<gen, listening, limit, updates>>

\* Close, the first one (closed.CompareAndSwap), by a copy loop or by the
\* instance: removeConn on the statistics the connection was given.
Close(c) ==
    /\ conn[c].pc = "open"
    /\ LET g == conn[c].gen
       IN  tracker' = IF conn[c].us = tracker[g].stats /\ conn[c].us
                      THEN [tracker EXCEPT ![g].ips[conn[c].addr] = @ - 1,
                                           ![g].connCount = @ - 1]
                      ELSE tracker
    /\ conn' = [d \in Conns |-> IF d = c THEN Gone("closed")
                                ELSE [conn[d] EXCEPT !.held = @ \ {c}]]
    /\ UNCHANGED <<gen, listening, limit, updates>>

-----------------------------------------------------------------------------
(***************************************************************************)
(* The lists, the global state and the instances.                          *)
(***************************************************************************)

Update ==
    /\ updates < MaxUpdates
    /\ updates' = updates + 1
    /\ UNCHANGED <<gen, listening, conn>>

\* Limiter.UpdateUsers: the index of device limits.
UpdateUsers(n) ==
    /\ Update
    /\ n # limit
    /\ limit' = n
    /\ UNCHANGED tracker

\* Mutant: the statistics of a user who left the list are dropped.
SetUserMapDrops(known) == tracker' = [tracker EXCEPT ![gen] = Fresh(known)]

\* SetUserMap: the statistics of a user who left the list stay.
SetUserMap(known) ==
    LET t == tracker[gen]
    IN  tracker' = [tracker EXCEPT ![gen] =
            [t EXCEPT !.known = known,
                      !.stats = @ \/ known]]

KernelUsers ==
    /\ Update
    /\ SetUserMap(~tracker[gen].known)
    /\ UNCHANGED limit

\* UpdateGlobalDevices.
UpdateGlobalDevices(ips) ==
    /\ Update
    /\ tracker' = [tracker EXCEPT ![gen].global = ips, ![gen].fresh = TRUE]
    /\ UNCHANGED limit

\* ClearGlobalDevices, or a minute without an update.
ForgetGlobalDevices(g) ==
    /\ tracker[g].fresh
    /\ tracker' = [tracker EXCEPT ![g].global = {}, ![g].fresh = FALSE]
    /\ UNCHANGED <<gen, listening, limit, conn, updates>>

\* Start: the new instance, which has a fresh tracker with the list.  (What it
\* accepts before the tracker is appended to its router is not tracked.)
Start(known) ==
    /\ gen < MaxGens /\ updates < MaxUpdates
    /\ updates' = updates + 1
    /\ gen' = gen + 1
    /\ listening' = listening \union {gen + 1}
    /\ tracker' = [tracker EXCEPT ![gen + 1] = Fresh(known)]
    /\ UNCHANGED <<limit, conn>>

\* recycleOldBox: the inbounds of the old instance are closed.  Its
\* connections then close by themselves, or when it is closed, once
\* ActiveCount is zero or the time is over.
Recycle(g) ==
    /\ g < gen
    /\ g \in listening
    /\ listening' = listening \ {g}
    /\ UNCHANGED <<gen, tracker, limit, conn, updates>>

Next ==
    \/ \E c \in Conns :
          \/ \E g \in Gens, a \in Addresses : Routed(c, g, a)
          \/ ReadLimit(c) \/ ReadLocal(c) \/ Decide(c)
          \/ AddConn(c) \/ Close(c)
    \/ \E n \in 0..MaxLimit : UpdateUsers(n)
    \/ KernelUsers
    \/ \E ips \in SUBSET Addresses : UpdateGlobalDevices(ips)
    \/ \E known \in BOOLEAN : Start(known)
    \/ \E g \in Gens : ForgetGlobalDevices(g) \/ Recycle(g)

Spec == Init /\ [][Next]_connVars

-----------------------------------------------------------------------------
(***************************************************************************)
(* Properties.                                                             *)
(***************************************************************************)

\* Every variable has its type.
TypeOK ==
    /\ gen \in Gens /\ listening \subseteq Gens
    /\ limit \in 0..MaxLimit
    /\ \A g \in Gens : tracker[g].ips \in [Addresses -> Int]
    /\ \A c \in Conns : conn[c].held \subseteq Conns

\* What a tracker counts is what is open, whatever the order in which the
\* list changes, connections arrive and close, and instances are replaced:
\* an address is alive for GetUserTraffic exactly while it has a connection,
\* the drain of an old instance waits for every one of them ("Old users that
\* are no longer present keep their stats until their connections drain").
CountsExact ==
    \A g \in Gens :
        /\ \A a \in Addresses : tracker[g].ips[a] =
               Cardinality({c \in Registered(g) : conn[c].addr = a})
        /\ tracker[g].connCount = Cardinality(Registered(g))

\* "Already known locally": no connection is rejected from an address that
\* kept another one open for the whole time it was being decided on, not even
\* one whose address is above the limit by now.
OnlineNotRejected ==
    \A c \in Conns : conn[c].pc = "rejected" => conn[c].held = {}
=============================================================================
