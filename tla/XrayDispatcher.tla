--------------------------- MODULE XrayDispatcher ---------------------------
(***************************************************************************)
(* LimitDispatcher, which admits the connections of a user of the xray     *)
(* kernel by the number of addresses in use, and counts what is open.      *)
(*                                                                         *)
(* Source: internal/kernel/xray/dispatcher.go.                             *)
(*                                                                         *)
(* Users do not interact, so this is one of them.  Addresses are numbers,  *)
(* in the order of sort.Strings.  Every handler runs under d.mu.           *)
(***************************************************************************)
EXTENDS Integers, FiniteSets

CONSTANTS
    Addresses,   \* source addresses
    MaxLimit,    \* bound: device limits
    MaxConns,    \* bound: connections of an address open at once
    MaxUpdates   \* bound: changes of the limit

ASSUME DispatcherAssumption ==
    /\ Addresses \subseteq Int
    /\ MaxLimit \in Nat /\ MaxConns \in Nat /\ MaxUpdates \in Nat

VARIABLES
    deviceLimit,  \* deviceLimits[email]; 0 is no limit
    limited,      \* limitedIPs[email]: reference counts, 0 is no entry
    unlimited,    \* unlimitedIPs[email]: reference counts, 0 is no entry
    connCount,    \* connections tracked
    admitted,     \* TCP connections admitted but not yet dispatched
    open,         \* TCP connections tracked
    openUDP,      \* UDP connections tracked
    updates       \* changes of the limit so far (bound only)

vars == <<deviceLimit, limited, unlimited, connCount, admitted, open, openUDP,
          updates>>

Zero == [a \in Addresses |-> 0]
InUse(counts) == {a \in Addresses : counts[a] > 0}

\* A new instance's dispatcher accepts before it is given limits.
Init ==
    /\ deviceLimit = 0
    /\ limited = Zero
    /\ unlimited = Zero
    /\ connCount = 0
    /\ admitted = Zero
    /\ open = Zero
    /\ openUDP = 0
    /\ updates = 0

\* UpdateLimits.
UpdateLimits(n) ==
    /\ updates < MaxUpdates
    /\ updates' = updates + 1
    /\ deviceLimit' = n
    /\ UNCHANGED <<limited, unlimited, connCount, admitted, open, openUDP>>

\* The outcome of checkDeviceLimit: unlimited, known, below the limit, or
\* among the lowest addresses.
Allowed(a) ==
    LET ips == InUse(limited)
    IN  \/ deviceLimit <= 0
        \/ a \in ips
        \/ Cardinality(ips) < deviceLimit
        \/ Cardinality({b \in ips : b < a}) < deviceLimit

\* checkDeviceLimit lets a TCP connection in and counts it.
Admit(a) ==
    /\ Allowed(a)
    /\ admitted[a] + open[a] < MaxConns
    /\ admitted' = [admitted EXCEPT ![a] = @ + 1]
    /\ IF deviceLimit <= 0
       THEN unlimited' = [unlimited EXCEPT ![a] = @ + 1] /\ UNCHANGED limited
       ELSE limited' = [limited EXCEPT ![a] = @ + 1] /\ UNCHANGED unlimited
    /\ UNCHANGED <<deviceLimit, connCount, open, openUDP, updates>>

\* Mutant: only the counter of the user's present class is looked at.
DelConnByClass(a) ==
    IF deviceLimit <= 0
    THEN /\ unlimited' = [unlimited EXCEPT ![a] = IF @ > 0 THEN @ - 1 ELSE 0]
         /\ UNCHANGED limited
    ELSE /\ limited' = [limited EXCEPT ![a] = IF @ > 0 THEN @ - 1 ELSE 0]
         /\ UNCHANGED unlimited

\* delConn: the unlimited counter first, whatever the limit is now.
DelConn(a) ==
    IF unlimited[a] > 0
    THEN unlimited' = [unlimited EXCEPT ![a] = @ - 1] /\ UNCHANGED limited
    ELSE /\ limited' = [limited EXCEPT ![a] = IF @ > 0 THEN @ - 1 ELSE 0]
         /\ UNCHANGED unlimited

\* Dispatch: xray cannot dispatch the connection.
DispatchFails(a) ==
    /\ admitted[a] > 0
    /\ admitted' = [admitted EXCEPT ![a] = @ - 1]
    /\ DelConn(a)
    /\ UNCHANGED <<deviceLimit, connCount, open, openUDP, updates>>

\* trackLink, for TCP.
TrackLink(a) ==
    /\ admitted[a] > 0
    /\ admitted' = [admitted EXCEPT ![a] = @ - 1]
    /\ open' = [open EXCEPT ![a] = @ + 1]
    /\ connCount' = connCount + 1
    /\ UNCHANGED <<deviceLimit, limited, unlimited, openUDP, updates>>

\* A UDP connection is tested and tracked, but its address is not counted.
DispatchUDP(a) ==
    /\ Allowed(a)
    /\ openUDP < MaxConns
    /\ openUDP' = openUDP + 1
    /\ connCount' = connCount + 1
    /\ UNCHANGED <<deviceLimit, limited, unlimited, admitted, open, updates>>

\* closeTrackingWriter: the first Close or Interrupt runs onClose.
Close(a) ==
    /\ open[a] > 0
    /\ open' = [open EXCEPT ![a] = @ - 1]
    /\ DelConn(a)
    /\ connCount' = connCount - 1
    /\ UNCHANGED <<deviceLimit, admitted, openUDP, updates>>

CloseUDP ==
    /\ openUDP > 0
    /\ openUDP' = openUDP - 1
    /\ connCount' = connCount - 1
    /\ UNCHANGED <<deviceLimit, limited, unlimited, admitted, open, updates>>

Next ==
    \/ \E n \in 0..MaxLimit : UpdateLimits(n)
    \/ \E a \in Addresses : \/ Admit(a) \/ DispatchFails(a) \/ TrackLink(a)
                            \/ DispatchUDP(a) \/ Close(a)
    \/ CloseUDP

Spec == Init /\ [][Next]_vars

-----------------------------------------------------------------------------
(***************************************************************************)
(* Properties.                                                             *)
(***************************************************************************)

\* Every variable has its type; no counter is negative.
TypeOK ==
    /\ deviceLimit \in 0..MaxLimit
    /\ limited \in [Addresses -> Nat] /\ unlimited \in [Addresses -> Nat]
    /\ connCount \in Int
    /\ admitted \in [Addresses -> Nat] /\ open \in [Addresses -> Nat]
    /\ openUDP \in Nat
    /\ updates \in Nat

\* "A user may have changed limit class while existing connections remained":
\* the two counters of an address together are its TCP connections, so an
\* address in use is never lost to GetConnectionState and a closed one never
\* stays.
RefCountsExact ==
    \A a \in Addresses : limited[a] + unlimited[a] = admitted[a] + open[a]
=============================================================================
