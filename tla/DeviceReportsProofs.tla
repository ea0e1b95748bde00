------------------------ MODULE DeviceReportsProofs ------------------------
(***************************************************************************)
(* The keys of device reports are never reused and a quiet control plane   *)
(* is a control plane whose platform knows the last snapshot, for every    *)
(* set of snapshots, every digest and every number of changes, keys and    *)
(* crashes.                                                                *)
(***************************************************************************)
EXTENDS DeviceReports, TLAPS

\* Nil is told apart from what it stands in for.
Sound ==
    /\ Nil \notin Snapshots /\ Nil \notin Pending /\ Nil \notin Message
    /\ Empty \in Snapshots
    /\ MaxKeys \in Nat

\* The pending report has the newest key, and what was sent under that key is
\* the pending report.
Newest ==
    /\ \A r \in wire : r.key <= keys
    /\ pendingDevice # Nil =>
          /\ pendingDevice.key = keys
          /\ \A r \in wire : r.key = keys => r = Request(pendingDevice)

\* What is pending leads to the last snapshot given.
Leads ==
    pendingDevice # Nil /\ given # Nil /\ ~returned =>
        given = IF pendingDevice.next = Nil THEN pendingDevice.devices ELSE pendingDevice.next

\* When nothing is pending, the report with the newest key has arrived, and it
\* is the last snapshot given: a late request with an older key changes nothing.
Settled ==
    pendingDevice = Nil /\ given # Nil /\ ~returned =>
        \E r \in received : r.devices = given /\ r.key = keys

Inv == TypeOK /\ OneKeyOneSnapshot /\ Newest /\ Leads /\ Settled

-----------------------------------------------------------------------------

LEMMA InvInit ==
    ASSUME Sound, Init
    PROVE  Inv
<1>1. TypeOK
  <2>1. pendingReport \in BOOLEAN /\ returned \in BOOLEAN
    BY Zenon DEF Init
  <2> QED BY <2>1 DEF Sound, Init, TypeOK
<1>2. OneKeyOneSnapshot /\ Newest /\ Leads /\ Settled
  BY DEF Init, OneKeyOneSnapshot, Newest, Leads, Settled
<1> QED BY <1>1, <1>2 DEF Inv

\* A pending report is a record with its fields.
LEMMA PendingFields ==
    ASSUME NEW p \in Pending
    PROVE  /\ p.key \in 1..MaxKeys /\ p.devices \in Snapshots
           /\ p.next \in Snapshots \cup {Nil}
           /\ Request(p) \in Message
           /\ Request(p).key = p.key /\ Request(p).devices = p.devices
BY DEF Pending, Message, Request

\* What ReportDevices retains: a new report under a fresh key, or the report
\* in retry, under its key and with its contents, and perhaps a snapshot set
\* aside.
LEMMA RetainedIs ==
    ASSUME Sound, NEW f \in Snapshots \cup {Nil}, pendingDevice \in Pending \cup {Nil},
           keys \in 0..MaxKeys, pendingDevice = Nil => keys < MaxKeys,
           ~(f = Nil /\ pendingDevice = Nil)
    PROVE  /\ Retained(f) \in Pending
           /\ pendingDevice = Nil => /\ Retained(f).key = keys + 1
                                     /\ Retained(f).devices = f /\ Retained(f).next = Nil
           /\ pendingDevice # Nil =>
                 /\ Request(Retained(f)) = Request(pendingDevice)
                 /\ Retained(f).key = pendingDevice.key
                 /\ Retained(f).devices = pendingDevice.devices
                 /\ Retained(f).next = IF f \in {Nil, pendingDevice.devices}
                                       THEN pendingDevice.next ELSE f
<1>1. CASE pendingDevice = Nil
  BY <1>1 DEF Sound, Retained, Pending
<1>2. CASE pendingDevice # Nil
  <2>1. pendingDevice \in Pending
    BY <1>2
  <2>2. CASE f \in {Nil, pendingDevice.devices}
    BY <1>2, <2>1, <2>2 DEF Retained
  <2>3. CASE f \notin {Nil, pendingDevice.devices}
    BY <1>2, <2>1, <2>3 DEF Retained, Pending, Request
  <2> QED BY <2>2, <2>3
<1> QED BY <1>1, <1>2

\* ReportDevices sends a request under a fresh key, or the one in retry again.
LEMMA SendKeepsInv ==
    ASSUME Sound, Inv, SendDeviceBatch
    PROVE  Inv'
<1> DEFINE f == FlushAliveIPs
           p == Retained(f)
<1>1. /\ live \in Snapshots /\ f \in Snapshots \cup {Nil}
      /\ pendingDevice \in Pending \cup {Nil} /\ keys \in 0..MaxKeys /\ keys \in Nat
      /\ MaxKeys \in Nat /\ given \in Snapshots \cup {Nil} /\ returned \in BOOLEAN
      /\ wire \subseteq Message /\ received \subseteq wire /\ pendingReport \in BOOLEAN
  BY DEF Inv, TypeOK, FlushAliveIPs, Sound
<1>2. /\ ~(f = Nil /\ pendingDevice = Nil)
      /\ pendingDevice = Nil => keys < MaxKeys
      /\ pendingDevice' = p
      /\ keys' = IF pendingDevice = Nil THEN keys + 1 ELSE keys
      /\ flight' = Request(p) /\ wire' = wire \cup {Request(p)}
      /\ given' = IF f = Nil THEN given ELSE f
      /\ returned' = IF f = Nil THEN returned
                     ELSE pendingDevice # Nil /\ p.next \notin {Nil, given'}
      /\ UNCHANGED <<live, pendingReport, received>>
  BY DEF SendDeviceBatch, Flush
<1> HIDE DEF f
<1>3. /\ p \in Pending
      /\ pendingDevice = Nil => p.key = keys + 1 /\ p.devices = f /\ p.next = Nil
      /\ pendingDevice # Nil =>
            /\ Request(p) = Request(pendingDevice)
            /\ p.key = pendingDevice.key /\ p.devices = pendingDevice.devices
            /\ p.next = IF f \in {Nil, pendingDevice.devices} THEN pendingDevice.next ELSE f
  BY <1>1, <1>2, RetainedIs
<1> HIDE DEF p
<1>4. p # Nil /\ Request(p) \in Message /\ Request(p).key = p.key /\ p.key = keys'
  BY <1>1, <1>2, <1>3, PendingFields DEF Sound, Inv, Newest
<1>5. TypeOK'
  <2>1. keys' \in 0..MaxKeys /\ given' \in Snapshots \cup {Nil}
    BY <1>1, <1>2
  <2>2. returned' \in BOOLEAN
    <3>1. CASE f = Nil
      BY <1>1, <1>2, <3>1, Zenon
    <3>2. CASE f # Nil
      <4>1. returned' = (pendingDevice # Nil /\ p.next \notin {Nil, given'})
        BY <1>2, <3>2, Zenon
      <4> QED BY <4>1, Zenon
    <3> QED BY <3>1, <3>2
  <2> QED BY <1>1, <1>2, <1>3, <1>4, <2>1, <2>2 DEF TypeOK
<1>6. \A r \in wire : r.key \in Nat /\ r.key <= keys
  BY <1>1 DEF Inv, Newest, Message
<1>7. \A r \in wire : r.key = p.key => r = Request(p)
  <2>1. CASE pendingDevice = Nil
    BY <1>1, <1>3, <1>6, <2>1
  <2>2. CASE pendingDevice # Nil
    BY <1>3, <2>2 DEF Inv, Newest
  <2> QED BY <2>1, <2>2
<1>8. OneKeyOneSnapshot'
  BY <1>2, <1>4, <1>7 DEF Inv, OneKeyOneSnapshot
<1>9. Newest'
  BY <1>1, <1>2, <1>4, <1>6, <1>7 DEF Newest
<1>10. Leads'
  <2>1. CASE pendingDevice = Nil
    BY <1>2, <1>3, <2>1 DEF Leads
  <2>2. CASE pendingDevice # Nil /\ f = Nil
    BY <1>2, <1>3, <2>2 DEF Inv, Leads
  <2>3. CASE pendingDevice # Nil /\ f # Nil
    BY <1>2, <1>3, <2>3 DEF Leads
  <2> QED BY <2>1, <2>2, <2>3
<1>11. Settled'
  BY <1>2, <1>4 DEF Settled
<1> QED BY <1>5, <1>8, <1>9, <1>10, <1>11 DEF Inv

\* The confirmed report was the pending one: it has the newest key.
LEMMA SuccessKeepsInv ==
    ASSUME Sound, Inv, SendSucceeds
    PROVE  Inv'
<1>1. /\ pendingDevice # Nil /\ pendingDevice \in Pending
      /\ flight = Request(pendingDevice) /\ pendingDevice.key = keys
      /\ keys \in 0..MaxKeys /\ keys \in Nat /\ MaxKeys \in Nat
      /\ wire \subseteq Message /\ received \subseteq wire
  BY DEF SendSucceeds, Inv, TypeOK, Newest, Sound
<1>2. /\ pendingDevice.devices \in Snapshots /\ pendingDevice.next \in Snapshots \cup {Nil}
      /\ flight.key = keys
  BY <1>1, PendingFields
<1>3. PICK r \in received : r.key = keys
  BY <1>2 DEF SendSucceeds
<1>4. r = Request(pendingDevice) /\ r.devices = pendingDevice.devices
  BY <1>1, <1>3, PendingFields DEF Inv, Newest
<1>5. /\ flight' = Nil
      /\ UNCHANGED <<live, pendingReport, wire, received, given, returned>>
  BY DEF SendSucceeds, trackerVars
<1>6. OneKeyOneSnapshot'
  BY <1>5 DEF Inv, OneKeyOneSnapshot
<1>7. \A q \in wire : q.key \in Nat /\ q.key <= keys
  BY <1>1 DEF Inv, Newest, Message
<1>8. CASE pendingDevice.next = Nil
  <2>1. pendingDevice' = Nil /\ keys' = keys
    BY <1>8 DEF SendSucceeds
  <2>2. TypeOK'
    BY <1>1, <1>5, <2>1 DEF Inv, TypeOK
  <2>3. Newest' /\ Leads'
    BY <1>5, <2>1 DEF Inv, Newest, Leads
  <2>4. Settled'
    BY <1>1, <1>3, <1>4, <1>5, <1>8, <2>1 DEF Inv, Leads, Settled
  <2> QED BY <1>6, <2>2, <2>3, <2>4 DEF Inv
<1>9. CASE pendingDevice.next # Nil
  <2> DEFINE p == [key |-> keys + 1, devices |-> pendingDevice.next, next |-> Nil]
  <2>1. pendingDevice' = p /\ keys' = keys + 1 /\ keys < MaxKeys
    BY <1>9 DEF SendSucceeds
  <2>2. /\ p \in Pending /\ p.key = keys + 1 /\ p.devices = pendingDevice.next
        /\ p.next = Nil
    BY <1>1, <1>2, <1>9, <2>1 DEF Pending
  <2> HIDE DEF p
  <2>3. p # Nil
    BY <2>2 DEF Sound
  <2>4. TypeOK'
    <3>1. keys' \in 0..MaxKeys
      BY <1>1, <2>1
    <3> QED BY <1>1, <1>5, <2>1, <2>2, <3>1 DEF Inv, TypeOK
  <2>5. Newest'
    BY <1>1, <1>5, <1>7, <2>1, <2>2 DEF Newest
  <2>6. Leads'
    BY <1>1, <1>5, <1>9, <2>1, <2>2 DEF Inv, Leads
  <2>7. Settled'
    BY <2>1, <2>3 DEF Settled
  <2> QED BY <1>6, <2>4, <2>5, <2>6, <2>7 DEF Inv
<1> QED BY <1>8, <1>9

LEMMA InvNext ==
    ASSUME Sound, Inv, [Next]_vars
    PROVE  Inv'
<1> USE DEF trackerVars
<1>1. CASE UNCHANGED vars
  BY <1>1 DEF vars, Inv, TypeOK, OneKeyOneSnapshot, Newest, Leads, Settled
<1>2. ASSUME NEW s \in Snapshots, Observe(s)
      PROVE  Inv'
  BY <1>2 DEF Observe, Inv, TypeOK, OneKeyOneSnapshot, Newest, Leads, Settled
<1>3. CASE SendDeviceBatch
  BY <1>3, SendKeepsInv
<1>4. ASSUME NEW r \in wire, PlatformReceives(r)
      PROVE  Inv'
  BY <1>4 DEF PlatformReceives, Inv, TypeOK, OneKeyOneSnapshot, Newest, Leads, Settled
<1>5. CASE SendFails
  BY <1>5 DEF SendFails, Inv, TypeOK, OneKeyOneSnapshot, Newest, Leads, Settled
<1>6. CASE SendSucceeds
  BY <1>6, SuccessKeepsInv
<1>7. CASE BeginReport
  BY <1>7 DEF BeginReport, Flush, Inv, TypeOK, OneKeyOneSnapshot, Newest, Leads, Settled
<1>8. CASE CompleteReport
  BY <1>8 DEF CompleteReport, Inv, TypeOK, OneKeyOneSnapshot, Newest, Leads, Settled
<1>9. CASE Crash
  BY <1>9 DEF Sound, Crash, Inv, TypeOK, OneKeyOneSnapshot, Newest, Leads, Settled
<1> QED BY <1>1, <1>2, <1>3, <1>4, <1>5, <1>6, <1>7, <1>8, <1>9 DEF Next

LEMMA InvAlways ==
    ASSUME Sound
    PROVE  Spec => []Inv
<1>1. Init => Inv
  BY InvInit
<1>2. Inv /\ [Next]_vars => Inv'
  BY InvNext
<1> QED BY <1>1, <1>2, PTL DEF Spec

-----------------------------------------------------------------------------

\* ReportDevices never sends two snapshots under one key, whatever is lost,
\* retried or set aside, and whenever the agent is restarted.
THEOREM KeysAreKept ==
    ASSUME Sound
    PROVE  Spec => []OneKeyOneSnapshot
<1>1. Inv => OneKeyOneSnapshot
  BY DEF Inv
<1> QED BY <1>1, InvAlways, PTL

\* When ReportDevices has nothing pending, the newest report the platform has
\* processed is the last snapshot it was given.
THEOREM QuietIsKnown ==
    ASSUME Sound
    PROVE  Spec => []QuietMeansKnown
<1>1. Inv => QuietMeansKnown
  <2> SUFFICES ASSUME Inv, pendingDevice = Nil, given # Nil, ~returned
               PROVE  \E r \in received : /\ r.devices = given
                                          /\ \A q \in received : q.key <= r.key
    BY DEF QuietMeansKnown
  <2>1. PICK r \in received : r.devices = given /\ r.key = keys
    BY DEF Inv, Settled
  <2> QED BY <2>1 DEF Inv, Newest, TypeOK
<1> QED BY <1>1, InvAlways, PTL
=============================================================================
