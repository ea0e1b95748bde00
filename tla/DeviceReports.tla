--------------------------- MODULE DeviceReports ---------------------------
(***************************************************************************)
(* Reports of the connected devices of one node: the tracker that hands    *)
(* out a snapshot only when its digest has changed, and the control plane  *)
(* that retries a snapshot under one idempotency key and sets the newest   *)
(* one aside meanwhile.                                                    *)
(*                                                                         *)
(* Sources: internal/tracker/tracker.go, internal/service/service.go,      *)
(* internal/controlplane/device_platform.go.                               *)
(*                                                                         *)
(* A snapshot (user id -> set of addresses) is a model value; its sorted   *)
(* copy is the same value.  A key and its occurredAt are drawn together,   *)
(* so one increasing number stands for both.                               *)
(***************************************************************************)
EXTENDS Naturals

CONSTANTS
    Snapshots,   \* device snapshots
    Empty,       \* the snapshot without devices
    Digest,      \* what calcAliveIPsHash gives for a snapshot
    Nil,         \* no map, no pending report
    MaxChanges,  \* bound: changes of the connected devices
    MaxKeys,     \* bound: keys drawn
    MaxCrashes   \* bound: crashes

VARIABLES
    live,           \* Tracker.live: the devices last observed
    lastHash,       \* Tracker.lastAliveIPsHash
    pendingReport,  \* whether Service.pendingReport is set
    pendingDevice,  \* DevicePlatformControlPlane.pendingDevice, or Nil
    flight,         \* the request the select loop waits for, or Nil
    wire,           \* requests ever sent: may arrive late or twice
    received,       \* requests the platform has processed
    keys,           \* keys drawn so far
    changes,        \* changes so far (bound only)
    crashes,        \* crashes so far (bound only)
    given,          \* history: last snapshot given to ReportDevices, or Nil
    returned        \* history: a snapshot equal to the one in retry was given
                    \* while a different one was set aside

trackerVars == <<live, lastHash, changes>>
vars == <<live, lastHash, pendingReport, pendingDevice, flight, wire, received,
          keys, changes, crashes, given, returned>>

Message == [key : 1..MaxKeys, devices : Snapshots]
Pending == [key : 1..MaxKeys, devices : Snapshots, next : Snapshots \cup {Nil}]

Init ==
    /\ live = Empty
    /\ lastHash = Digest[Empty]
    /\ pendingReport = FALSE
    /\ pendingDevice = Nil
    /\ flight = Nil
    /\ wire = {}
    /\ received = {}
    /\ keys = 0
    /\ changes = 0
    /\ crashes = 0
    /\ given = Nil
    /\ returned = FALSE

\* trackAndEnforce: Process stores the devices it finds.
Observe(s) ==
    /\ flight = Nil
    /\ changes < MaxChanges
    /\ s # live
    /\ live' = s
    /\ changes' = changes + 1
    /\ UNCHANGED <<lastHash, pendingReport, pendingDevice, flight,
                   wire, received, keys, crashes, given, returned>>

\* The result of FlushAliveIPs: Nil if the digest is the last one.
FlushAliveIPs == IF Digest[live] = lastHash THEN Nil ELSE live

\* The tracker's side of FlushAliveIPs.
Flush ==
    /\ lastHash' = Digest[live]
    /\ UNCHANGED <<live, changes>>

\* Mutant: the newest snapshot goes out under the old key.
RetainedInPlace(devices) ==
    IF pendingDevice = Nil
    THEN [key |-> keys + 1, devices |-> devices, next |-> Nil]
    ELSE IF devices \notin {Nil, pendingDevice.devices}
    THEN [pendingDevice EXCEPT !.devices = devices]
    ELSE pendingDevice

\* ReportDevices, under deviceMu: what becomes of the pending report.
Retained(devices) ==
    IF pendingDevice = Nil
    THEN [key |-> keys + 1, devices |-> devices, next |-> Nil]
    ELSE IF devices \notin {Nil, pendingDevice.devices}
    THEN [pendingDevice EXCEPT !.next = devices]
    ELSE pendingDevice

Request(p) == [key |-> p.key, devices |-> p.devices]

\* sendDeviceBatch and ReportDevices with something to send, up to the request.
SendDeviceBatch ==
    /\ flight = Nil
    /\ Flush
    /\ ~(FlushAliveIPs = Nil /\ pendingDevice = Nil)
    /\ pendingDevice = Nil => keys < MaxKeys
    /\ pendingDevice' = Retained(FlushAliveIPs)
    /\ keys' = IF pendingDevice = Nil THEN keys + 1 ELSE keys
    /\ flight' = Request(pendingDevice')
    /\ wire' = wire \cup {flight'}
    /\ given' = IF FlushAliveIPs = Nil THEN given ELSE FlushAliveIPs
    /\ returned' = IF FlushAliveIPs = Nil THEN returned
                   ELSE pendingDevice # Nil /\ pendingDevice'.next \notin {Nil, given'}
    /\ UNCHANGED <<pendingReport, received, crashes>>

\* The platform processes a request, once for each key.
PlatformReceives(r) ==
    /\ r \in wire
    /\ \A q \in received : q.key # r.key
    /\ received' = received \cup {r}
    /\ UNCHANGED <<trackerVars, pendingReport, pendingDevice, flight, wire,
                   keys, crashes, given, returned>>

\* The request failed, or its response was lost: everything stays pending.
SendFails ==
    /\ flight # Nil
    /\ flight' = Nil
    /\ UNCHANGED <<trackerVars, pendingReport, pendingDevice, wire, received,
                   keys, crashes, given, returned>>

\* Mutant: the snapshot set aside is forgotten.
SendSucceedsForgetting ==
    /\ flight # Nil
    /\ \E r \in received : r.key = flight.key
    /\ flight' = Nil
    /\ pendingDevice' = Nil
    /\ UNCHANGED <<trackerVars, pendingReport, wire, received, keys, crashes,
                   given, returned>>

\* The request is confirmed: the snapshot set aside becomes the pending one,
\* under a key of its own.
SendSucceeds ==
    /\ flight # Nil
    /\ \E r \in received : r.key = flight.key
    /\ flight' = Nil
    /\ \/ /\ pendingDevice.next # Nil
          /\ keys < MaxKeys
          /\ keys' = keys + 1
          /\ pendingDevice' = [key |-> keys + 1, devices |-> pendingDevice.next,
                               next |-> Nil]
       \/ /\ pendingDevice.next = Nil
          /\ pendingDevice' = Nil
          /\ keys' = keys
    /\ UNCHANGED <<trackerVars, pendingReport, wire, received, crashes, given,
                   returned>>

\* beginReport takes the snapshot for the telemetry report when there is no
\* report to retry; ReportDevices does not see it then.
BeginReport ==
    /\ flight = Nil
    /\ ~pendingReport
    /\ pendingReport' = TRUE
    /\ Flush
    /\ UNCHANGED <<pendingDevice, flight, wire, received, keys, crashes, given,
                   returned>>

\* completeReport, in the goroutine of pushReportAsync.
CompleteReport ==
    /\ pendingReport
    /\ pendingReport' = FALSE
    /\ UNCHANGED <<trackerVars, pendingDevice, flight, wire, received, keys,
                   crashes, given, returned>>

\* The agent is restarted: everything but the network and the platform is new.
Crash ==
    /\ crashes < MaxCrashes
    /\ crashes' = crashes + 1
    /\ live' = Empty
    /\ lastHash' = Digest[Empty]
    /\ pendingReport' = FALSE
    /\ pendingDevice' = Nil
    /\ flight' = Nil
    /\ given' = Nil
    /\ returned' = FALSE
    /\ UNCHANGED <<wire, received, keys, changes>>

Next ==
    \/ \E s \in Snapshots : Observe(s)
    \/ SendDeviceBatch
    \/ \E r \in wire : PlatformReceives(r)
    \/ SendFails
    \/ SendSucceeds
    \/ BeginReport
    \/ CompleteReport
    \/ Crash

Spec == Init /\ [][Next]_vars

\* The ticker comes again and again, and of the requests that are repeated
\* for ever one arrives and one is confirmed.
Fairness ==
    /\ WF_vars(SendDeviceBatch)
    /\ WF_vars(\E r \in wire : PlatformReceives(r))
    /\ SF_vars(SendSucceeds)

LiveSpec == Spec /\ Fairness

---------------------------------------------------------------------------
(***************************************************************************)
(* Properties.                                                             *)
(***************************************************************************)

\* Every variable has its type, and a request in flight is the pending one.
TypeOK ==
    /\ live \in Snapshots
    /\ pendingReport \in BOOLEAN /\ returned \in BOOLEAN
    /\ pendingDevice \in Pending \cup {Nil}
    /\ flight \in Message \cup {Nil}
    /\ wire \subseteq Message /\ received \subseteq wire
    /\ keys \in 0..MaxKeys
    /\ given \in Snapshots \cup {Nil}
    /\ flight # Nil => pendingDevice # Nil /\ flight = Request(pendingDevice)

\* ReportDevices: "a batch key must never be reused for different contents".
OneKeyOneSnapshot == \A q, r \in wire : q.key = r.key => q = r

\* When nothing is pending, the platform's newest device report is the last
\* snapshot ReportDevices was given, lost responses notwithstanding; apart
\* from snapshots that return to the one in retry while another is set aside.
QuietMeansKnown ==
    pendingDevice = Nil /\ given # Nil /\ ~returned =>
        \E r \in received : /\ r.devices = given
                            /\ \A q \in received : q.key <= r.key

\* sendDeviceBatch calls the sink even when nothing has changed, so a pending
\* snapshot is delivered although the devices stay as they are.
PendingClears == pendingDevice # Nil ~> pendingDevice = Nil
=============================================================================
