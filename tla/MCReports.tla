----------------------------- MODULE MCReports -----------------------------
(***************************************************************************)
(* The two kinds of report the control plane retains: results of applied   *)
(* specifications (ApplicationReports) and device snapshots                *)
(* (DeviceReports).  They share no state, so a behaviour is one of the     *)
(* first or one of the second; side says which, and the other side keeps   *)
(* its initial state.                                                      *)
(***************************************************************************)
EXTENDS ApplicationReports

CONSTANTS
    fa, fb,                          \* failures: the two are alike
    da, db, Empty,                   \* device snapshots
    MaxChanges, MaxKeys, MaxCrashes  \* bounds of DeviceReports

VARIABLES
    side,
    live, lastHash, pendingReport, pendingDevice, flight, deviceWire, received,
    keys, changes, crashes, given, returned

deviceVars == <<live, lastHash, pendingReport, pendingDevice, flight,
                deviceWire, received, keys, changes, crashes, given, returned>>

MCFailures == {fa, fb}
MCSnapshots == {Empty, da, db}

Devices == INSTANCE DeviceReports WITH
    wire <- deviceWire,
    Snapshots <- MCSnapshots,
    Digest <- [s \in MCSnapshots |-> s]

MCInit ==
    /\ side \in {"applications", "devices"}
    /\ Init
    /\ Devices!Init

MCNext ==
    \/ side = "applications" /\ Next /\ UNCHANGED <<side, deviceVars>>
    \/ side = "devices" /\ Devices!Next /\ UNCHANGED <<side, vars>>

\* The side that moves is fair.
MCSpec ==
    /\ MCInit /\ [][MCNext]_<<side, vars, deviceVars>>
    /\ \/ side = "applications" /\ Fairness
       \/ side = "devices" /\ Devices!Fairness

\* A key of a device report never stands for two snapshots.
OneKeyOneSnapshot == Devices!OneKeyOneSnapshot

\* Once no device report is pending the platform has the last snapshot.
QuietMeansKnown == Devices!QuietMeansKnown

\* Both queues empty in the end: every result is delivered, and a pending
\* device report is confirmed.
Delivered == AllDelivered /\ Devices!PendingClears

\* The variables of both have their types; and an applied revision settles:
\* only a failure already on its way can be reported after it.
SettledOnce ==
    IF side = "applications" THEN TypeOK /\ AppliedSettles ELSE Devices!TypeOK
=============================================================================
