------------------------ MODULE TrafficReportProofs ------------------------
(***************************************************************************)
(* Proofs about TrafficReport, for every set of users and every bound.     *)
(***************************************************************************)
EXTENDS TrafficReport, TLAPS

\* The batches sent so far cover a prefix of what the tracker has counted;
\* what is still pending lies beyond all of them.
SentBeforePending ==
    \A b \in wire :
        /\ b.id < nextId
        /\ \A u \in Users : /\ b.to[u] = b.from[u] + b.traffic[u]
                            /\ b.to[u] + pendingTraffic[u] <= tracked[u]

Disjoint ==
    \A b, c \in wire : b.id # c.id =>
        \A u \in Users : b.to[u] <= c.from[u] \/ c.to[u] <= b.from[u]

PendingIsSent == pendingReport # None => pendingReport \in wire

\* The next tick counts no more than crossed the kernel since the last one.
NeverAhead ==
    \A u \in Users :
        /\ pendingTraffic[u] <= tracked[u]
        /\ Delta(u) <= unseen[u]
        /\ tracked[u] + unseen[u] <= used[u]

\* The inductive invariant.
Accounting ==
    /\ TypeOK
    /\ SentBeforePending
    /\ OneKeyOneContent
    /\ Disjoint
    /\ PendingIsSent
    /\ NeverAhead

LEMMA ZeroType == Zero \in [Users -> Nat] /\ \A u \in Users : Zero[u] = 0
  BY DEF Zero

LEMMA InitAccounting == Init => Accounting
<1> SUFFICES ASSUME Init PROVE Accounting
  OBVIOUS
<1>1. TypeOK
  <2>1. /\ running \in BOOLEAN /\ pushActive \in BOOLEAN
    BY DEF Init
  <2>2. /\ phase \in {"run", "drain", "down"}
        /\ skipRemaining \in Nat /\ nextId \in Nat /\ starts \in Nat
    BY DEF Init
  <2>3. wire \subseteq Batch /\ received \subseteq Nat
    BY DEF Init
  <2>4. pendingReport \in Report /\ async \in Report /\ sync \in Report
    BY DEF Init, Report
  <2>5. /\ cum \in [Users -> Nat] /\ lastSeen \in [Users -> Nat]
        /\ pendingTraffic \in [Users -> Nat] /\ billed \in [Users -> Nat]
        /\ used \in [Users -> Nat] /\ unseen \in [Users -> Nat]
        /\ tracked \in [Users -> Nat] /\ lost \in [Users -> Nat]
    BY ZeroType DEF Init
  <2>6. QED
    BY <2>1, <2>2, <2>3, <2>4, <2>5 DEF TypeOK
<1>2. SentBeforePending /\ OneKeyOneContent /\ Disjoint /\ PendingIsSent
  BY DEF Init, SentBeforePending, OneKeyOneContent, Disjoint, PendingIsSent
<1>3. NeverAhead
  <2>1. /\ cum = Zero /\ lastSeen = Zero /\ pendingTraffic = Zero
        /\ tracked = Zero /\ unseen = Zero /\ used = Zero
    BY DEF Init
  <2>2. ASSUME NEW u \in Users
        PROVE  /\ pendingTraffic[u] <= tracked[u]
               /\ Delta(u) <= unseen[u]
               /\ tracked[u] + unseen[u] <= used[u]
    <3>1. /\ cum[u] = 0 /\ lastSeen[u] = 0 /\ pendingTraffic[u] = 0
          /\ tracked[u] = 0 /\ unseen[u] = 0 /\ used[u] = 0
      BY <2>1, ZeroType
    <3>2. QED
      BY <3>1 DEF Delta
  <2>3. QED
    BY <2>2 DEF NeverAhead
<1>4. QED
  BY <1>1, <1>2, <1>3 DEF Accounting

LEMMA FlushedType ==
  ASSUME TypeOK, NeverAhead
  PROVE  Flushed \in Batch
  BY DEF TypeOK, NeverAhead, Flushed, Batch

LEMMA TypeStep == Accounting /\ [Next]_vars => TypeOK'
<1> SUFFICES ASSUME Accounting, [Next]_vars PROVE TypeOK'
  OBVIOUS
<1> USE TrafficAssumption
<1>0. TypeOK /\ NeverAhead /\ PendingIsSent
  BY DEF Accounting
<1>1. ASSUME NEW u \in Users, Transfer(u) PROVE TypeOK'
  BY <1>0, <1>1 DEF TypeOK, Transfer, trackerVars, panelVars, Report
<1>2. CASE KernelStart
  BY <1>0, <1>2 DEF TypeOK, KernelStart, trackerVars, panelVars, Zero, Report
<1>3. CASE KernelStop
  BY <1>0, <1>3 DEF TypeOK, KernelStop, trackerVars, panelVars, Report
<1>4. CASE TrackAndEnforce
  <2>1. \A u \in Users : Delta(u) \in Nat
    BY <1>0 DEF TypeOK, Delta
  <2>2. QED
    BY <1>0, <1>4, <2>1 DEF TypeOK, TrackAndEnforce, Process, kernelVars,
                            panelVars, Zero, Report
<1>5. CASE PushSkipped
  BY <1>0, <1>5 DEF TypeOK, PushSkipped, kernelVars, trackerVars, panelVars, Report
<1>6. ASSUME BeginReport
      PROVE  /\ Begun \in Batch
             /\ wire' \subseteq Batch
             /\ pendingReport' \in Report
             /\ pendingTraffic' \in [Users -> Nat]
             /\ nextId' \in Nat
  <2>1. Begun \in Batch
    BY <1>0, FlushedType DEF TypeOK, Begun, Report
  <2>2. QED
    BY <1>0, <1>6, <2>1 DEF TypeOK, BeginReport, Report, Zero
<1>7. CASE PushReportAsync
  <2>1. BeginReport
    BY <1>7 DEF PushReportAsync
  <2>2. QED
    BY <1>0, <1>6, <1>7, <2>1 DEF TypeOK, PushReportAsync, kernelVars, panelVars, Report
<1>8. CASE AsyncSucceeds
  <2>1. pendingReport' \in Report
    BY <1>0, <1>8 DEF TypeOK, AsyncSucceeds, CompleteReport, Report
  <2>2. skipRemaining' \in Nat
    BY <1>8 DEF AsyncSucceeds
  <2>3. async' \in Report /\ pushActive' \in BOOLEAN
    BY <1>8 DEF AsyncSucceeds, Report
  <2>4. QED
    BY <1>0, <1>8, <2>1, <2>2, <2>3 DEF TypeOK, AsyncSucceeds, kernelVars,
                                        trackerVars, panelVars
<1>9. CASE AsyncFails
  <2>1. skipRemaining' \in Nat
    BY <1>0, <1>9 DEF TypeOK, AsyncFails, OnFailure
  <2>2. async' \in Report /\ pushActive' \in BOOLEAN
    BY <1>9 DEF AsyncFails, Report
  <2>3. QED
    BY <1>0, <1>9, <2>1, <2>2 DEF TypeOK, AsyncFails, kernelVars,
                                        trackerVars, panelVars
<1>10. ASSUME NEW b \in wire, PanelReceives(b) PROVE TypeOK'
  <2>1. b \in Batch
    BY <1>0 DEF TypeOK
  <2>2. billed' \in [Users -> Nat]
    BY <1>0, <1>10, <2>1 DEF TypeOK, PanelReceives, Batch
  <2>3. received' \subseteq Nat
    BY <1>0, <1>10, <2>1 DEF TypeOK, PanelReceives, Batch
  <2>4. QED
    BY <1>0, <1>10, <2>2, <2>3 DEF TypeOK, PanelReceives, kernelVars, trackerVars
<1>11. CASE PushReportSync
  <2>1. BeginReport
    BY <1>11 DEF PushReportSync
  <2>2. QED
    BY <1>0, <1>6, <1>11, <2>1 DEF TypeOK, PushReportSync, kernelVars, panelVars, Report
<1>12. ASSUME ServiceGone PROVE TypeOK'
  <2>1. ASSUME NEW u \in Users PROVE Held(u) \in Nat
    <3>1. CASE pendingReport = None
      BY <1>0, <3>1 DEF TypeOK, Held
    <3>2. CASE pendingReport \in Batch
      <4>1. pendingReport.traffic[u] \in Nat /\ pendingTraffic[u] \in Nat
        BY <1>0, <3>2 DEF TypeOK, Batch
      <4>2. QED
        BY <4>1 DEF Held
    <3>3. QED
      BY <1>0, <3>1, <3>2 DEF TypeOK, Report
  <2>2. lost' \in [Users -> Nat]
    BY <1>0, <1>12, <2>1 DEF TypeOK, ServiceGone
  <2>3. /\ cum' \in [Users -> Nat] /\ lastSeen' \in [Users -> Nat]
        /\ pendingTraffic' \in [Users -> Nat] /\ unseen' \in [Users -> Nat]
    BY <1>12, ZeroType DEF ServiceGone
  <2>4. pendingReport' \in Report /\ async' \in Report /\ sync' \in Report
    BY <1>12 DEF ServiceGone, Report
  <2>5. running' \in BOOLEAN /\ pushActive' \in BOOLEAN
    BY <1>12 DEF ServiceGone
  <2>6. /\ phase' \in {"run", "drain", "down"}
        /\ skipRemaining' \in Nat
    BY <1>12 DEF ServiceGone
  <2>7. UNCHANGED <<starts, used, tracked, wire, received, billed, nextId>>
    BY <1>12 DEF ServiceGone, panelVars
  <2>8. QED
    BY <1>0, <2>2, <2>3, <2>4, <2>5, <2>6, <2>7 DEF TypeOK
<1>13. CASE ShutdownEnds
  BY <1>12, <1>13 DEF ShutdownEnds
<1>14. CASE Crash
  BY <1>12, <1>14 DEF Crash
<1>15. CASE Restart
  BY <1>0, <1>15 DEF TypeOK, Restart, kernelVars, trackerVars, panelVars, Report
<1>16. CASE UNCHANGED vars
  BY <1>0, <1>16 DEF TypeOK, vars, Report
<1>17. QED
  BY <1>1, <1>2, <1>3, <1>4, <1>5, <1>7, <1>8, <1>9, <1>10, <1>11, <1>13,
     <1>14, <1>15, <1>16 DEF Next

\* A batch that beginReport hands out is the pending one, which is on the
\* wire already, or a new one that starts where all the others have ended.
LEMMA BeginReportStep ==
  ASSUME Accounting, BeginReport, UNCHANGED tracked
  PROVE  /\ SentBeforePending'
         /\ OneKeyOneContent'
         /\ Disjoint'
         /\ PendingIsSent'
<1> USE DEF Accounting
<1>1. CASE pendingReport # None
  <2>1. Begun \in wire /\ wire' = wire /\ pendingReport' = pendingReport
    BY <1>1 DEF BeginReport, Begun, PendingIsSent
  <2>2. UNCHANGED <<pendingTraffic, nextId>>
    BY <1>1 DEF BeginReport
  <2>3. QED
    BY <2>1, <2>2 DEF SentBeforePending, OneKeyOneContent, Disjoint, PendingIsSent
<1>2. CASE pendingReport = None
  <2> DEFINE f == Flushed
  <2>1. /\ wire' = wire \cup {f}
        /\ pendingReport' = f
        /\ nextId' = nextId + 1
        /\ pendingTraffic' = Zero
    BY <1>2 DEF BeginReport, Begun
  <2>2. /\ f.id = nextId
        /\ f.traffic = pendingTraffic
        /\ f.to = tracked
        /\ \A u \in Users : f.from[u] = tracked[u] - pendingTraffic[u]
    BY DEF Flushed
  <2>3. f \in Batch /\ wire \subseteq Batch /\ nextId \in Nat
    BY FlushedType DEF TypeOK
  <2>4. /\ pendingTraffic \in [Users -> Nat]
        /\ tracked \in [Users -> Nat]
        /\ \A u \in Users : pendingTraffic[u] <= tracked[u]
    BY DEF TypeOK, NeverAhead
  <2> HIDE DEF f
  <2>5. SentBeforePending'
    <3> SUFFICES ASSUME NEW b \in wire'
                 PROVE  /\ b.id < nextId'
                        /\ \A u \in Users : /\ b.to[u] = b.from[u] + b.traffic[u]
                                            /\ b.to[u] + pendingTraffic'[u] <= tracked'[u]
      BY DEF SentBeforePending
    <3>1. CASE b \in wire
      <4>1. b.id < nextId'
        BY <2>1, <2>3, <3>1 DEF SentBeforePending, Batch
      <4>2. ASSUME NEW u \in Users
            PROVE  /\ b.to[u] = b.from[u] + b.traffic[u]
                   /\ b.to[u] + pendingTraffic'[u] <= tracked'[u]
        <5>1. b.to[u] \in Nat /\ pendingTraffic[u] \in Nat /\ tracked[u] \in Nat
          BY <2>3, <2>4, <3>1 DEF Batch
        <5>2. /\ b.to[u] = b.from[u] + b.traffic[u]
              /\ b.to[u] + pendingTraffic[u] <= tracked[u]
          BY <3>1 DEF SentBeforePending
        <5>3. pendingTraffic'[u] = 0
          BY <2>1, ZeroType
        <5>4. QED
          BY <5>1, <5>2, <5>3
      <4>3. QED
        BY <4>1, <4>2
    <3>2. CASE b = f
      BY <2>1, <2>2, <2>3, <2>4, <3>2, ZeroType
    <3>3. QED
      BY <2>1, <3>1, <3>2
  <2>6. ASSUME NEW b \in wire
        PROVE  b.id # f.id /\ \A u \in Users : b.to[u] <= f.from[u]
    <3>1. b.id # f.id
      BY <2>2, <2>3 DEF SentBeforePending, Batch
    <3>2. ASSUME NEW u \in Users PROVE b.to[u] <= f.from[u]
      <4>1. b.to[u] \in Nat /\ pendingTraffic[u] \in Nat /\ tracked[u] \in Nat
        BY <2>3, <2>4 DEF Batch
      <4>2. b.to[u] + pendingTraffic[u] <= tracked[u]
        BY DEF SentBeforePending
      <4>3. QED
        BY <2>2, <4>1, <4>2
    <3>3. QED
      BY <3>1, <3>2
  <2>7. OneKeyOneContent'
    BY <2>1, <2>6 DEF OneKeyOneContent
  <2>8. Disjoint'
    BY <2>1, <2>6 DEF Disjoint
  <2>9. PendingIsSent'
    BY <2>1 DEF PendingIsSent
  <2>10. QED
    BY <2>5, <2>7, <2>8, <2>9
<1>3. QED
  BY <1>1, <1>2

\* The tracker stays behind the kernel, whatever the counters do.
LEMMA NeverAheadStep == Accounting /\ [Next]_vars => NeverAhead'
<1> SUFFICES ASSUME Accounting, [Next]_vars, NEW v \in Users
             PROVE  /\ pendingTraffic'[v] <= tracked'[v]
                    /\ Delta(v)' <= unseen'[v]
                    /\ tracked'[v] + unseen'[v] <= used'[v]
  BY DEF NeverAhead
<1>0. /\ cum \in [Users -> Nat] /\ lastSeen \in [Users -> Nat]
      /\ pendingTraffic \in [Users -> Nat] /\ tracked \in [Users -> Nat]
      /\ unseen \in [Users -> Nat] /\ used \in [Users -> Nat]
  BY DEF Accounting, TypeOK
<1>a. /\ pendingTraffic[v] <= tracked[v]
      /\ Delta(v) <= unseen[v]
      /\ tracked[v] + unseen[v] <= used[v]
  BY DEF Accounting, NeverAhead
<1>1. ASSUME NEW u \in Users, Transfer(u)
      PROVE  /\ pendingTraffic'[v] <= tracked'[v]
             /\ Delta(v)' <= unseen'[v]
             /\ tracked'[v] + unseen'[v] <= used'[v]
  BY <1>0, <1>a, <1>1 DEF Transfer, Delta
<1>2. CASE KernelStart
  <2>1. cum'[v] = 0 /\ unseen'[v] = 0
    BY <1>2, ZeroType DEF KernelStart
  <2>2. UNCHANGED <<pendingTraffic, tracked, used, lastSeen>>
    BY <1>2 DEF KernelStart
  <2>3. QED
    BY <1>0, <1>a, <2>1, <2>2 DEF Delta
<1>4. CASE TrackAndEnforce
  <2>1. unseen'[v] = 0 /\ UNCHANGED <<cum, used>>
    BY <1>4, ZeroType DEF TrackAndEnforce, Process, kernelVars
  <2>2. CASE cum[v] > 0
    <3>1. /\ lastSeen'[v] = cum[v]
          /\ pendingTraffic'[v] = pendingTraffic[v] + Delta(v)
          /\ tracked'[v] = tracked[v] + Delta(v)
      BY <1>4, <2>2 DEF TrackAndEnforce, Process, GetUserTraffic
    <3>2. Delta(v) \in Nat
      BY <1>0 DEF Delta
    <3>3. Delta(v)' = 0
      BY <1>0, <2>1, <3>1 DEF Delta
    <3>4. QED
      BY <1>0, <1>a, <2>1, <3>1, <3>2, <3>3
  <2>3. CASE ~(cum[v] > 0)
    <3>1. /\ lastSeen'[v] = lastSeen[v]
          /\ pendingTraffic'[v] = pendingTraffic[v]
          /\ tracked'[v] = tracked[v]
      BY <1>4, <2>3 DEF TrackAndEnforce, Process, GetUserTraffic
    <3>2. QED
      BY <1>0, <1>a, <2>1, <2>3, <3>1 DEF Delta
  <2>4. QED
    BY <2>2, <2>3
<1>5. CASE UNCHANGED <<cum, lastSeen, pendingTraffic, tracked, unseen, used>>
  BY <1>a, <1>5 DEF Delta
<1>6. ASSUME BeginReport, UNCHANGED <<cum, lastSeen, tracked, unseen, used>>
      PROVE  /\ pendingTraffic'[v] <= tracked'[v]
             /\ Delta(v)' <= unseen'[v]
             /\ tracked'[v] + unseen'[v] <= used'[v]
  <2>1. pendingTraffic'[v] = 0 \/ pendingTraffic'[v] = pendingTraffic[v]
    BY <1>6, ZeroType DEF BeginReport
  <2>2. QED
    BY <1>0, <1>a, <1>6, <2>1 DEF Delta
<1>7. ASSUME ServiceGone
      PROVE  /\ pendingTraffic'[v] <= tracked'[v]
             /\ Delta(v)' <= unseen'[v]
             /\ tracked'[v] + unseen'[v] <= used'[v]
  <2>1. /\ cum'[v] = 0 /\ lastSeen'[v] = 0 /\ unseen'[v] = 0
        /\ pendingTraffic'[v] = 0
    BY <1>7, ZeroType DEF ServiceGone
  <2>2. UNCHANGED <<tracked, used>>
    BY <1>7 DEF ServiceGone
  <2>3. QED
    BY <1>0, <1>a, <2>1, <2>2 DEF Delta
<1>8. CASE KernelStop \/ PushSkipped \/ AsyncSucceeds \/ AsyncFails
           \/ (\E b \in wire : PanelReceives(b)) \/ Restart \/ UNCHANGED vars
  BY <1>5, <1>8 DEF KernelStop, PushSkipped, AsyncSucceeds, AsyncFails,
                    PanelReceives, Restart, kernelVars, trackerVars, vars
<1>9. CASE PushReportAsync
  BY <1>6, <1>9 DEF PushReportAsync, kernelVars
<1>10. CASE PushReportSync
  BY <1>6, <1>10 DEF PushReportSync, kernelVars
<1>11. CASE ShutdownEnds \/ Crash
  BY <1>7, <1>11 DEF ShutdownEnds, Crash
<1>12. QED
  BY <1>1, <1>2, <1>4, <1>8, <1>9, <1>10, <1>11 DEF Next

LEMMA BatchesStep ==
  Accounting /\ [Next]_vars =>
    SentBeforePending' /\ OneKeyOneContent' /\ Disjoint' /\ PendingIsSent'
<1> DEFINE Good == SentBeforePending /\ OneKeyOneContent /\ Disjoint /\ PendingIsSent
<1> SUFFICES ASSUME Accounting, [Next]_vars PROVE Good'
  OBVIOUS
<1>0. Good
  BY DEF Accounting
<1>1. CASE UNCHANGED <<wire, nextId, pendingTraffic, tracked, pendingReport>>
  BY <1>0, <1>1 DEF SentBeforePending, OneKeyOneContent, Disjoint, PendingIsSent
<1>2. CASE (\E u \in Users : Transfer(u)) \/ KernelStart \/ KernelStop
           \/ PushSkipped \/ AsyncFails \/ (\E b \in wire : PanelReceives(b))
           \/ Restart \/ UNCHANGED vars
  BY <1>1, <1>2 DEF Transfer, KernelStart, KernelStop, PushSkipped, AsyncFails,
                    PanelReceives, Restart, kernelVars, trackerVars, vars
<1>3. CASE TrackAndEnforce
  <2>1. UNCHANGED <<wire, nextId, pendingReport>>
    BY <1>3 DEF TrackAndEnforce
  <2>2. SentBeforePending'
    <3> SUFFICES ASSUME NEW b \in wire, NEW u \in Users
                 PROVE  b.to[u] + pendingTraffic'[u] <= tracked'[u]
      BY <1>0, <2>1 DEF SentBeforePending
    <3>1. /\ b.to[u] \in Nat /\ pendingTraffic[u] \in Nat /\ tracked[u] \in Nat
          /\ Delta(u) \in Nat
      BY DEF Accounting, TypeOK, Batch, Delta
    <3>2. \/ /\ pendingTraffic'[u] = pendingTraffic[u] + Delta(u)
             /\ tracked'[u] = tracked[u] + Delta(u)
          \/ /\ pendingTraffic'[u] = pendingTraffic[u]
             /\ tracked'[u] = tracked[u]
      BY <1>3 DEF TrackAndEnforce, Process
    <3>3. b.to[u] + pendingTraffic[u] <= tracked[u]
      BY <1>0 DEF SentBeforePending
    <3>4. QED
      BY <3>1, <3>2, <3>3
  <2>3. OneKeyOneContent' /\ Disjoint' /\ PendingIsSent'
    BY <1>0, <2>1 DEF OneKeyOneContent, Disjoint, PendingIsSent
  <2>4. QED
    BY <2>2, <2>3
<1>4. CASE PushReportAsync
  BY <1>4, BeginReportStep DEF PushReportAsync
<1>5. CASE PushReportSync
  BY <1>5, BeginReportStep DEF PushReportSync
<1>6. CASE AsyncSucceeds
  <2>1. UNCHANGED <<wire, nextId, pendingTraffic, tracked>>
    BY <1>6 DEF AsyncSucceeds, trackerVars
  <2>2. PendingIsSent'
    BY <1>0, <1>6, <2>1 DEF AsyncSucceeds, CompleteReport, PendingIsSent
  <2>3. QED
    BY <1>0, <2>1, <2>2 DEF SentBeforePending, OneKeyOneContent, Disjoint
<1>7. ASSUME ServiceGone PROVE Good'
  <2>1. UNCHANGED <<wire, nextId, tracked>> /\ pendingReport' = None
    BY <1>7 DEF ServiceGone
  <2>2. \A u \in Users : pendingTraffic'[u] = 0
    BY <1>7, ZeroType DEF ServiceGone
  <2>3. SentBeforePending'
    <3> SUFFICES ASSUME NEW b \in wire, NEW u \in Users
                 PROVE  b.to[u] + pendingTraffic'[u] <= tracked'[u]
      BY <1>0, <2>1 DEF SentBeforePending
    <3>1. b.to[u] \in Nat /\ pendingTraffic[u] \in Nat /\ tracked[u] \in Nat
      BY DEF Accounting, TypeOK, Batch
    <3>2. b.to[u] + pendingTraffic[u] <= tracked[u]
      BY <1>0 DEF SentBeforePending
    <3>3. QED
      BY <2>1, <2>2, <3>1, <3>2
  <2>4. QED
    BY <1>0, <2>1, <2>3 DEF OneKeyOneContent, Disjoint, PendingIsSent
<1>8. CASE ShutdownEnds \/ Crash
  BY <1>7, <1>8 DEF ShutdownEnds, Crash
<1>9. QED
  BY <1>2, <1>3, <1>4, <1>5, <1>6, <1>8 DEF Next

LEMMA AccountingStep == Accounting /\ [Next]_vars => Accounting'
  BY TypeStep, NeverAheadStep, BatchesStep DEF Accounting

LEMMA AccountingAlways == Spec => []Accounting
  BY InitAccounting, AccountingStep, PTL DEF Spec

\* Type correctness of the accounting state.
THEOREM TypeCorrect == Spec => []TypeOK
<1>1. Accounting => TypeOK
  BY DEF Accounting
<1>2. QED
  BY <1>1, AccountingAlways, PTL

\* beginReport never gives a key to two different contents, for any users,
\* any loss or delay, and any crash or restart of the service.
THEOREM KeysAreStable == Spec => []OneKeyOneContent
<1>1. Accounting => OneKeyOneContent
  BY DEF Accounting
<1>2. QED
  BY <1>1, AccountingAlways, PTL

\* Every unit the tracker counts is in at most one batch, and it counts no
\* more than crossed the kernel: with one bill per key, nothing is billed
\* twice.
THEOREM NothingCountedTwice == Spec => []CountedOnce
<1>1. ASSUME Accounting PROVE CountedOnce
  <2>1. ASSUME NEW b \in wire, NEW u \in Users
        PROVE  b.to[u] = b.from[u] + b.traffic[u] /\ b.to[u] <= used[u]
    <3>1. /\ b.to[u] \in Nat /\ pendingTraffic[u] \in Nat /\ tracked[u] \in Nat
          /\ unseen[u] \in Nat /\ used[u] \in Nat
      BY <1>1 DEF Accounting, TypeOK, Batch
    <3>2. /\ b.to[u] = b.from[u] + b.traffic[u]
          /\ b.to[u] + pendingTraffic[u] <= tracked[u]
          /\ tracked[u] + unseen[u] <= used[u]
      BY <1>1 DEF Accounting, SentBeforePending, NeverAhead
    <3>3. QED
      BY <3>1, <3>2
  <2>2. QED
    BY <1>1, <2>1 DEF CountedOnce, Accounting, Disjoint
<1>2. QED
  BY <1>1, AccountingAlways, PTL

\* The service drops a batch only after the panel has it, or with its memory.
THEOREM BatchesAreKept == Spec => BatchKeptUntilReceived
<1> DEFINE Kept == (pendingReport # None /\ pendingReport' # pendingReport /\ phase' # "down")
                   => pendingReport.id \in received
<1>1. ASSUME [Next]_vars PROVE [Kept]_vars
  <2>1. CASE AsyncSucceeds
    BY <2>1 DEF AsyncSucceeds, CompleteReport
  <2>2. CASE PushReportAsync \/ PushReportSync
    BY <2>2 DEF PushReportAsync, PushReportSync, BeginReport, Begun
  <2>3. CASE ShutdownEnds \/ Crash
    BY <2>3 DEF ShutdownEnds, Crash, ServiceGone
  <2>4. CASE ~(AsyncSucceeds \/ PushReportAsync \/ PushReportSync \/ ShutdownEnds \/ Crash)
    BY <1>1, <2>4 DEF Next, Transfer, KernelStart, KernelStop, TrackAndEnforce,
                      PushSkipped, AsyncFails, PanelReceives, Restart, vars
  <2>5. QED
    BY <2>1, <2>2, <2>3, <2>4
<1>2. QED
  BY <1>1, PTL DEF Spec, BatchKeptUntilReceived
=============================================================================
