----------------------- MODULE ClusterDiscoveryProofs -----------------------
(***************************************************************************)
(* Proofs of ClusterDiscovery's safety properties.  IInv says, for the     *)
(* factory scan, where a deployment still to be followed is remembered,    *)
(* and, for the watermark, how far each loop's ingestion has come.         *)
(***************************************************************************)
EXTENDS ClusterDiscovery, WellFoundedInduction, TLAPS

\* The types of the variables the invariants mention.
Types ==
    /\ head \in Nat
    /\ deployed \in [Clusters -> Nat]
    /\ regAt \in [Clusters -> Nat]
    /\ keyAt \in [Clusters -> SUBSET Nat]
    /\ known \in SUBSET Clusters /\ cached \in SUBSET Clusters /\ modelled \in SUBSET Clusters
    /\ lastFactory \in Nat /\ lastIndexed \in Nat
    /\ wpc \in {"idle", "head", "page"}
    /\ wHead \in Nat /\ wSet \in SUBSET Clusters /\ wIn \in Nat /\ wTo \in Nat
    /\ dpc \in {"idle", "scan", "record", "model", "ingest"}
    /\ dHead \in Nat /\ dTodo \in SUBSET Clusters /\ dCur \in SUBSET Clusters /\ dIn \in Nat
    /\ missed \in [Clusters -> SUBSET Nat]

\* No loop has read a block that is not mined; no log is in one.
Bounds ==
    /\ \A c \in Clusters : deployed[c] <= head /\ regAt[c] <= head
    /\ lastFactory <= head /\ lastIndexed <= head
    /\ wHead <= head /\ wTo <= wHead /\ wIn <= wTo
    /\ dHead <= head /\ dIn <= dHead
    /\ wpc = "head" => lastIndexed < wHead
    /\ wpc # "page" => wTo = 0
    /\ dpc # "ingest" => dIn = 0

\* A block holds the log of at most one cluster.
OneLogPerBlock ==
    \A c, d \in Clusters : \A b \in LogsOf(c) : b <= head /\ (b \in LogsOf(d) => c = d)

\* Only a deployed cluster has members.
RegAfterDeploy == \A c \in Clusters : regAt[c] # 0 => deployed[c] # 0

\* Neither loop runs while the process is down.
DownIsEmpty ==
    proc = "down" => /\ lastFactory = 0 /\ lastIndexed = 0
                     /\ wpc = "idle" /\ dpc = "idle"

\* How far the discovery loop has recorded the cluster in hand.
Recorded ==
    /\ dpc \in {"idle", "scan"} => dCur = {}
    /\ dpc = "model" => dCur \subseteq known
    /\ dpc = "ingest" => dCur \subseteq known /\ dCur \subseteq modelled

\* A deployment up to the running tick's head is followed or still in its hands.
ScanAccounted ==
    dpc # "idle" =>
        \A c \in Clusters : deployed[c] # 0 /\ deployed[c] <= dHead =>
            \/ c \in known /\ c \in modelled
            \/ c \in dTodo \cup dCur

\* The logs the watcher and the hydration have passed are in the member cache.
WatchProgress ==
    wpc = "page" =>
        \A c \in wSet : regAt[c] # 0 /\ lastIndexed < regAt[c] /\ regAt[c] <= wIn => c \in cached
HydrateProgress ==
    dpc = "ingest" =>
        \A c \in dCur : regAt[c] # 0 /\ regAt[c] <= dIn => c \in cached

IInv ==
    /\ Types /\ Bounds /\ OneLogPerBlock /\ RegAfterDeploy /\ DownIsEmpty /\ Recorded
    /\ ScanAccounted /\ FactoryScanComplete
    /\ WatchProgress /\ HydrateProgress /\ MembersCached


\* The variables IInv and its parts mention, apart from those each step changes.
restVars == <<chainVars, proc, known, lastFactory, lastIndexed, cached, modelled,
              watchVars, discVars, missed>>

-----------------------------------------------------------------------------
LEMMA InitHolds == Init => IInv
BY DiscoveryAssumption
DEF Init, IInv, Types, Bounds, RegAfterDeploy, OneLogPerBlock, LogsOf, DownIsEmpty, Recorded, ScanAccounted,
    FactoryScanComplete, WatchProgress, HydrateProgress, MembersCached

\* Steps that touch nothing IInv mentions.
LEMMA FrameStep == IInv /\ UNCHANGED restVars => IInv'
BY DEF restVars, IInv, Types, Bounds, RegAfterDeploy, OneLogPerBlock, LogsOf, DownIsEmpty, Recorded,
    ScanAccounted, FactoryScanComplete, WatchProgress, HydrateProgress, MembersCached,
    chainVars, watchVars, discVars

LEMMA MineStep == IInv /\ Mine => IInv'
<1> SUFFICES ASSUME IInv, Mine PROVE IInv'
  OBVIOUS
<1>1. /\ head \in Nat /\ head' = head + 1
      /\ UNCHANGED <<proc, known, lastFactory, lastIndexed, cached, modelled, watchVars,
                     discVars, missed>>
  BY DEF Mine, IInv, Types
<1>2. CASE UNCHANGED <<deployed, regAt, keyAt>>
  BY <1>1, <1>2
  DEF IInv, Types, Bounds, RegAfterDeploy, OneLogPerBlock, LogsOf, DownIsEmpty, Recorded, ScanAccounted,
      FactoryScanComplete, WatchProgress, HydrateProgress, MembersCached, watchVars, discVars
<1>3. ASSUME NEW c \in Clusters, deployed[c] = 0,
             deployed' = [deployed EXCEPT ![c] = head + 1], UNCHANGED <<regAt, keyAt>>
      PROVE  IInv'
  BY <1>1, <1>3
  DEF IInv, Types, Bounds, RegAfterDeploy, OneLogPerBlock, LogsOf, DownIsEmpty, Recorded, ScanAccounted,
      FactoryScanComplete, WatchProgress, HydrateProgress, MembersCached, watchVars, discVars
<1>4. ASSUME NEW c \in Clusters, deployed[c] # 0, regAt[c] = 0,
             regAt' = [regAt EXCEPT ![c] = head + 1], UNCHANGED <<deployed, keyAt>>
      PROVE  IInv'
  <2>1. OneLogPerBlock'
    BY <1>1, <1>4 DEF IInv, Types, OneLogPerBlock, LogsOf
  <2> QED
    BY <1>1, <1>4, <2>1
    DEF IInv, Types, Bounds, RegAfterDeploy, DownIsEmpty, Recorded, ScanAccounted, FactoryScanComplete,
        WatchProgress, HydrateProgress, MembersCached, watchVars, discVars
<1>5. ASSUME NEW c \in Clusters, regAt[c] # 0,
             keyAt' = [keyAt EXCEPT ![c] = @ \cup {head + 1}], UNCHANGED <<deployed, regAt>>
      PROVE  IInv'
  <2>1. OneLogPerBlock'
    BY <1>1, <1>5 DEF IInv, Types, OneLogPerBlock, LogsOf
  <2> QED
    BY <1>1, <1>5, <2>1
    DEF IInv, Types, Bounds, RegAfterDeploy, DownIsEmpty, Recorded, ScanAccounted, FactoryScanComplete,
        WatchProgress, HydrateProgress, MembersCached, watchVars, discVars
<1> QED
  BY <1>2, <1>3, <1>4, <1>5 DEF Mine

\* What ingesting log b of cluster c does to the member cache.
LEMMA IngestCaches ==
    ASSUME NEW c \in Clusters, NEW b, Ingest(c, b)
    PROVE  /\ cached \subseteq cached'
           /\ cached' \subseteq cached \cup {c}
           /\ b = regAt[c] => c \in cached'
BY DEF Ingest

\* Ingesting the first log of the clusters C after block n caches every member of C
\* registered after n and up to it.
LEMMA IngestFirst ==
    ASSUME IInv, NEW C \in SUBSET Clusters, NEW n \in Nat, NEW to \in Nat,
           NEW c \in C, NEW b \in LogsOf(c), FirstLog(C, n, to, b), Ingest(c, b)
    PROVE  /\ b \in Nat /\ n < b /\ b <= to
           /\ cached \subseteq cached' /\ cached' \in SUBSET Clusters
           /\ \A d \in C : regAt[d] # 0 /\ n < regAt[d] /\ regAt[d] <= b => d \in cached'
<1>1. c \in Clusters /\ b \in Nat
  BY DEF IInv, Types, LogsOf
<1>2. n < b /\ b <= to
  BY DEF FirstLog
<1>3. /\ cached \subseteq cached' /\ cached' \subseteq cached \cup {c}
      /\ b = regAt[c] => c \in cached'
  BY <1>1, IngestCaches
<1>4. ASSUME NEW d \in C, regAt[d] # 0, n < regAt[d], regAt[d] <= b
      PROVE  d \in cached'
  <2>1. regAt[d] \in LogsOf(d) /\ regAt[d] \in Nat
    BY <1>4 DEF LogsOf, IInv, Types
  <2>2. regAt[d] = b
    BY <1>1, <1>4, <2>1 DEF FirstLog
  <2>3. d = c
    BY <2>1, <2>2 DEF IInv, OneLogPerBlock
  <2> QED BY <1>3, <2>2, <2>3
<1> QED
  BY <1>1, <1>2, <1>3, <1>4 DEF IInv, Types

LEMMA WatchStep == IInv /\ (Watcher \/ WatchFails) => IInv'
<1> SUFFICES ASSUME IInv, Watcher \/ WatchFails PROVE IInv'
  OBVIOUS
<1>0. OneLogPerBlock'
  BY DEF Watcher, WatchHead, WatchSnapshot, WatchIngest, WatchPublish, WatchFails, chainVars,
         IInv, OneLogPerBlock, LogsOf
<1>1. CASE WatchHead
  BY <1>0, <1>1
  DEF WatchHead, IInv, Types, Bounds, RegAfterDeploy, DownIsEmpty, Recorded, ScanAccounted,
      FactoryScanComplete, WatchProgress, HydrateProgress, MembersCached, chainVars, discVars
<1>2. CASE WatchSnapshot
  <2>1. CASE known = {}
    BY <1>0, <1>2, <2>1
    DEF WatchSnapshot, IInv, Types, Bounds, RegAfterDeploy, DownIsEmpty, Recorded, ScanAccounted, LogsOf,
        FactoryScanComplete, WatchProgress, HydrateProgress, MembersCached, chainVars, discVars
  <2>2. CASE known # {}
    BY <1>0, <1>2, <2>2, DiscoveryAssumption
    DEF WatchSnapshot, IInv, Types, Bounds, RegAfterDeploy, DownIsEmpty, Recorded, ScanAccounted, Min2,
        FactoryScanComplete, WatchProgress, HydrateProgress, MembersCached, chainVars, discVars
  <2> QED BY <2>1, <2>2
<1>3. CASE WatchIngest
  <2>a. PICK c \in wSet : \E b \in LogsOf(c) : /\ FirstLog(wSet, wIn, wTo, b)
                                             /\ Ingest(c, b) /\ wIn' = b
    BY <1>3 DEF WatchIngest
  <2>1. PICK b \in LogsOf(c) : FirstLog(wSet, wIn, wTo, b) /\ Ingest(c, b) /\ wIn' = b
    BY <2>a
  <2>2. wSet \in SUBSET Clusters /\ wIn \in Nat /\ wTo \in Nat
    BY DEF IInv, Types
  <2>3. /\ b \in Nat /\ wIn < b /\ b <= wTo
        /\ cached \subseteq cached' /\ cached' \in SUBSET Clusters
        /\ \A d \in wSet : regAt[d] # 0 /\ wIn < regAt[d] /\ regAt[d] <= b => d \in cached'
    BY <2>1, <2>2, IngestFirst
  <2>4. WatchProgress'
    BY <1>3, <2>1, <2>2, <2>3 DEF WatchIngest, IInv, Types, WatchProgress, chainVars
  <2> QED
    BY <1>0, <1>3, <2>1, <2>3, <2>4
    DEF WatchIngest, IInv, Types, Bounds, RegAfterDeploy, DownIsEmpty, Recorded, ScanAccounted,
        FactoryScanComplete, HydrateProgress, MembersCached, chainVars, discVars
<1>4. CASE WatchPublish
  <2>1. MembersCached'
    <3> SUFFICES ASSUME NEW c \in Clusters, regAt[c] # 0, regAt[c] <= wTo,
                        regAt[c] \notin missed'[c]
                 PROVE  c \in cached
      BY <1>4 DEF WatchPublish, MembersCached, chainVars
    <3>1. regAt[c] \in LogsOf(c) /\ regAt[c] \in Nat /\ lastIndexed \in Nat /\ wIn \in Nat
      BY DEF LogsOf, IInv, Types
    <3>2. CASE regAt[c] <= lastIndexed
      BY <1>4, <3>1, <3>2 DEF WatchPublish, IInv, Types, MembersCached
    <3>3. CASE lastIndexed < regAt[c]
      <4>1. c \in wSet
        BY <1>4, <3>1, <3>3 DEF WatchPublish, IInv, Types
      <4>2. regAt[c] <= wIn
        BY <1>4, <3>1, <4>1 DEF WatchPublish, NoLog, IInv, Types
      <4> QED BY <1>4, <3>3, <4>1, <4>2 DEF WatchPublish, IInv, WatchProgress
    <3> QED BY <3>1, <3>2, <3>3
  <2>2. Types' /\ Bounds'
    BY <1>4, DiscoveryAssumption
    DEF WatchPublish, IInv, Types, Bounds, Min2, LogsOf, chainVars, discVars
  <2>3. WatchProgress'
    BY <1>4 DEF WatchPublish, IInv, Types, WatchProgress, chainVars
  <2> QED
    BY <1>0, <1>4, <2>1, <2>2, <2>3
    DEF WatchPublish, IInv, Types, RegAfterDeploy, DownIsEmpty, Recorded, ScanAccounted,
        FactoryScanComplete, HydrateProgress, chainVars, discVars
<1>5. CASE WatchFails
  BY <1>0, <1>5
  DEF WatchFails, IInv, Types, Bounds, RegAfterDeploy, DownIsEmpty, Recorded, ScanAccounted,
      FactoryScanComplete, WatchProgress, HydrateProgress, MembersCached, chainVars, discVars
<1> QED
  BY <1>1, <1>2, <1>3, <1>4, <1>5 DEF Watcher

LEMMA DiscoveryStep == IInv /\ (Discovery \/ DiscoverFails) => IInv'
<1> SUFFICES ASSUME IInv, Discovery \/ DiscoverFails PROVE IInv'
  OBVIOUS
<1>0. OneLogPerBlock'
  BY DEF Discovery, DiscoverTick, Hydrate, RecordKnown, RecordModel, HydrateIngest, HydrateDone,
         DiscoverDone, DiscoverFails, chainVars, IInv, OneLogPerBlock, LogsOf
<1>1. CASE DiscoverTick
  BY <1>0, <1>1
  DEF DiscoverTick, DeployedIn, IInv, Types, Bounds, RegAfterDeploy, DownIsEmpty, Recorded, ScanAccounted,
      FactoryScanComplete, WatchProgress, HydrateProgress, MembersCached, chainVars, watchVars
<1>2. CASE Hydrate
  BY <1>0, <1>2
  DEF Hydrate, NeedsHydration, IInv, Types, Bounds, RegAfterDeploy, DownIsEmpty, Recorded, ScanAccounted,
      FactoryScanComplete, WatchProgress, HydrateProgress, MembersCached, chainVars, watchVars
<1>3. CASE RecordKnown
  BY <1>0, <1>3
  DEF RecordKnown, IInv, Types, Bounds, RegAfterDeploy, DownIsEmpty, Recorded, ScanAccounted,
      FactoryScanComplete, WatchProgress, HydrateProgress, MembersCached, chainVars, watchVars
<1>4. CASE RecordModel
  BY <1>0, <1>4
  DEF RecordModel, AddToModel, IInv, Types, Bounds, RegAfterDeploy, DownIsEmpty, Recorded, ScanAccounted,
      FactoryScanComplete, WatchProgress, HydrateProgress, MembersCached, chainVars, watchVars
<1>5. CASE HydrateIngest
  <2>a. PICK c \in dCur : \E b \in LogsOf(c) : /\ FirstLog(dCur, dIn, dHead, b)
                                             /\ Ingest(c, b) /\ dIn' = b
    BY <1>5 DEF HydrateIngest
  <2>1. PICK b \in LogsOf(c) : FirstLog(dCur, dIn, dHead, b) /\ Ingest(c, b) /\ dIn' = b
    BY <2>a
  <2>2. dCur \in SUBSET Clusters /\ dIn \in Nat /\ dHead \in Nat
    BY DEF IInv, Types
  <2>3. /\ b \in Nat /\ dIn < b /\ b <= dHead
        /\ cached \subseteq cached' /\ cached' \in SUBSET Clusters
        /\ \A d \in dCur : regAt[d] # 0 /\ dIn < regAt[d] /\ regAt[d] <= b => d \in cached'
    BY <2>1, <2>2, IngestFirst
  <2>4. HydrateProgress'
    BY <1>5, <2>1, <2>2, <2>3 DEF HydrateIngest, IInv, Types, HydrateProgress, chainVars
  <2> QED
    BY <1>0, <1>5, <2>1, <2>3, <2>4
    DEF HydrateIngest, IInv, Types, Bounds, RegAfterDeploy, DownIsEmpty, Recorded, ScanAccounted,
        FactoryScanComplete, WatchProgress, MembersCached, chainVars, watchVars
<1>6. CASE HydrateDone
  <2>1. MembersCached'
    <3> SUFFICES ASSUME NEW c \in Clusters, regAt[c] # 0, regAt[c] <= lastIndexed,
                        regAt[c] \notin missed'[c]
                 PROVE  c \in cached
      BY <1>6 DEF HydrateDone, MembersCached, chainVars
    <3>1. regAt[c] \in LogsOf(c) /\ regAt[c] \in Nat /\ dHead \in Nat /\ dIn \in Nat
      BY DEF LogsOf, IInv, Types
    <3>2. CASE regAt[c] \notin missed[c]
      BY <3>2 DEF IInv, MembersCached
    <3>3. CASE regAt[c] \in missed[c]
      <4>1. c \in dCur /\ regAt[c] <= dHead
        BY <1>6, <3>1, <3>3 DEF HydrateDone, IInv, Types
      <4>2. regAt[c] <= dIn
        BY <1>6, <3>1, <4>1 DEF HydrateDone, NoLog
      <4> QED BY <1>6, <4>1, <4>2 DEF HydrateDone, IInv, HydrateProgress
    <3> QED BY <3>2, <3>3
  <2> QED
    BY <1>0, <1>6, <2>1
    DEF HydrateDone, IInv, Types, Bounds, RegAfterDeploy, DownIsEmpty, Recorded, ScanAccounted,
        FactoryScanComplete, WatchProgress, HydrateProgress, chainVars, watchVars
<1>7. CASE DiscoverDone
  BY <1>0, <1>7
  DEF DiscoverDone, IInv, Types, Bounds, RegAfterDeploy, DownIsEmpty, Recorded, ScanAccounted,
      FactoryScanComplete, WatchProgress, HydrateProgress, MembersCached, chainVars, watchVars
<1>8. CASE DiscoverFails
  BY <1>0, <1>8
  DEF DiscoverFails, IInv, Types, Bounds, RegAfterDeploy, DownIsEmpty, Recorded, ScanAccounted,
      FactoryScanComplete, WatchProgress, HydrateProgress, MembersCached, chainVars, watchVars
<1> QED
  BY <1>1, <1>2, <1>3, <1>4, <1>5, <1>6, <1>7, <1>8 DEF Discovery

LEMMA CrashStep == IInv /\ Crash => IInv'
BY DEF Crash, IInv, Types, Bounds, RegAfterDeploy, OneLogPerBlock, LogsOf, DownIsEmpty, Recorded,
    ScanAccounted, FactoryScanComplete, WatchProgress, HydrateProgress, MembersCached, chainVars

\* A boot leaves the loops idle; a watermark it publishes is the head's, with every
\* cluster recorded and, for the event watermark, every member cached.
LEMMA BootStep == IInv /\ Boot => IInv'
<1> SUFFICES ASSUME IInv, Boot PROVE IInv'
  OBVIOUS
<1>1. OneLogPerBlock'
  BY DEF Boot, chainVars, IInv, OneLogPerBlock, LogsOf
<1>2. wpc' = "idle" /\ dpc' = "idle" /\ proc' = "up"
  BY DEF Boot, IInv, DownIsEmpty, watchVars, discVars
<1>3. lastFactory = 0 /\ lastIndexed = 0
  BY DEF Boot, IInv, DownIsEmpty
<1>4. ASSUME NEW C \in SUBSET Clusters, NEW n \in Nat, BootIngest(C, n)
      PROVE  /\ modelled' = C
             /\ cached' \in SUBSET Clusters
             /\ \A c \in C : regAt[c] # 0 /\ regAt[c] <= n => c \in cached'
  BY <1>4 DEF BootIngest
<1>5. /\ DeployedIn(0, head) \in SUBSET Clusters
      /\ \A c \in Clusters : deployed[c] # 0 => c \in DeployedIn(0, head)
  BY DEF DeployedIn, IInv, Types, Bounds
<1>6. head \in Nat /\ UNCHANGED <<chainVars, watchVars, discVars, missed>>
  BY DEF Boot, IInv, Types
<1>7. CASE /\ known' = DeployedIn(0, head) /\ BootIngest(DeployedIn(0, head), head)
           /\ lastFactory' = head /\ lastIndexed' = head
  <2>1. /\ modelled' = DeployedIn(0, head) /\ cached' \in SUBSET Clusters
        /\ \A c \in DeployedIn(0, head) : regAt[c] # 0 /\ regAt[c] <= head => c \in cached'
    BY <1>4, <1>5, <1>6, <1>7
  <2>2. MembersCached'
    BY <1>5, <1>6, <1>7, <2>1 DEF MembersCached, chainVars, IInv, RegAfterDeploy, Bounds
  <2>3. FactoryScanComplete'
    BY <1>5, <1>6, <1>7, <2>1 DEF FactoryScanComplete, chainVars
  <2> QED
    BY <1>1, <1>2, <1>5, <1>6, <1>7, <2>1, <2>2, <2>3
    DEF IInv, Types, Bounds, RegAfterDeploy, DownIsEmpty, Recorded, ScanAccounted, WatchProgress,
        HydrateProgress, chainVars, watchVars, discVars
<1>8. ASSUME NEW n \in 0 .. head, BootIngest(DeployedIn(0, head), n),
             known' = DeployedIn(0, head), lastFactory' = head, UNCHANGED lastIndexed
      PROVE  IInv'
  <2>1. modelled' = DeployedIn(0, head) /\ cached' \in SUBSET Clusters
    BY <1>4, <1>5, <1>6, <1>8
  <2>2. MembersCached'
    BY <1>3, <1>6, <1>8 DEF MembersCached, chainVars, IInv, Types
  <2>3. FactoryScanComplete'
    BY <1>5, <1>6, <1>8, <2>1 DEF FactoryScanComplete, chainVars
  <2> QED
    BY <1>1, <1>2, <1>3, <1>5, <1>6, <1>8, <2>1, <2>2, <2>3
    DEF IInv, Types, Bounds, RegAfterDeploy, DownIsEmpty, Recorded, ScanAccounted, WatchProgress,
        HydrateProgress, chainVars, watchVars, discVars
<1>9. ASSUME NEW n \in 0 .. head, known' = DeployedIn(0, n), BootIngest(DeployedIn(0, n), 0),
             UNCHANGED <<lastFactory, lastIndexed>>
      PROVE  IInv'
  <2>1. DeployedIn(0, n) \in SUBSET Clusters
    BY DEF DeployedIn
  <2>2. modelled' = DeployedIn(0, n) /\ cached' \in SUBSET Clusters
    BY <1>4, <1>9, <2>1
  <2>3. MembersCached' /\ FactoryScanComplete'
    BY <1>3, <1>6, <1>9 DEF MembersCached, FactoryScanComplete, chainVars, IInv, Types
  <2> QED
    BY <1>1, <1>2, <1>3, <1>6, <1>9, <2>1, <2>2, <2>3
    DEF IInv, Types, Bounds, RegAfterDeploy, DownIsEmpty, Recorded, ScanAccounted, WatchProgress,
        HydrateProgress, chainVars, watchVars, discVars
<1> QED
  BY <1>7, <1>8, <1>9 DEF Boot

-----------------------------------------------------------------------------
LEMMA NextStep == IInv /\ [Next]_vars => IInv'
<1>1. IInv /\ (Quiescent \/ UNCHANGED vars) => IInv'
  BY FrameStep DEF Quiescent, vars, restVars
<1> QED
  BY <1>1, MineStep, WatchStep, DiscoveryStep, CrashStep, BootStep DEF Next

LEMMA Inductive == Spec => []IInv
BY InitHolds, NextStep, PTL DEF Spec

\* No deployment behind last_factory_block is left unfollowed, whatever discovery
\* ticks, boots and hydrations fail.
THEOREM FactoryScan == Spec => []FactoryScanComplete
<1>1. IInv => FactoryScanComplete
  BY DEF IInv
<1> QED BY <1>1, Inductive, PTL

\* Behind last_indexed_block every registered member is in the cache the Subscribe
\* handler consults, the hydration window aside.
THEOREM MemberCache == Spec => []MembersCached
<1>1. IInv => MembersCached
  BY DEF IInv
<1> QED BY <1>1, Inductive, PTL
-----------------------------------------------------------------------------
(* The read model.  A cluster's scanned_to_block starts one block before   *)
(* its deployment and a snapshot shows the last log ingested: both are     *)
(* block numbers because only a deployed cluster is ever recorded and a    *)
(* boot ingests finitely many blocks.                                      *)

ServedTypes ==
    /\ proc \in {"down", "up"}
    /\ timeline \in [Clusters -> SUBSET Nat]
    /\ shown \in [Clusters -> Nat]
    /\ scanned \in [Clusters -> Nat]
    /\ faults \in Nat

\* Whatever the discovery loop has in hand is deployed.
HandsDeployed == \A c \in dTodo \cup dCur : deployed[c] # 0

Served == ServedTypes /\ HandsDeployed

\* A bounded, non-empty set of blocks has a last one.
LEMMA Largest ==
    ASSUME NEW S \in SUBSET Nat, S # {}, NEW n \in Nat, \A x \in S : x <= n
    PROVE  (CHOOSE b \in S : \A d \in S : d <= b) \in S
<1> DEFINE Bounding == {m \in Nat : \A d \in S : d <= m}
<1> DEFINE Less == {ss \in Nat \X Nat : ss[1] < ss[2]}
<1>1. PICK m \in Bounding : \A k \in Bounding : ~ (<<k, m>> \in Less)
  <2>1. n \in Bounding /\ Bounding \subseteq Nat
    OBVIOUS
  <2>2. IsWellFoundedOn(Less, Nat)
    BY NatLessThanWellFounded DEF OpToRel
  <2> HIDE DEF Bounding, Less
  <2> QED BY <2>1, <2>2, WFMin
<1>2. \A k \in Bounding : ~ (k < m)
  BY <1>1
<1>3. m \in S
  <2>1. PICK x \in S : TRUE
    OBVIOUS
  <2>2. CASE m = 0
    BY <2>1, <2>2
  <2>3. CASE m # 0 /\ m \notin S
    <3>1. m - 1 \in Bounding
      BY <2>3
    <3> QED BY <1>2, <3>1, <2>3
  <2> QED BY <2>2, <2>3
<1> QED BY <1>3

LEMMA LogsAreBlocks == ASSUME IInv, NEW c \in Clusters PROVE LogsOf(c) \in SUBSET Nat
BY DEF IInv, Types, LogsOf

\* Ingesting a log keeps the read model's types.
LEMMA IngestServes ==
    ASSUME IInv, ServedTypes, NEW c \in Clusters, NEW b \in LogsOf(c), Ingest(c, b)
    PROVE  /\ timeline' \in [Clusters -> SUBSET Nat]
           /\ shown' \in [Clusters -> Nat]
           /\ scanned' \in [Clusters -> Nat]
<1>1. b \in Nat
  BY LogsAreBlocks
<1>2. CASE c \in modelled
  <2>1. Max2(scanned[c], b) \in Nat
    BY <1>1 DEF Max2, ServedTypes
  <2> QED BY <1>1, <1>2, <2>1 DEF Ingest, ServedTypes
<1>3. CASE c \notin modelled
  BY <1>3 DEF Ingest, readVars, ServedTypes
<1> QED BY <1>2, <1>3

\* So does booting over deployed clusters.
LEMMA BootServes ==
    ASSUME IInv, NEW C \in SUBSET Clusters, \A c \in C : deployed[c] # 0, NEW n \in Nat,
           BootIngest(C, n)
    PROVE  /\ timeline' \in [Clusters -> SUBSET Nat]
           /\ shown' \in [Clusters -> Nat]
           /\ scanned' \in [Clusters -> Nat]
<1> DEFINE ingested == [c \in Clusters |-> IF c \in C THEN {b \in LogsOf(c) : b <= n} ELSE {}]
           last(c) == CHOOSE b \in ingested[c] : \A d \in ingested[c] : d <= b
<1>1. \A c \in Clusters : ingested[c] \in SUBSET Nat /\ \A x \in ingested[c] : x <= n
  BY LogsAreBlocks
<1>2. /\ timeline' = ingested
      /\ shown' = [c \in Clusters |-> IF ingested[c] = {} THEN 0 ELSE last(c)]
      /\ scanned' = [c \in Clusters |-> IF c \notin C THEN 0
                        ELSE IF ingested[c] = {} THEN deployed[c] - 1 ELSE last(c)]
  BY DEF BootIngest
<1>3. ingested \in [Clusters -> SUBSET Nat]
  BY <1>1
<1> HIDE DEF ingested
<1>4. ASSUME NEW c \in Clusters, ingested[c] # {} PROVE last(c) \in Nat
  BY <1>1, <1>4, Largest
<1> HIDE DEF last
<1>5. \A c \in C : deployed[c] - 1 \in Nat
  BY DEF IInv, Types
<1> QED BY <1>2, <1>3, <1>4, <1>5

LEMMA ServedStep == IInv /\ Served /\ [Next]_vars => Served'
<1> SUFFICES ASSUME IInv, Served, [Next]_vars PROVE Served'
  OBVIOUS
<1> USE DEF Served, ServedTypes, HandsDeployed
<1>1. CASE Mine
  BY <1>1 DEF Mine, readVars, discVars, IInv, Types
<1>2. CASE Boot
  <2>1. \A n \in Nat : /\ DeployedIn(0, n) \in SUBSET Clusters
                      /\ \A c \in DeployedIn(0, n) : deployed[c] # 0
    BY DEF DeployedIn
  <2>2. head \in Nat /\ 0 .. head \in SUBSET Nat
    BY DEF IInv, Types
  <2>3. PICK C \in SUBSET Clusters, n \in Nat : /\ \A c \in C : deployed[c] # 0
                                              /\ BootIngest(C, n)
    BY <1>2, <2>1, <2>2 DEF Boot
  <2>4. /\ timeline' \in [Clusters -> SUBSET Nat]
        /\ shown' \in [Clusters -> Nat] /\ scanned' \in [Clusters -> Nat]
    BY <2>3, BootServes
  <2> QED BY <1>2, <2>4 DEF Boot, chainVars, discVars
<1>3. CASE WatchIngest
  <2>a. PICK c \in wSet : \E b \in LogsOf(c) : Ingest(c, b)
    BY <1>3 DEF WatchIngest
  <2>1. PICK b \in LogsOf(c) : Ingest(c, b)
    BY <2>a
  <2>2. /\ timeline' \in [Clusters -> SUBSET Nat]
        /\ shown' \in [Clusters -> Nat] /\ scanned' \in [Clusters -> Nat]
    BY <2>1, IngestServes DEF IInv, Types
  <2> QED BY <1>3, <2>2 DEF WatchIngest, chainVars, discVars
<1>4. CASE HydrateIngest
  <2>a. PICK c \in dCur : \E b \in LogsOf(c) : Ingest(c, b)
    BY <1>4 DEF HydrateIngest
  <2>1. PICK b \in LogsOf(c) : Ingest(c, b)
    BY <2>a
  <2>2. /\ timeline' \in [Clusters -> SUBSET Nat]
        /\ shown' \in [Clusters -> Nat] /\ scanned' \in [Clusters -> Nat]
    BY <2>1, IngestServes DEF IInv, Types
  <2> QED BY <1>4, <2>2 DEF HydrateIngest, chainVars
<1>5. CASE RecordModel
  <2>1. scanned' \in [Clusters -> Nat]
    BY <1>5 DEF RecordModel, AddToModel, IInv, Types
  <2> QED BY <1>5, <2>1 DEF RecordModel, chainVars
<1>6. CASE WatchHead \/ WatchSnapshot \/ WatchPublish \/ WatchFails
  BY <1>6 DEF WatchHead, WatchSnapshot, WatchPublish, WatchFails, readVars, chainVars, discVars
<1>7. CASE DiscoverTick
  BY <1>7 DEF DiscoverTick, DeployedIn, readVars, chainVars
<1>8. CASE Hydrate \/ RecordKnown \/ HydrateDone \/ DiscoverDone \/ DiscoverFails
  BY <1>8 DEF Hydrate, RecordKnown, HydrateDone, DiscoverDone, DiscoverFails, readVars, chainVars
<1>9. CASE Crash
  BY <1>9 DEF Crash, chainVars
<1>10. CASE Quiescent \/ UNCHANGED vars
  BY <1>10 DEF Quiescent, vars, readVars, chainVars, discVars
<1> QED
  BY <1>1, <1>2, <1>3, <1>4, <1>5, <1>6, <1>7, <1>8, <1>9, <1>10 DEF Next, Watcher, Discovery

\* Every variable keeps its type: in particular the block a snapshot is served at
\* never wraps below zero, and the key it shows is that of an ingested log.
THEOREM TypeCorrect == Spec => []TypeOK
<1>1. Init => Served
  BY DEF Init, Served, ServedTypes, HandsDeployed
<1>2. IInv /\ Served => TypeOK
  BY DEF IInv, Types, Served, ServedTypes, TypeOK
<1> QED BY <1>1, <1>2, ServedStep, Inductive, PTL DEF Spec
=============================================================================
