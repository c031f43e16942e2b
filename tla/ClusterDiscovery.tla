-------------------------- MODULE ClusterDiscovery --------------------------
(***************************************************************************)
(* How the Indexer comes to follow clusters: boot_catchup, the discovery   *)
(* loop with its hydration of a new cluster's history, and the block       *)
(* watcher, over the shared cluster set, member cache and read model.      *)
(* Every block holds at most one log; a log is named by its block.  A      *)
(* cluster has one member, whose wireguard key is named by the log that    *)
(* published it.  Delivery to subscribers is IndexerDelivery's subject.    *)
(***************************************************************************)
EXTENDS Integers

CONSTANTS
    Clusters,
    Batch,          \* BLOCK_BATCH_SIZE
    MaxBlock,       \* bound: blocks mined
    MaxFaults       \* bound: crashes and failed RPCs

ASSUME DiscoveryAssumption ==
    /\ Batch \in Nat \ {0}
    /\ MaxBlock \in Nat
    /\ MaxFaults \in Nat

VARIABLES
    head,           \* the chain's block number
    deployed,       \* block of each cluster's ClusterDeployed log, 0: none yet
    regAt,          \* block of its MemberRegistered log, 0: none yet
    keyAt,          \* blocks of its WgKeyPublished logs
    proc,           \* the Indexer process: "down" or "up"
    known,          \* IndexerState.known_clusters
    lastFactory,    \* IndexerState.last_factory_block
    lastIndexed,    \* IndexerState.last_indexed_block
    cached,         \* clusters whose member is in the member cache
    modelled,       \* clusters of the read model
    timeline,       \* their timeline events
    shown,          \* the key their snapshot shows, 0: no member
    scanned,        \* their scanned_to_block, served as atBlock
    wpc,            \* watcher: "idle", "head" or "page"
    wHead,          \* head it read
    wSet,           \* cluster set it read
    wIn,            \* last block of the page it has ingested
    wTo,            \* last block of the page
    dpc,            \* discovery: "idle", "scan", "record", "model" or "ingest"
    dHead,          \* head it read
    dTodo,          \* clusters of the scan still to be handled
    dCur,           \* cluster being hydrated ({} or a singleton)
    dIn,            \* last block of its history that is ingested
    missed,         \* history: logs the watcher has passed without following
                    \*   their cluster and no hydration has read
    faults

chainVars == <<head, deployed, regAt, keyAt>>
readVars  == <<timeline, shown, scanned>>
watchVars == <<wpc, wHead, wSet, wIn, wTo>>
discVars  == <<dpc, dHead, dTodo, dCur, dIn>>
vars == <<chainVars, proc, known, lastFactory, lastIndexed, cached, modelled,
          readVars, watchVars, discVars, missed, faults>>

Min2(a, b) == IF a < b THEN a ELSE b
Max2(a, b) == IF a < b THEN b ELSE a

LogsOf(c) == ({regAt[c]} \ {0}) \cup keyAt[c]

\* The clusters whose deployment lies in the factory scan from .. to.
DeployedIn(from, to) == {c \in Clusters : deployed[c] # 0 /\ from <= deployed[c] /\ deployed[c] <= to}

\* b is the first log of one of the clusters C after block `after`, up to block `to`.
FirstLog(C, after, to, b) ==
    /\ \E c \in C : b \in LogsOf(c)
    /\ after < b /\ b <= to
    /\ \A c \in C : \A d \in LogsOf(c) : ~(after < d /\ d < b)

NoLog(C, after, to) == \A c \in C : \A d \in LogsOf(c) : ~(after < d /\ d <= to)

Init ==
    /\ head = 0
    /\ deployed = [c \in Clusters |-> 0]
    /\ regAt = [c \in Clusters |-> 0]
    /\ keyAt = [c \in Clusters |-> {}]
    /\ proc = "down"
    /\ known = {} /\ lastFactory = 0 /\ lastIndexed = 0
    /\ cached = {} /\ modelled = {}
    /\ timeline = [c \in Clusters |-> {}]
    /\ shown = [c \in Clusters |-> 0]
    /\ scanned = [c \in Clusters |-> 0]
    /\ wpc = "idle" /\ wHead = 0 /\ wSet = {} /\ wIn = 0 /\ wTo = 0
    /\ dpc = "idle" /\ dHead = 0 /\ dTodo = {} /\ dCur = {} /\ dIn = 0
    /\ missed = [c \in Clusters |-> {}]
    /\ faults = 0

-----------------------------------------------------------------------------
\* A block with no log, a deployment, a registration or a key publication.
Mine ==
    /\ head < MaxBlock
    /\ head' = head + 1
    /\ \/ UNCHANGED <<deployed, regAt, keyAt>>
       \/ \E c \in Clusters : /\ deployed[c] = 0
                              /\ deployed' = [deployed EXCEPT ![c] = head + 1]
                              /\ UNCHANGED <<regAt, keyAt>>
       \/ \E c \in Clusters : /\ deployed[c] # 0 /\ regAt[c] = 0
                              /\ regAt' = [regAt EXCEPT ![c] = head + 1]
                              /\ UNCHANGED <<deployed, keyAt>>
       \/ \E c \in Clusters : /\ regAt[c] # 0
                              /\ keyAt' = [keyAt EXCEPT ![c] = @ \cup {head + 1}]
                              /\ UNCHANGED <<deployed, regAt>>
    /\ UNCHANGED <<proc, known, lastFactory, lastIndexed, cached, modelled, readVars,
                   watchVars, discVars, missed, faults>>

-----------------------------------------------------------------------------
\* ingest_for_cache of log b of cluster c: the member cache, then the read model,
\* which drops a log of a cluster it does not hold and a key of a member it has
\* not seen.  (The registeredAt read in between changes nothing shared.)  timeline is
\* the set of logs the event list shows: the code pushes a log read twice a second
\* time, and no property counts entries.
Ingest(c, b) ==
    /\ cached' = IF b = regAt[c] THEN cached \cup {c} ELSE cached
    /\ IF c \in modelled
       THEN /\ scanned' = [scanned EXCEPT ![c] = Max2(@, b)]
            /\ timeline' = [timeline EXCEPT ![c] = @ \cup {b}]
            /\ shown' = IF (b = regAt[c]) = (shown[c] = 0) THEN [shown EXCEPT ![c] = b]
                        ELSE shown
       ELSE UNCHANGED readVars

\* Mutant: a new cluster's scanned_to_block is one block too low, and wraps.
AddToModelWraps(C) ==
    /\ modelled' = modelled \cup C
    /\ scanned' = [c \in Clusters |-> IF c \in C \ modelled THEN deployed[c] - 2 ELSE scanned[c]]

\* ReadModel.add_cluster of the clusters C.
AddToModel(C) ==
    /\ modelled' = modelled \cup C
    /\ scanned' = [c \in Clusters |-> IF c \in C \ modelled THEN deployed[c] - 1 ELSE scanned[c]]

-----------------------------------------------------------------------------
(* The block watcher: watch_tick.                                          *)

WatchHead ==
    /\ proc = "up"
    /\ wpc = "idle"
    /\ lastIndexed < head
    /\ wpc' = "head"
    /\ wHead' = head
    /\ UNCHANGED <<chainVars, proc, known, lastFactory, lastIndexed, cached, modelled,
                   readVars, wSet, wIn, wTo, discVars, missed, faults>>

\* Read the watermark and the cluster set.  With no cluster to follow the
\* watermark jumps to the head.
WatchSnapshot ==
    /\ wpc = "head"
    /\ IF known = {}
       THEN /\ lastIndexed' = wHead
            /\ missed' = [c \in Clusters |->
                           missed[c] \cup {b \in LogsOf(c) : lastIndexed < b /\ b <= wHead}]
            /\ wpc' = "idle" /\ wHead' = 0
            /\ UNCHANGED <<wSet, wIn, wTo>>
       ELSE /\ wSet' = known
            /\ wIn' = lastIndexed
            /\ wTo' = Min2(lastIndexed + Batch, wHead)
            /\ wpc' = "page"
            /\ UNCHANGED <<wHead, lastIndexed, missed>>
    /\ UNCHANGED <<chainVars, proc, known, lastFactory, cached, modelled, readVars,
                   discVars, faults>>

\* Ingest the page's next log of a followed cluster.
WatchIngest ==
    /\ wpc = "page"
    /\ \E c \in wSet : \E b \in LogsOf(c) :
         /\ FirstLog(wSet, wIn, wTo, b)
         /\ Ingest(c, b)
         /\ wIn' = b
    /\ UNCHANGED <<chainVars, proc, known, lastFactory, lastIndexed, modelled,
                   wpc, wHead, wSet, wTo, discVars, missed, faults>>

\* Publish the page; poll the next one or end the tick.
WatchPublish ==
    /\ wpc = "page"
    /\ NoLog(wSet, wIn, wTo)
    /\ lastIndexed' = wTo
    /\ missed' = [c \in Clusters |-> IF c \in wSet THEN missed[c]
                    ELSE missed[c] \cup {b \in LogsOf(c) : lastIndexed < b /\ b <= wTo}]
    /\ IF wTo < wHead
       THEN /\ wIn' = wTo
            /\ wTo' = Min2(wTo + Batch, wHead)
            /\ UNCHANGED <<wpc, wHead, wSet>>
       ELSE wpc' = "idle" /\ wHead' = 0 /\ wSet' = {} /\ wIn' = 0 /\ wTo' = 0
    /\ UNCHANGED <<chainVars, proc, known, lastFactory, cached, modelled, readVars,
                   discVars, faults>>

\* Polling a page fails: the tick ends, the watermark stays.
WatchFails ==
    /\ wpc = "page" /\ wIn = lastIndexed
    /\ faults < MaxFaults
    /\ faults' = faults + 1
    /\ wpc' = "idle" /\ wHead' = 0 /\ wSet' = {} /\ wIn' = 0 /\ wTo' = 0
    /\ UNCHANGED <<chainVars, proc, known, lastFactory, lastIndexed, cached, modelled,
                   readVars, discVars, missed>>

-----------------------------------------------------------------------------
(* The discovery loop: discovery_tick and hydrate_discovered_cluster.      *)

\* Read the head and scan the factory's logs from the last scan up to it.
DiscoverTick ==
    /\ proc = "up"
    /\ dpc = "idle"
    /\ lastFactory < head
    /\ dpc' = "scan"
    /\ dHead' = head
    /\ dTodo' = DeployedIn(lastFactory + 1, head)
    /\ UNCHANGED <<chainVars, proc, known, lastFactory, lastIndexed, cached, modelled,
                   readVars, watchVars, dCur, dIn, missed, faults>>

\* cluster_needs_hydration
NeedsHydration(c) == c \notin known \/ c \notin modelled

\* Take the scan's next cluster; if it needs hydration, read its CIDR and its
\* history up to the head of this tick.
Hydrate ==
    /\ dpc = "scan"
    /\ \E c \in dTodo :
         /\ \A d \in dTodo : deployed[c] <= deployed[d]
         /\ dTodo' = dTodo \ {c}
         /\ IF NeedsHydration(c) THEN dCur' = {c} /\ dpc' = "record"
            ELSE UNCHANGED <<dCur, dpc>>
    /\ UNCHANGED <<chainVars, proc, known, lastFactory, lastIndexed, cached, modelled,
                   readVars, watchVars, dHead, dIn, missed, faults>>

\* record_discovered_cluster: the cluster set first, then the read model.
RecordKnown ==
    /\ dpc = "record"
    /\ known' = known \cup dCur
    /\ dpc' = "model"
    /\ UNCHANGED <<chainVars, proc, lastFactory, lastIndexed, cached, modelled, readVars,
                   watchVars, dHead, dTodo, dCur, dIn, missed, faults>>

RecordModel ==
    /\ dpc = "model"
    /\ AddToModel(dCur)
    /\ dpc' = "ingest"
    /\ dIn' = 0
    /\ UNCHANGED <<chainVars, proc, known, lastFactory, lastIndexed, cached, timeline,
                   shown, watchVars, dHead, dTodo, dCur, missed, faults>>

\* ingest_for_cache of the history that was read.
HydrateIngest ==
    /\ dpc = "ingest"
    /\ \E c \in dCur : \E b \in LogsOf(c) :
         /\ FirstLog(dCur, dIn, dHead, b)
         /\ Ingest(c, b)
         /\ dIn' = b
    /\ UNCHANGED <<chainVars, proc, known, lastFactory, lastIndexed, modelled, watchVars,
                   dpc, dHead, dTodo, dCur, missed, faults>>

HydrateDone ==
    /\ dpc = "ingest"
    /\ NoLog(dCur, dIn, dHead)
    /\ missed' = [c \in Clusters |-> IF c \in dCur THEN missed[c] \ (1 .. dHead) ELSE missed[c]]
    /\ dpc' = "scan"
    /\ dCur' = {} /\ dIn' = 0
    /\ UNCHANGED <<chainVars, proc, known, lastFactory, lastIndexed, cached, modelled,
                   readVars, watchVars, dHead, dTodo, faults>>

\* The tick is complete: the factory watermark moves to its head.
DiscoverDone ==
    /\ dpc = "scan"
    /\ dTodo = {}
    /\ lastFactory' = dHead
    /\ dpc' = "idle" /\ dHead' = 0
    /\ UNCHANGED <<chainVars, proc, known, lastIndexed, cached, modelled, readVars,
                   watchVars, dTodo, dCur, dIn, missed, faults>>

\* Mutant: a failed tick advances the factory watermark all the same.
DiscoverFailsAdvances ==
    /\ dpc = "scan"
    /\ faults < MaxFaults
    /\ faults' = faults + 1
    /\ lastFactory' = dHead
    /\ dpc' = "idle" /\ dHead' = 0 /\ dTodo' = {}
    /\ UNCHANGED <<chainVars, proc, known, lastIndexed, cached, modelled,
                   readVars, watchVars, dCur, dIn, missed>>

\* An RPC of the scan or of a cluster's hydration fails: the tick ends and the
\* factory watermark stays.
DiscoverFails ==
    /\ dpc = "scan"
    /\ faults < MaxFaults
    /\ faults' = faults + 1
    /\ dpc' = "idle" /\ dHead' = 0 /\ dTodo' = {}
    /\ UNCHANGED <<chainVars, proc, known, lastFactory, lastIndexed, cached, modelled,
                   readVars, watchVars, dCur, dIn, missed>>

-----------------------------------------------------------------------------
(* Crash and boot.  Everything here but the chain is in memory.            *)

Crash ==
    /\ proc = "up"
    /\ faults < MaxFaults
    /\ faults' = faults + 1
    /\ proc' = "down"
    /\ known' = {} /\ lastFactory' = 0 /\ lastIndexed' = 0
    /\ cached' = {} /\ modelled' = {}
    /\ timeline' = [c \in Clusters |-> {}]
    /\ shown' = [c \in Clusters |-> 0]
    /\ scanned' = [c \in Clusters |-> 0]
    /\ wpc' = "idle" /\ wHead' = 0 /\ wSet' = {} /\ wIn' = 0 /\ wTo' = 0
    /\ dpc' = "idle" /\ dHead' = 0 /\ dTodo' = {} /\ dCur' = {} /\ dIn' = 0
    /\ missed' = [c \in Clusters |-> {}]
    /\ UNCHANGED chainVars

\* The read model and the member cache after ingesting, in order, the history of
\* the clusters C up to block n.
BootIngest(C, n) ==
    LET ingested == [c \in Clusters |-> IF c \in C THEN {b \in LogsOf(c) : b <= n} ELSE {}]
    IN  /\ cached' = {c \in C : regAt[c] # 0 /\ regAt[c] <= n}
        /\ modelled' = C
        /\ timeline' = ingested
        /\ shown' = [c \in Clusters |-> IF ingested[c] = {} THEN 0
                       ELSE CHOOSE b \in ingested[c] : \A d \in ingested[c] : d <= b]
        /\ scanned' = [c \in Clusters |-> IF c \notin C THEN 0
                         ELSE IF ingested[c] = {} THEN deployed[c] - 1
                         ELSE CHOOSE b \in ingested[c] : \A d \in ingested[c] : d <= b]

\* Mutant: a boot that failed while paging events publishes the head.
BootPublishesAnyway ==
    /\ proc = "down"
    /\ proc' = "up"
    /\ LET all == DeployedIn(0, head)
       IN  \/ /\ known' = all
              /\ BootIngest(all, head)
              /\ lastFactory' = head /\ lastIndexed' = head
              /\ UNCHANGED faults
           \/ /\ faults < MaxFaults
              /\ faults' = faults + 1
              /\ \E n \in 0 .. head : BootIngest(all, n)
              /\ known' = all
              /\ lastFactory' = head /\ lastIndexed' = head
           \/ /\ faults < MaxFaults
              /\ faults' = faults + 1
              /\ \E n \in 0 .. head : known' = DeployedIn(0, n) /\ BootIngest(DeployedIn(0, n), 0)
              /\ UNCHANGED <<lastFactory, lastIndexed>>
    /\ UNCHANGED <<chainVars, watchVars, discVars, missed>>

\* boot_catchup, before any other task runs: discover every cluster, then page
\* their events into the cache, then publish the head.  It may fail while paging
\* events or while discovering; the loops start all the same.
Boot ==
    /\ proc = "down"
    /\ proc' = "up"
    /\ LET all == DeployedIn(0, head)
       IN  \/ /\ known' = all
              /\ BootIngest(all, head)
              /\ lastFactory' = head /\ lastIndexed' = head
              /\ UNCHANGED faults
           \/ /\ faults < MaxFaults
              /\ faults' = faults + 1
              /\ \E n \in 0 .. head : BootIngest(all, n)
              /\ known' = all
              /\ lastFactory' = head
              /\ UNCHANGED lastIndexed
           \/ /\ faults < MaxFaults
              /\ faults' = faults + 1
              /\ \E n \in 0 .. head : known' = DeployedIn(0, n) /\ BootIngest(DeployedIn(0, n), 0)
              /\ UNCHANGED <<lastFactory, lastIndexed>>
    /\ UNCHANGED <<chainVars, watchVars, discVars, missed>>

-----------------------------------------------------------------------------
\* The chain has reached its bound and both loops have caught up with it.
Quiescent ==
    /\ head = MaxBlock /\ proc = "up"
    /\ wpc = "idle" /\ lastIndexed = head
    /\ dpc = "idle" /\ lastFactory = head
    /\ UNCHANGED vars

Watcher == WatchHead \/ WatchSnapshot \/ WatchIngest \/ WatchPublish
Discovery == \/ DiscoverTick \/ Hydrate \/ RecordKnown \/ RecordModel
             \/ HydrateIngest \/ HydrateDone \/ DiscoverDone

Next == \/ Mine \/ Boot \/ Watcher \/ Discovery
        \/ Crash \/ WatchFails \/ DiscoverFails \/ Quiescent

Spec == Init /\ [][Next]_vars

\* Both loops are tokio tasks that are scheduled again whenever they can run; a
\* crashed process is restarted.
LiveSpec == Spec /\ WF_vars(Boot) /\ WF_vars(Watcher) /\ WF_vars(Discovery)

-----------------------------------------------------------------------------
\* Every variable has its type.
TypeOK ==
    /\ head \in Nat
    /\ deployed \in [Clusters -> Nat]
    /\ regAt \in [Clusters -> Nat]
    /\ keyAt \in [Clusters -> SUBSET Nat]
    /\ proc \in {"down", "up"}
    /\ known \in SUBSET Clusters /\ cached \in SUBSET Clusters /\ modelled \in SUBSET Clusters
    /\ lastFactory \in Nat /\ lastIndexed \in Nat
    /\ timeline \in [Clusters -> SUBSET Nat]
    /\ shown \in [Clusters -> Nat]
    /\ scanned \in [Clusters -> Nat]
    /\ wpc \in {"idle", "head", "page"}
    /\ wHead \in Nat /\ wSet \in SUBSET Clusters /\ wIn \in Nat /\ wTo \in Nat
    /\ dpc \in {"idle", "scan", "record", "model", "ingest"}
    /\ dHead \in Nat /\ dTodo \in SUBSET Clusters /\ dCur \in SUBSET Clusters /\ dIn \in Nat
    /\ missed \in [Clusters -> SUBSET Nat]
    /\ faults \in Nat

\* The factory watermark never passes a deployment the Indexer does not follow:
\* a cluster whose hydration fails is found again by a later tick, since
\* last_factory_block moves only at the end of a complete one.
FactoryScanComplete ==
    \A c \in Clusters : deployed[c] # 0 /\ deployed[c] <= lastFactory
                          => c \in known /\ c \in modelled

\* A member whose registration the watermark has passed is in the member cache,
\* so its Subscribe is admitted, unless the log fell between the head a hydration
\* read and the first page the watcher polled for the cluster.
MembersCached ==
    \A c \in Clusters :
        regAt[c] # 0 /\ regAt[c] <= lastIndexed /\ regAt[c] \notin missed[c] => c \in cached

\* The claim of hydrate_discovered_cluster's comment: no member of a followed,
\* hydrated cluster is skipped.
NoMemberSkipped ==
    \A c \in known \ dCur : regAt[c] # 0 /\ regAt[c] <= lastIndexed => c \in cached

\* Every deployed cluster is eventually followed for good, whatever finite number
\* of crashes and RPC failures comes first.
EventuallyFollowed ==
    <>[](\A c \in Clusters : deployed[c] # 0 => c \in known /\ c \in modelled)
=============================================================================
