-------------------------- MODULE IndexerDelivery --------------------------
(***************************************************************************)
(* Event delivery from the Indexer to the sidecars of one cluster: the     *)
(* block watcher, the Subscribe handler (Hello, replay behind the delivery *)
(* gate, Acks), the durable cursor store, and the sidecar's subscription   *)
(* client.  A log is identified by its position <<block, logIndex>>; the   *)
(* logs a member must see are the set relevant[m].                         *)
(***************************************************************************)
EXTENDS Integers, Sequences

CONSTANTS
    Members,        \* members of the cluster (each runs one sidecar)
    Sessions,       \* ids of concurrently existing Subscribe streams
    RegBlock,       \* block of each member's MemberRegistered log (0: before the
                    \*   first block of the model)
    LogsPerBlock,   \* logs of one block have indices 0 .. LogsPerBlock - 1
    Batch,          \* BLOCK_BATCH_SIZE of the watcher
    Capacity,       \* SUBSCRIBER_CHANNEL_CAPACITY
    AckCapacity,    \* capacity of the client's outbound Ack channel
    MaxBlock,       \* bound: blocks mined
    MaxFaults,      \* bound: crashes, disconnects and RPC failures
    NoSession

ASSUME DeliveryAssumption ==
    /\ RegBlock \in [Members -> Nat]
    /\ LogsPerBlock \in Nat
    /\ Batch \in Nat \ {0}
    /\ Capacity \in Nat \ {0}
    /\ AckCapacity \in Nat \ {0}
    /\ MaxBlock \in Nat
    /\ MaxFaults \in Nat
    /\ NoSession \notin Sessions

VARIABLES
    head,           \* the chain's block number
    relevant,       \* [Members -> positions of the logs relevant to them]
    proc,           \* the Indexer process: "down" or "serving"
    lastIndexed,    \* IndexerState.last_indexed_block (volatile)
    ingested,       \* highest block ingested into the member cache (volatile)
    cursor,         \* cursor store as read by the process
    durable,        \* cursor store as it survives a crash (last sled flush)
    wpc,            \* watcher: "idle", "polled" or "dispatch"
    wHead,          \* head read at the start of the watcher's tick
    wTo,            \* last block of the watcher's current page
    wPos,           \* item of the page being dispatched
    wPend,          \* sessions of its snapshot that have not been sent it yet
    st,             \* session: "free", "read", "resolved", "replay", "live", "reaped"
    owner,          \* member that opened the session
    req,            \* from_block of the session's Hello
    latest,         \* last_indexed_block as read by the Subscribe handler
    rpos,           \* last position the session's replay has passed
    queue,          \* the session's bounded channel
    ovf,            \* sessions whose overflowed flag is set
    acks,           \* Acks in flight to the server
    cur,            \* client: its open session, or NoSession
    hand,           \* client: the envelope dispatched and not yet done with
    step,           \* client: what is left to do with it: "ack", "progress", "persist"
    last,           \* client: last_handled of this connection
    prog,           \* client: (cursor_block, cursor_log_index) in memory
    saved,          \* client: checkpoint persisted in the state directory
    handled,        \* history: positions whose dispatch completed
    floor,          \* history: position below which delivery was waived
    missed,         \* history: logs dispatched between a session's read of
                    \*   last_indexed_block and its registration
    faults          \* faults so far

chainVars   == <<head, relevant>>
storeVars   == <<cursor, durable>>
watchVars   == <<lastIndexed, ingested, wpc, wHead, wTo, wPos, wPend>>
sessVars    == <<st, owner, req, latest, rpos, queue, ovf, acks>>
clientVars  == <<cur, hand, step, last, prog, saved, handled>>
vars == <<chainVars, proc, storeVars, watchVars, sessVars, clientVars,
          floor, missed, faults>>

-----------------------------------------------------------------------------
(* Positions, ordered lexicographically like the derived Ord of Cursor.  A *)
(* checkpoint of block b has log index u64::MAX, here the first index no   *)
(* log has.  "No cursor" is <<0, 0>>: no log of the model is in block 0.    *)

Ck == LogsPerBlock
Position == Nat \X (0 .. Ck)
Log == (Nat \ {0}) \X (0 .. LogsPerBlock - 1)
NoPos == <<0, 0>>
BlockEnd(b) == <<b, Ck>>
BeforeBlock(b) == IF b = 0 THEN NoPos ELSE BlockEnd(b - 1)
IsCheckpoint(p) == p[2] = Ck

Lt(p, q) == p[1] < q[1] \/ (p[1] = q[1] /\ p[2] < q[2])
Leq(p, q) == p = q \/ Lt(p, q)
MaxPos(p, q) == IF Lt(p, q) THEN q ELSE p
Max2(a, b) == IF a < b THEN b ELSE a
Min2(a, b) == IF a < b THEN a ELSE b

\* Mutant: the page's checkpoint may go out ahead of the page's logs.
IsNextEarlyCheckpoint(R, p, b, n) ==
    \/ /\ n \in R
       /\ Lt(p, n)
       /\ n[1] <= b
       /\ \A e \in R : ~(Lt(p, e) /\ Lt(e, n))
    \/ n = BlockEnd(b)

\* n follows p in the page that ends with block b: the next log of R, or the
\* page's checkpoint when no log of R is left.
IsNext(R, p, b, n) ==
    \/ /\ n \in R
       /\ Lt(p, n)
       /\ n[1] <= b
       /\ \A e \in R : ~(Lt(p, e) /\ Lt(e, n))
    \/ /\ n = BlockEnd(b)
       /\ \A e \in R : ~(Lt(p, e) /\ e[1] <= b)

AllLogs == UNION {relevant[m] : m \in Members}
Registered(s) == st[s] \in {"replay", "live"}

-----------------------------------------------------------------------------
Init ==
    /\ head = 0
    /\ relevant = [m \in Members |-> {}]
    /\ proc = "serving"
    /\ lastIndexed = 0 /\ ingested = 0
    /\ cursor = [m \in Members |-> NoPos]
    /\ durable = [m \in Members |-> NoPos]
    /\ wpc = "idle" /\ wHead = 0 /\ wTo = 0 /\ wPos = NoPos /\ wPend = {}
    /\ st = [s \in Sessions |-> "free"]
    /\ owner \in [Sessions -> Members]
    /\ req = [s \in Sessions |-> 0]
    /\ latest = [s \in Sessions |-> 0]
    /\ rpos = [s \in Sessions |-> NoPos]
    /\ queue = [s \in Sessions |-> <<>>]
    /\ ovf = {}
    /\ acks = [s \in Sessions |-> <<>>]
    /\ cur = [m \in Members |-> NoSession]
    /\ hand = [m \in Members |-> NoPos]
    /\ step = [m \in Members |-> "ack"]
    /\ last = [m \in Members |-> NoPos]
    /\ prog = [m \in Members |-> NoPos]
    /\ saved = [m \in Members |-> NoPos]
    /\ handled = [m \in Members |-> {}]
    /\ floor = [m \in Members |-> NoPos]
    /\ missed = [m \in Members |-> {}]
    /\ faults = 0

-----------------------------------------------------------------------------
(* The chain.  Each member's relevant logs of the new block are a subset   *)
(* of its log indices: MessageSent goes to its recipient, every other      *)
(* event to all members.  Logs before its registration are not counted.    *)

Mine ==
    /\ head < MaxBlock
    /\ head' = head + 1
    /\ \E c \in [Members -> SUBSET (0 .. LogsPerBlock - 1)] :
         /\ \A m \in Members : head + 1 < RegBlock[m] => c[m] = {}
         /\ relevant' = [m \in Members |->
                           relevant[m] \cup {<<head + 1, i>> : i \in c[m]}]
    /\ UNCHANGED <<proc, storeVars, watchVars, sessVars, clientVars,
                   floor, missed, faults>>

-----------------------------------------------------------------------------
(* The block watcher: watch_tick and dispatch.                             *)

\* Read head and the watermark, poll the first page, ingest it.  The snapshot of
\* known_clusters() that the tick also takes always holds the one cluster of this
\* module, which boot_catchup recorded; ClusterDiscovery models a snapshot that lacks
\* a cluster.
WatchTick ==
    /\ proc = "serving"
    /\ wpc = "idle"
    /\ lastIndexed < head
    /\ wHead' = head
    /\ wTo' = Min2(lastIndexed + Batch, head)
    /\ ingested' = Max2(ingested, wTo')
    /\ wpc' = "polled"
    /\ UNCHANGED <<chainVars, proc, storeVars, lastIndexed, wPos, wPend,
                   sessVars, clientVars, floor, missed, faults>>

\* The watermark is published before any of the page's logs is delivered.
Publish ==
    /\ wpc = "polled"
    /\ lastIndexed' = wTo
    /\ wPos' = BlockEnd(lastIndexed)
    /\ wpc' = "dispatch"
    /\ UNCHANGED <<chainVars, proc, storeVars, ingested, wHead, wTo, wPend,
                   sessVars, clientVars, floor, missed, faults>>

\* Take the page's next item (its checkpoint last) and snapshot the sessions
\* it is for.  A session that has read the watermark below this log and is
\* not registered yet is in neither its replay nor this snapshot.
DispatchItem ==
    /\ wpc = "dispatch"
    /\ wPend = {}
    /\ wPos # BlockEnd(wTo)
    /\ \E n \in AllLogs \cup {BlockEnd(wTo)} :
         /\ IsNext(AllLogs, wPos, wTo, n)
         /\ wPos' = n
         /\ wPend' = {s \in Sessions : /\ Registered(s)
                                       /\ IsCheckpoint(n) \/ n \in relevant[owner[s]]}
         /\ missed' = [m \in Members |->
              IF \E s \in Sessions : /\ owner[s] = m
                                     /\ st[s] \in {"read", "resolved"}
                                     /\ latest[s] < n[1]
                                     /\ n \in relevant[m]
              THEN missed[m] \cup {n} ELSE missed[m]]
    /\ UNCHANGED <<chainVars, proc, storeVars, lastIndexed, ingested, wpc, wHead,
                   wTo, sessVars, clientVars, floor, faults>>

\* Mutant: a full channel drops the item without ending the session.
SendLiveDropsSilently(s) ==
    /\ wpc = "dispatch"
    /\ s \in wPend
    /\ st[s] # "replay"
    /\ wPend' = wPend \ {s}
    /\ queue' = IF s \in ovf \/ Len(queue[s]) >= Capacity THEN queue
                ELSE [queue EXCEPT ![s] = Append(@, wPos)]
    /\ UNCHANGED <<chainVars, proc, storeVars, lastIndexed, ingested, wpc, wHead, wTo,
                   wPos, st, owner, req, latest, rpos, ovf, acks, clientVars,
                   floor, missed, faults>>

\* Mutant: live delivery does not wait for the session's replay.
SendLiveIgnoresGate(s) ==
    /\ wpc = "dispatch"
    /\ s \in wPend
    /\ wPend' = wPend \ {s}
    /\ IF s \in ovf \/ Len(queue[s]) >= Capacity
       THEN /\ ovf' = ovf \cup {s}
            /\ UNCHANGED queue
       ELSE /\ queue' = [queue EXCEPT ![s] = Append(@, wPos)]
            /\ UNCHANGED ovf
    /\ UNCHANGED <<chainVars, proc, storeVars, lastIndexed, ingested, wpc, wHead, wTo,
                   wPos, st, owner, req, latest, rpos, acks, clientVars,
                   floor, missed, faults>>

\* send_live: wait for the delivery gate, then try_send.  A full channel marks
\* the session overflowed, a closed or overflowed one drops the item.
SendLive(s) ==
    /\ wpc = "dispatch"
    /\ s \in wPend
    /\ st[s] # "replay"
    /\ wPend' = wPend \ {s}
    /\ IF s \in ovf \/ Len(queue[s]) >= Capacity
       THEN /\ ovf' = ovf \cup {s}
            /\ UNCHANGED queue
       ELSE /\ queue' = [queue EXCEPT ![s] = Append(@, wPos)]
            /\ UNCHANGED ovf
    /\ UNCHANGED <<chainVars, proc, storeVars, lastIndexed, ingested, wpc, wHead, wTo,
                   wPos, st, owner, req, latest, rpos, acks, clientVars,
                   floor, missed, faults>>

\* The page's checkpoint is out: poll the next page, or end the tick.
PageDone ==
    /\ wpc = "dispatch"
    /\ wPend = {}
    /\ wPos = BlockEnd(wTo)
    /\ IF wTo < wHead
       THEN /\ wTo' = Min2(wTo + Batch, wHead)
            /\ ingested' = Max2(ingested, wTo')
            /\ wpc' = "polled"
            /\ UNCHANGED <<wHead, wPos>>
       ELSE /\ wpc' = "idle" /\ wHead' = 0 /\ wTo' = 0 /\ wPos' = NoPos
            /\ UNCHANGED ingested
    /\ UNCHANGED <<chainVars, proc, storeVars, lastIndexed, wPend,
                   sessVars, clientVars, floor, missed, faults>>

\* poll_cluster_logs of a later page fails: the tick ends with the watermark
\* where the previous page left it.
PollFails ==
    /\ wpc = "dispatch"
    /\ wPend = {}
    /\ wPos = BlockEnd(wTo)
    /\ wTo < wHead
    /\ faults < MaxFaults
    /\ faults' = faults + 1
    /\ wpc' = "idle" /\ wHead' = 0 /\ wTo' = 0 /\ wPos' = NoPos
    /\ UNCHANGED <<chainVars, proc, storeVars, lastIndexed, ingested,
                   wPend, sessVars, clientVars, floor, missed>>

-----------------------------------------------------------------------------
(* The Subscribe handler.                                                  *)

\* Mutant: the replay range ends one block early, below zero on an empty index.
SubscribeBehindHead(m, s) ==
    /\ proc = "serving"
    /\ cur[m] = NoSession /\ hand[m] = NoPos
    /\ st[s] = "free"
    /\ RegBlock[m] <= ingested
    /\ st' = [st EXCEPT ![s] = "read"]
    /\ owner' = [owner EXCEPT ![s] = m]
    /\ req' = [req EXCEPT ![s] = prog[m][1]]
    /\ latest' = [latest EXCEPT ![s] = lastIndexed - 1]
    /\ cur' = [cur EXCEPT ![m] = s]
    /\ UNCHANGED <<chainVars, proc, storeVars, watchVars, rpos, queue, ovf, acks,
                   hand, step, last, prog, saved, handled, floor, missed, faults>>

\* Hello from a member the cache knows; the handler reads last_indexed_block.
\* (An unknown member gets not_found and changes nothing.)
Subscribe(m, s) ==
    /\ proc = "serving"
    /\ cur[m] = NoSession /\ hand[m] = NoPos
    /\ st[s] = "free"
    /\ RegBlock[m] <= ingested
    /\ st' = [st EXCEPT ![s] = "read"]
    /\ owner' = [owner EXCEPT ![s] = m]
    /\ req' = [req EXCEPT ![s] = prog[m][1]]
    /\ latest' = [latest EXCEPT ![s] = lastIndexed]
    /\ cur' = [cur EXCEPT ![m] = s]
    /\ UNCHANGED <<chainVars, proc, storeVars, watchVars, rpos, queue, ovf, acks,
                   hand, step, last, prog, saved, handled, floor, missed, faults>>

\* replay_start, as the last position before the first block to replay.
ReplayFrom(m, requested, persisted) ==
    LET first == IF requested = 0 THEN RegBlock[m] ELSE Max2(requested, RegBlock[m])
    IN  MaxPos(BeforeBlock(first), persisted)

\* initialize_at_head
InitializeAtHead(requested, persisted) == requested = 0 /\ persisted = NoPos

\* Load the persisted cursor, or initialise it at the indexed head (flushed).
Resolve(s) ==
    /\ st[s] = "read"
    /\ LET m == owner[s]
           baseline == BlockEnd(Max2(latest[s], RegBlock[m]))
       IN  IF InitializeAtHead(req[s], cursor[m])
           THEN /\ cursor' = [cursor EXCEPT ![m] = baseline]
                /\ durable' = cursor'
                /\ floor' = [floor EXCEPT ![m] = MaxPos(@, baseline)]
                /\ rpos' = [rpos EXCEPT ![s] = ReplayFrom(m, req[s], baseline)]
           ELSE /\ rpos' = [rpos EXCEPT ![s] = ReplayFrom(m, req[s], cursor[m])]
                /\ UNCHANGED <<cursor, durable, floor>>
    /\ st' = [st EXCEPT ![s] = "resolved"]
    /\ req' = [req EXCEPT ![s] = 0]
    /\ UNCHANGED <<chainVars, proc, watchVars, owner, latest, queue, ovf,
                   acks, clientVars, missed, faults>>

\* Take the delivery gate and enter the registry.
Register(s) ==
    /\ st[s] = "resolved"
    /\ st' = [st EXCEPT ![s] = "replay"]
    /\ UNCHANGED <<chainVars, proc, storeVars, watchVars, owner, req, latest, rpos,
                   queue, ovf, acks, clientVars, floor, missed, faults>>

\* The replay task queues the next relevant log up to `latest`, waiting for
\* capacity; after the checkpoint of `latest` it drops the gate.
ReplaySend(s) ==
    /\ st[s] = "replay"
    /\ Len(queue[s]) < Capacity
    /\ \E n \in relevant[owner[s]] \cup {BlockEnd(latest[s])} :
         /\ IsNext(relevant[owner[s]], rpos[s], latest[s], n)
         /\ queue' = [queue EXCEPT ![s] = Append(@, n)]
         /\ IF n = BlockEnd(latest[s])
            THEN st' = [st EXCEPT ![s] = "live"] /\ rpos' = [rpos EXCEPT ![s] = NoPos]
            ELSE rpos' = [rpos EXCEPT ![s] = n] /\ UNCHANGED st
    /\ UNCHANGED <<chainVars, proc, storeVars, watchVars, owner, req, latest, ovf,
                   acks, clientVars, floor, missed, faults>>

\* Mutant: a failed replay opens the gate without aborting the session.
ReplayFailsQuietly(s) ==
    /\ st[s] = "replay"
    /\ faults < MaxFaults
    /\ \E n \in relevant[owner[s]] \cup {BlockEnd(latest[s])} :
         IsNext(relevant[owner[s]], rpos[s], latest[s], n) /\ n[1] > rpos[s][1]
    /\ faults' = faults + 1
    /\ st' = [st EXCEPT ![s] = "live"]
    /\ rpos' = [rpos EXCEPT ![s] = NoPos]
    /\ UNCHANGED <<chainVars, proc, storeVars, watchVars, owner, req, latest,
                   queue, ovf, acks, clientVars, floor, missed>>

\* A replay page's getLogs fails at a block boundary: abort() the session.
ReplayFails(s) ==
    /\ st[s] = "replay"
    /\ faults < MaxFaults
    /\ \E n \in relevant[owner[s]] \cup {BlockEnd(latest[s])} :
         IsNext(relevant[owner[s]], rpos[s], latest[s], n) /\ n[1] > rpos[s][1]
    /\ faults' = faults + 1
    /\ ovf' = ovf \cup {s}
    /\ st' = [st EXCEPT ![s] = "live"]
    /\ rpos' = [rpos EXCEPT ![s] = NoPos]
    /\ UNCHANGED <<chainVars, proc, storeVars, watchVars, owner, req, latest,
                   queue, acks, clientVars, floor, missed>>

\* Mutant: the store takes an Ack's cursor as it comes.
ServerAckOverwrites(s) ==
    /\ st[s] \in {"replay", "live", "reaped"}
    /\ acks[s] # <<>>
    /\ LET p == Head(acks[s])
       IN  /\ cursor' = [cursor EXCEPT ![owner[s]] = p]
           /\ durable' = IF IsCheckpoint(p) THEN cursor' ELSE durable
    /\ acks' = [acks EXCEPT ![s] = Tail(@)]
    /\ UNCHANGED <<chainVars, proc, watchVars, st, owner, req, latest, rpos, queue,
                   ovf, clientVars, floor, missed, faults>>

\* The Ack task: the monotone cursor advance, flushed for a checkpoint.
ServerAck(s) ==
    /\ st[s] \in {"replay", "live", "reaped"}
    /\ acks[s] # <<>>
    /\ LET p == Head(acks[s])
       IN  /\ cursor' = [cursor EXCEPT ![owner[s]] = MaxPos(@, p)]
           /\ durable' = IF IsCheckpoint(p) THEN cursor' ELSE durable
    /\ acks' = [acks EXCEPT ![s] = Tail(@)]
    /\ UNCHANGED <<chainVars, proc, watchVars, st, owner, req, latest, rpos, queue,
                   ovf, clientVars, floor, missed, faults>>

\* The inbound stream ended: Acks still in flight are lost, the session leaves
\* the registry, the replay task and a waiting send_live see a closed channel,
\* and the store is flushed.  Before registration the handler is just dropped.
EndSession(s) ==
    /\ st[s] # "free"
    /\ \A m \in Members : cur[m] # s
    /\ durable' = IF st[s] \in {"read", "resolved"} THEN durable ELSE cursor
    /\ st' = [st EXCEPT ![s] = "free"]
    /\ queue' = [queue EXCEPT ![s] = <<>>]
    /\ acks' = [acks EXCEPT ![s] = <<>>]
    /\ ovf' = ovf \ {s}
    /\ req' = [req EXCEPT ![s] = 0]
    /\ latest' = [latest EXCEPT ![s] = 0]
    /\ rpos' = [rpos EXCEPT ![s] = NoPos]
    /\ wPend' = wPend \ {s}
    /\ UNCHANGED <<chainVars, proc, cursor, lastIndexed, ingested, wpc, wHead, wTo,
                   wPos, owner, clientVars, floor, missed, faults>>

\* Housekeeping: reap_closed drops overflowed sessions from the registry.
Reap(s) ==
    /\ st[s] = "live"
    /\ s \in ovf
    /\ st' = [st EXCEPT ![s] = "reaped"]
    /\ UNCHANGED <<chainVars, proc, storeVars, watchVars, owner, req, latest, rpos,
                   queue, ovf, acks, clientVars, floor, missed, faults>>

\* sled's periodic background flush.
Flush ==
    /\ durable # cursor
    /\ durable' = cursor
    /\ UNCHANGED <<chainVars, proc, cursor, watchVars, sessVars, clientVars,
                   floor, missed, faults>>

-----------------------------------------------------------------------------
(* The sidecar's client: connect_and_run inside indexer_loop.              *)

\* Take an envelope off the stream; dispatch it and wait for completion unless
\* it is a checkpoint or a duplicate of this connection.
Handle(m) ==
    /\ cur[m] # NoSession
    /\ hand[m] = NoPos
    /\ queue[cur[m]] # <<>>
    /\ LET p == Head(queue[cur[m]])
       IN  /\ hand' = [hand EXCEPT ![m] = p]
           /\ handled' = IF IsCheckpoint(p) \/ Leq(p, last[m]) THEN handled
                         ELSE [handled EXCEPT ![m] = @ \cup {p}]
    /\ queue' = [queue EXCEPT ![cur[m]] = Tail(@)]
    /\ UNCHANGED <<chainVars, proc, storeVars, watchVars, st, owner, req, latest,
                   rpos, ovf, acks, cur, step, last, prog, saved, floor, missed, faults>>

\* Queue the Ack for the server and move last_handled.
Ack(m) ==
    /\ cur[m] # NoSession
    /\ hand[m] # NoPos /\ step[m] = "ack"
    /\ Len(acks[cur[m]]) < AckCapacity
    /\ acks' = [acks EXCEPT ![cur[m]] = Append(@, hand[m])]
    /\ last' = [last EXCEPT ![m] = MaxPos(@, hand[m])]
    /\ step' = [step EXCEPT ![m] = "progress"]
    /\ UNCHANGED <<chainVars, proc, storeVars, watchVars, st, owner, req, latest,
                   rpos, queue, ovf, cur, hand, prog, saved, handled, floor,
                   missed, faults>>

\* set_indexer_progress; an envelope that is no checkpoint is done with.
Progress(m) ==
    /\ step[m] = "progress"
    /\ prog' = [prog EXCEPT ![m] = MaxPos(@, hand[m])]
    /\ IF IsCheckpoint(hand[m])
       THEN step' = [step EXCEPT ![m] = "persist"] /\ UNCHANGED hand
       ELSE /\ step' = [step EXCEPT ![m] = "ack"]
            /\ hand' = [hand EXCEPT ![m] = NoPos]
    /\ UNCHANGED <<chainVars, proc, storeVars, watchVars, sessVars, cur, last,
                   saved, handled, floor, missed, faults>>

\* store_checkpoint of the progress in memory; a failed write is only logged.
Persist(m) ==
    /\ step[m] = "persist"
    /\ \/ saved' = [saved EXCEPT ![m] = prog[m]] /\ UNCHANGED faults
       \/ /\ faults < MaxFaults
          /\ faults' = faults + 1
          /\ UNCHANGED saved
    /\ step' = [step EXCEPT ![m] = "ack"]
    /\ hand' = [hand EXCEPT ![m] = NoPos]
    /\ UNCHANGED <<chainVars, proc, storeVars, watchVars, sessVars, cur, last,
                   prog, handled, floor, missed>>

\* The end of the stream is met at the next read or at the Ack: an envelope that
\* was Ack'd is finished first.
Dropped(m) == IF step[m] = "ack" THEN NoPos ELSE hand[m]

\* The terminal resource_exhausted status ends connect_and_run.
SeeOverflow(m) ==
    /\ cur[m] # NoSession
    /\ cur[m] \in ovf
    /\ cur' = [cur EXCEPT ![m] = NoSession]
    /\ hand' = [hand EXCEPT ![m] = Dropped(m)]
    /\ last' = [last EXCEPT ![m] = NoPos]
    /\ UNCHANGED <<chainVars, proc, storeVars, watchVars, sessVars, step, prog,
                   saved, handled, floor, missed, faults>>

\* A network failure or a failed dispatch ends connect_and_run.
Disconnect(m) ==
    /\ cur[m] # NoSession
    /\ faults < MaxFaults
    /\ faults' = faults + 1
    /\ cur' = [cur EXCEPT ![m] = NoSession]
    /\ hand' = [hand EXCEPT ![m] = Dropped(m)]
    /\ last' = [last EXCEPT ![m] = NoPos]
    /\ UNCHANGED <<chainVars, proc, storeVars, watchVars, sessVars, step, prog,
                   saved, handled, floor, missed>>

\* The sidecar restarts and loads its persisted checkpoint.
SidecarRestart(m) ==
    /\ faults < MaxFaults
    /\ faults' = faults + 1
    /\ cur' = [cur EXCEPT ![m] = NoSession]
    /\ hand' = [hand EXCEPT ![m] = NoPos]
    /\ last' = [last EXCEPT ![m] = NoPos]
    /\ prog' = [prog EXCEPT ![m] = saved[m]]
    /\ step' = [step EXCEPT ![m] = "ack"]
    /\ UNCHANGED <<chainVars, proc, storeVars, watchVars, sessVars,
                   saved, handled, floor, missed>>

-----------------------------------------------------------------------------
(* The Indexer process crashes: every stream breaks, the cursor store is   *)
(* what was flushed.                                                       *)

IndexerCrash ==
    /\ proc = "serving"
    /\ faults < MaxFaults
    /\ faults' = faults + 1
    /\ proc' = "down"
    /\ lastIndexed' = 0 /\ ingested' = 0
    /\ cursor' = durable
    /\ wpc' = "idle" /\ wHead' = 0 /\ wTo' = 0 /\ wPos' = NoPos /\ wPend' = {}
    /\ st' = [s \in Sessions |-> "free"]
    /\ queue' = [s \in Sessions |-> <<>>]
    /\ acks' = [s \in Sessions |-> <<>>]
    /\ ovf' = {}
    /\ req' = [s \in Sessions |-> 0]
    /\ latest' = [s \in Sessions |-> 0]
    /\ rpos' = [s \in Sessions |-> NoPos]
    /\ cur' = [m \in Members |-> NoSession]
    /\ hand' = [m \in Members |-> Dropped(m)]
    /\ last' = [m \in Members |-> NoPos]
    /\ UNCHANGED <<chainVars, durable, owner, step, prog, saved, handled, floor, missed>>

\* boot_catchup: page the whole history into the member cache, then publish the
\* head.  If an RPC fails midway the loops start with a zero watermark.
Boot ==
    /\ proc = "down"
    /\ proc' = "serving"
    /\ \/ ingested' = head /\ lastIndexed' = head /\ UNCHANGED faults
       \/ /\ faults < MaxFaults
          /\ faults' = faults + 1
          /\ ingested' \in 0 .. head
          /\ UNCHANGED lastIndexed
    /\ UNCHANGED <<chainVars, storeVars, wpc, wHead, wTo, wPos, wPend, sessVars,
                   clientVars, floor, missed>>

-----------------------------------------------------------------------------
\* Everything mined has been indexed, delivered and Ack'd: the bounded run ends.
Quiescent ==
    /\ head = MaxBlock
    /\ proc = "serving" /\ wpc = "idle" /\ lastIndexed = head
    /\ durable = cursor
    /\ \A s \in Sessions : st[s] = "live" => queue[s] = <<>> /\ acks[s] = <<>> /\ s \notin ovf
    /\ \A m \in Members :
         \/ cur[m] # NoSession /\ st[cur[m]] = "live" /\ hand[m] = NoPos
         \/ RegBlock[m] > ingested
    /\ UNCHANGED vars

ServerStep(s) ==
    \/ SendLive(s) \/ Resolve(s) \/ Register(s) \/ ReplaySend(s)
    \/ ServerAck(s) \/ EndSession(s) \/ Reap(s)
ClientStep(m) ==
    \/ \E s \in Sessions : Subscribe(m, s)
    \/ Handle(m) \/ Ack(m) \/ Progress(m) \/ Persist(m) \/ SeeOverflow(m)
WatcherStep == WatchTick \/ Publish \/ DispatchItem \/ PageDone
Fault ==
    \/ PollFails \/ IndexerCrash
    \/ \E s \in Sessions : ReplayFails(s)
    \/ \E m \in Members : Disconnect(m) \/ SidecarRestart(m)

Next ==
    \/ Mine \/ WatcherStep \/ Flush \/ Boot \/ Fault
    \/ \E s \in Sessions : ServerStep(s)
    \/ \E m \in Members : ClientStep(m)
    \/ Quiescent

Spec == Init /\ [][Next]_vars

-----------------------------------------------------------------------------
(* Fairness: the watcher, every session's tasks and the client loop are    *)
(* tokio tasks that keep being scheduled; a restarted process boots.       *)

ServerFairness ==
    /\ WF_vars(WatcherStep) /\ WF_vars(Boot) /\ WF_vars(Flush)
    /\ \A s \in Sessions : /\ WF_vars(SendLive(s))
                           /\ WF_vars(Resolve(s) \/ Register(s) \/ ReplaySend(s))
                           /\ WF_vars(ServerAck(s))
                           /\ WF_vars(EndSession(s))
                           /\ WF_vars(Reap(s))
ClientFairness(m) == WF_vars(ClientStep(m))

LiveSpec == Spec /\ ServerFairness /\ \A m \in Members : ClientFairness(m)

-----------------------------------------------------------------------------
\* Every variable has its type.
TypeOK ==
    /\ head \in Nat
    /\ relevant \in [Members -> SUBSET Log]
    /\ proc \in {"down", "serving"}
    /\ lastIndexed \in Nat /\ ingested \in Nat
    /\ cursor \in [Members -> Position]
    /\ durable \in [Members -> Position]
    /\ wpc \in {"idle", "polled", "dispatch"}
    /\ wHead \in Nat /\ wTo \in Nat
    /\ wPos \in Position
    /\ wPend \in SUBSET Sessions
    /\ st \in [Sessions -> {"free", "read", "resolved", "replay", "live", "reaped"}]
    /\ owner \in [Sessions -> Members]
    /\ req \in [Sessions -> Nat]
    /\ latest \in [Sessions -> Nat]
    /\ rpos \in [Sessions -> Position]
    /\ queue \in [Sessions -> Seq(Position)]
    /\ ovf \in SUBSET Sessions
    /\ acks \in [Sessions -> Seq(Position)]
    /\ cur \in [Members -> Sessions \cup {NoSession}]
    /\ hand \in [Members -> Position]
    /\ step \in [Members -> {"ack", "progress", "persist"}]
    /\ last \in [Members -> Position]
    /\ prog \in [Members -> Position]
    /\ saved \in [Members -> Position]
    /\ handled \in [Members -> SUBSET Position]
    /\ floor \in [Members -> Position]
    /\ missed \in [Members -> SUBSET Position]
    /\ faults \in Nat

\* A log is settled for m when its dispatch completed, when it lies below the
\* position m's delivery was initialised at, or when it fell in the window
\* between a Subscribe's read of last_indexed_block and its registration.
Settled(m, e) == e \in handled[m] \cup missed[m] \/ Leq(e, floor[m])

\* Every log relevant to m up to p is settled.
Covered(m, p) == \A e \in relevant[m] : Leq(e, p) => Settled(m, e)

\* The cursor the Indexer resumes a member from, in memory and on disk, never
\* passes a log its sidecar has not finished handling, across overflows,
\* crashes, lost and late Acks; the read-then-register window of Subscribe is
\* the only exception.
CursorPassesOnlyHandled ==
    \A m \in Members : Covered(m, cursor[m]) /\ Covered(m, durable[m])

\* The same of the sidecar's own cursor, which becomes the from_block of its
\* next Hello, and of its persisted copy.
ClientCursorPassesOnlyHandled ==
    \A m \in Members : Covered(m, prog[m]) /\ Covered(m, saved[m])

\* Live delivery never overtakes the replay: a sidecar handles a log only after
\* every earlier log relevant to it is settled.
HandledInChainOrder ==
    [][\A m \in Members : \A e \in handled'[m] \ handled[m] :
          \A d \in relevant[m] : Lt(d, e) => Settled(m, d)']_vars

\* A flushed cursor is never rewound, neither by a late Ack of an old session
\* nor by a restart.
DurableCursorMonotone ==
    [][\A m \in Members : Leq(durable[m], durable'[m])]_vars

\* The claim the code's comments make without exception: no cursor passes a log
\* that was owed to the member and not handled.
NoMissedPrefix ==
    \A m \in Members : \A e \in relevant[m] :
        Leq(e, durable[m]) /\ Lt(floor[m], e) => e \in handled[m]

\* Every log relevant to a member is eventually settled, whatever finite number
\* of crashes, disconnects and overflows happens on the way.
EventuallySettled ==
    \A m \in Members : \A e \in (1 .. MaxBlock) \X (0 .. LogsPerBlock - 1) :
        (e \in relevant[m]) ~> Settled(m, e)

\* The watcher always gets back to its next tick.
WatcherReturns == []<>(wpc = "idle")
=============================================================================
