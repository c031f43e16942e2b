---------------------------- MODULE CskLifecycle ----------------------------
(***************************************************************************)
(* The cluster shared key: how the originator derives and commits it and   *)
(* how every other sidecar obtains it (csk_loop with csk_once, the peer    *)
(* pull, the peer-control server and the encrypted cache), across crashes, *)
(* lost disks, failed probes, lagging RPC nodes and operations that land   *)
(* late.  The key a node would derive is named by the node; keccak256 is   *)
(* injective, so a commitment is named by its key.  Cache encryption and   *)
(* sealing are left out: both ends have the keys they need.                *)
(***************************************************************************)
EXTENDS Integers, Sequences, FiniteSets

CONSTANTS
    Nodes,          \* sidecars, each with its member contract
    Faulty,         \* nodes whose answers to a pull may be any key
    Retired,        \* nodes that may stay away after a crash
    Parallelism,    \* CSK_PULL_PARALLELISM
    KmsErrors,      \* whether the guest agent may fail while the cache is opened
    MaxFaults,      \* bound: crashes, lost disks, failed calls, lagging reads
    MaxReverts,     \* bound: user operations included with a failed inner call
    NoNode

ASSUME CskAssumption ==
    /\ NoNode \notin Nodes
    /\ Faulty \subseteq Nodes /\ Retired \subseteq Nodes
    /\ Parallelism \in Nat \ {0} /\ KmsErrors \in BOOLEAN
    /\ MaxFaults \in Nat /\ MaxReverts \in Nat

VARIABLES
    members,        \* listMembers, in registration order
    commitment,     \* cskCommitment
    mempool,        \* nodes whose setCskCommitment operation waits at the bundler
    included,       \* nodes whose operation has a receipt
    up,             \* running sidecars
    disk,           \* csk.v1, the encrypted cache
    held,           \* Shared.csk (with the csk_acquired gate)
    orig,           \* Shared.originator_member_id
    peers,          \* configured peers of the peer table
    pc,             \* csk_loop: "idle", "read", "missed", "submit", "pull", "store", "hold", "done"
    seen,           \* commitment this pass has read
    checked,        \* cache_checked_for
    fresh,          \* key about to be stored and held
    todo,           \* candidates not yet asked
    asked,          \* probes without an answer
    answers,        \* answered probes <<peer, key or NoNode>> not yet joined
    faults, reverts

chainVars == <<members, commitment, mempool, included>>
passVars  == <<seen, checked, fresh, todo, asked, answers>>
cskVars == <<chainVars, up, disk, held, orig, peers, pc, passVars, faults, reverts>>

Fault == faults < MaxFaults /\ faults' = faults + 1
Members == {members[i] : i \in DOMAIN members}
First == IF members = <<>> THEN NoNode ELSE members[1]

CskInit ==
    /\ members = <<>> /\ commitment = NoNode /\ mempool = {} /\ included = {}
    /\ up = {} /\ disk = [n \in Nodes |-> NoNode]
    /\ held = [n \in Nodes |-> NoNode] /\ orig = [n \in Nodes |-> NoNode]
    /\ peers = [n \in Nodes |-> {}]
    /\ pc = [n \in Nodes |-> "idle"]
    /\ seen = [n \in Nodes |-> NoNode] /\ checked = [n \in Nodes |-> NoNode]
    /\ fresh = [n \in Nodes |-> NoNode]
    /\ todo = [n \in Nodes |-> {}] /\ asked = [n \in Nodes |-> {}]
    /\ answers = [n \in Nodes |-> {}]
    /\ faults = 0 /\ reverts = 0

-----------------------------------------------------------------------------
\* dstack_register confirms and bring-up starts the loops.
Register(n) ==
    /\ n \notin Members
    /\ members' = Append(members, n)
    /\ up' = up \cup {n}
    /\ UNCHANGED <<commitment, mempool, included, disk, held, orig, peers, pc, passVars,
                   faults, reverts>>

\* The process dies; its probes and the ones it was serving fail.
Crash(n) ==
    /\ n \in up
    /\ Fault
    /\ up' = up \ {n}
    /\ held' = [held EXCEPT ![n] = NoNode]
    /\ orig' = [orig EXCEPT ![n] = NoNode]
    /\ peers' = [peers EXCEPT ![n] = {}]
    /\ pc' = [pc EXCEPT ![n] = "idle"]
    /\ seen' = [seen EXCEPT ![n] = NoNode]
    /\ checked' = [checked EXCEPT ![n] = NoNode]
    /\ fresh' = [fresh EXCEPT ![n] = NoNode]
    /\ todo' = [todo EXCEPT ![n] = {}]
    /\ asked' = [m \in Nodes |-> IF m = n THEN {} ELSE asked[m] \ {n}]
    /\ answers' = [m \in Nodes |-> IF m = n THEN {}
                                   ELSE IF n \in asked[m] THEN answers[m] \cup {<<n, NoNode>>}
                                   ELSE answers[m]]
    /\ UNCHANGED <<chainVars, disk, reverts>>

Restart(n) ==
    /\ n \in Members /\ n \notin up
    /\ up' = up \cup {n}
    /\ UNCHANGED <<chainVars, disk, held, orig, peers, pc, passVars, faults, reverts>>

\* The node is recreated on an empty state volume.
LoseDisk(n) ==
    /\ n \notin up /\ disk[n] # NoNode
    /\ Fault
    /\ disk' = [disk EXCEPT ![n] = NoNode]
    /\ UNCHANGED <<chainVars, up, held, orig, peers, pc, passVars, reverts>>

\* reconcile_once learns the originator and configures a peer.
Reconcile(n, p) ==
    /\ n \in up /\ p \in Members \ {n} /\ p \notin peers[n]
    /\ orig' = [orig EXCEPT ![n] = First]
    /\ peers' = [peers EXCEPT ![n] = @ \cup {p}]
    /\ UNCHANGED <<chainVars, up, disk, held, pc, passVars, faults, reverts>>

-----------------------------------------------------------------------------
(* csk_once.                                                               *)

ReadCommitment(n) ==
    /\ n \in up /\ pc[n] = "idle"
    /\ seen' = [seen EXCEPT ![n] = commitment]
    /\ pc' = [pc EXCEPT ![n] = "read"]
    /\ UNCHANGED <<chainVars, up, disk, held, orig, peers, checked, fresh, todo, asked, answers,
                   faults, reverts>>

\* The RPC node answers from a state before the commitment.
ReadLags(n) ==
    /\ n \in up /\ pc[n] = "idle"
    /\ commitment # NoNode
    /\ Fault
    /\ seen' = [seen EXCEPT ![n] = NoNode]
    /\ pc' = [pc EXCEPT ![n] = "read"]
    /\ UNCHANGED <<chainVars, up, disk, held, orig, peers, checked, fresh, todo, asked, answers,
                   reverts>>

\* Mutant: the position in the list is cached, not the member.
ResolveOriginatorIndex(n) ==
    orig' = [orig EXCEPT ![n] = IF @ # NoNode THEN @ ELSE 1]

\* resolve_originator: cached, or the first of listMembers, which is then cached.
ResolveOriginator(n) ==
    orig' = [orig EXCEPT ![n] = IF @ # NoNode THEN @ ELSE First]

\* Nothing is committed and another node has to do it: the pass ends.
AwaitOriginator(n) ==
    /\ pc[n] = "read" /\ seen[n] = NoNode
    /\ ResolveOriginator(n)
    /\ orig'[n] # n
    /\ pc' = [pc EXCEPT ![n] = "idle"]
    /\ UNCHANGED <<chainVars, up, disk, held, peers, passVars, faults, reverts>>

\* Mutant: whoever sees no commitment originates.
SubmitWhoever(n) ==
    /\ pc[n] = "read" /\ seen[n] = NoNode
    /\ ResolveOriginator(n)
    /\ mempool' = mempool \cup {n}
    /\ included' = included \ {n}
    /\ pc' = [pc EXCEPT ![n] = "submit"]
    /\ UNCHANGED <<members, commitment, up, disk, held, peers, passVars, faults, reverts>>

\* The originator derives its key and submits setCskCommitment.
Submit(n) ==
    /\ pc[n] = "read" /\ seen[n] = NoNode
    /\ ResolveOriginator(n)
    /\ orig'[n] = n
    /\ mempool' = mempool \cup {n}
    /\ included' = included \ {n}
    /\ pc' = [pc EXCEPT ![n] = "submit"]
    /\ UNCHANGED <<members, commitment, up, disk, held, peers, passVars, faults, reverts>>

\* The operation is included; setCskCommitment takes effect or reverts, and either
\* way there is a receipt.
Include(n) ==
    /\ n \in mempool
    /\ mempool' = mempool \ {n}
    /\ included' = included \cup {n}
    /\ commitment' = IF n = First /\ commitment = NoNode THEN n ELSE commitment
    /\ UNCHANGED <<members, up, disk, held, orig, peers, pc, passVars, faults, reverts>>

\* The operation is included and its inner call fails.
IncludeFailed(n) ==
    /\ n \in mempool
    /\ reverts < MaxReverts /\ reverts' = reverts + 1
    /\ mempool' = mempool \ {n}
    /\ included' = included \cup {n}
    /\ UNCHANGED <<members, commitment, up, disk, held, orig, peers, pc, passVars, faults>>

\* await_receipt finds a receipt and looks no further.
SeeReceipt(n) ==
    /\ pc[n] = "submit" /\ n \in included
    /\ fresh' = [fresh EXCEPT ![n] = n]
    /\ pc' = [pc EXCEPT ![n] = "store"]
    /\ UNCHANGED <<chainVars, up, disk, held, orig, peers, seen, checked, todo, asked, answers,
                   faults, reverts>>

\* submit_op fails: before the bundler has the operation, or after 60 s with the
\* operation still waiting there.
SubmitFails(n) ==
    /\ pc[n] = "submit"
    /\ Fault
    /\ mempool' \in {mempool, mempool \ {n}}
    /\ pc' = [pc EXCEPT ![n] = "idle"]
    /\ UNCHANGED <<members, commitment, included, up, disk, held, orig, peers, passVars, reverts>>

\* load_cache, once per commitment: metadata and plaintext must match it.
LoadCache(n) ==
    /\ pc[n] = "read" /\ seen[n] # NoNode /\ checked[n] # seen[n]
    /\ checked' = [checked EXCEPT ![n] = seen[n]]
    /\ IF disk[n] = seen[n]
         THEN /\ held' = [held EXCEPT ![n] = disk[n]]
              /\ pc' = [pc EXCEPT ![n] = "done"]
         ELSE /\ pc' = [pc EXCEPT ![n] = "missed"]
              /\ UNCHANGED held
    /\ UNCHANGED <<chainVars, up, disk, orig, peers, seen, fresh, todo, asked, answers, faults,
                   reverts>>

\* The wrapping key cannot be derived: the pass goes on without the cache, and the
\* cache is not tried again for this commitment.
CacheUnreadable(n) ==
    /\ KmsErrors
    /\ pc[n] = "read" /\ seen[n] # NoNode /\ checked[n] # seen[n]
    /\ Fault
    /\ checked' = [checked EXCEPT ![n] = seen[n]]
    /\ pc' = [pc EXCEPT ![n] = "missed"]
    /\ UNCHANGED <<chainVars, up, disk, held, orig, peers, seen, fresh, todo, asked, answers,
                   reverts>>

\* The cache has been tried for this commitment.
CacheTried(n) ==
    \/ pc[n] = "missed"
    \/ pc[n] = "read" /\ seen[n] # NoNode /\ checked[n] = seen[n]

\* listMembers or the key derivation fails: the pass ends with an error.
PassFails(n) ==
    /\ CacheTried(n) \/ (pc[n] = "read" /\ seen[n] = NoNode)
    /\ Fault
    /\ ResolveOriginator(n) \/ UNCHANGED orig
    /\ pc' = [pc EXCEPT ![n] = "idle"]
    /\ UNCHANGED <<chainVars, up, disk, held, peers, passVars, reverts>>

\* Mutant: a restarted originator is treated as an onboardee.
RederiveNever(n) ==
    /\ CacheTried(n)
    /\ ResolveOriginator(n)
    /\ orig'[n] = n
    /\ pc' = [pc EXCEPT ![n] = "idle"]
    /\ UNCHANGED <<chainVars, up, disk, held, peers, passVars, faults, reverts>>

\* The originator derives its key again and compares it with the commitment.
Rederive(n) ==
    /\ CacheTried(n)
    /\ ResolveOriginator(n)
    /\ orig'[n] = n
    /\ IF n = seen[n]
         THEN /\ fresh' = [fresh EXCEPT ![n] = n]
              /\ pc' = [pc EXCEPT ![n] = "store"]
         ELSE /\ pc' = [pc EXCEPT ![n] = "idle"]
              /\ UNCHANGED fresh
    /\ UNCHANGED <<chainVars, up, disk, held, peers, seen, checked, todo, asked, answers, faults,
                   reverts>>

\* ordered_csk_candidates: the configured peers of the moment.
StartPull(n) ==
    /\ CacheTried(n)
    /\ ResolveOriginator(n)
    /\ orig'[n] # n
    /\ todo' = [todo EXCEPT ![n] = peers[n]]
    /\ pc' = [pc EXCEPT ![n] = "pull"]
    /\ UNCHANGED <<chainVars, up, disk, held, peers, seen, checked, fresh, asked, answers, faults,
                   reverts>>

\* start_next: at most Parallelism probes run, the originator is asked first.
StartProbe(n, p) ==
    /\ pc[n] = "pull" /\ p \in todo[n]
    /\ Cardinality(asked[n]) + Cardinality(answers[n]) < Parallelism
    /\ orig[n] \in todo[n] => p = orig[n]
    /\ todo' = [todo EXCEPT ![n] = @ \ {p}]
    /\ asked' = [asked EXCEPT ![n] = @ \cup {p}]
    /\ UNCHANGED <<chainVars, up, disk, held, orig, peers, pc, seen, checked, fresh, answers,
                   faults, reverts>>

\* request_cluster_shared_key at p: its key, or Unavailable; any key if p is faulty.
\* A peer that is down refuses the connection.
Serve(p, n) ==
    /\ p \in asked[n]
    /\ \E k \in IF p \in up THEN IF p \in Faulty THEN Nodes ELSE {held[p]} ELSE {NoNode} :
          answers' = [answers EXCEPT ![n] = @ \cup {<<p, k>>}]
    /\ asked' = [asked EXCEPT ![n] = @ \ {p}]
    /\ UNCHANGED <<chainVars, up, disk, held, orig, peers, pc, seen, checked, fresh, todo, faults,
                   reverts>>

\* A probe times out, or its peer's chain read fails.
ProbeFails(n, p) ==
    /\ p \in asked[n]
    /\ Fault
    /\ asked' = [asked EXCEPT ![n] = @ \ {p}]
    /\ answers' = [answers EXCEPT ![n] = @ \cup {<<p, NoNode>>}]
    /\ UNCHANGED <<chainVars, up, disk, held, orig, peers, pc, seen, checked, fresh, todo,
                   reverts>>

\* Mutant: a pulled key is not compared with the commitment.
OpensAny(k, n) == k # NoNode

\* open_pulled: the key has to match the commitment the pass started from.
Opens(k, n) == k # NoNode /\ k = seen[n]

\* join_next: the first key that opens ends the pull and aborts the other probes.
JoinProbe(n, p) ==
    /\ pc[n] = "pull"
    /\ \E k \in Nodes \cup {NoNode} :
         /\ <<p, k>> \in answers[n]
         /\ IF Opens(k, n)
              THEN /\ fresh' = [fresh EXCEPT ![n] = k]
                   /\ pc' = [pc EXCEPT ![n] = "store"]
                   /\ todo' = [todo EXCEPT ![n] = {}]
                   /\ asked' = [asked EXCEPT ![n] = {}]
                   /\ answers' = [answers EXCEPT ![n] = {}]
              ELSE /\ answers' = [answers EXCEPT ![n] = @ \ {<<p, k>>}]
                   /\ UNCHANGED <<fresh, pc, todo, asked>>
    /\ UNCHANGED <<chainVars, up, disk, held, orig, peers, seen, checked, faults, reverts>>

\* Every candidate has been asked: the pass ends without a key.
PullEnds(n) ==
    /\ pc[n] = "pull"
    /\ todo[n] = {} /\ asked[n] = {} /\ answers[n] = {}
    /\ pc' = [pc EXCEPT ![n] = "idle"]
    /\ UNCHANGED <<chainVars, up, disk, held, orig, peers, passVars, faults, reverts>>

\* persist_and_hold_csk: the cache first, then memory and the gate.
Store(n) ==
    /\ pc[n] = "store"
    /\ disk' = [disk EXCEPT ![n] = fresh[n]]
    /\ pc' = [pc EXCEPT ![n] = "hold"]
    /\ UNCHANGED <<chainVars, up, held, orig, peers, passVars, faults, reverts>>

\* The write fails, which is not fatal.
StoreFails(n) ==
    /\ pc[n] = "store"
    /\ Fault
    /\ pc' = [pc EXCEPT ![n] = "hold"]
    /\ UNCHANGED <<chainVars, up, disk, held, orig, peers, passVars, reverts>>

Hold(n) ==
    /\ pc[n] = "hold"
    /\ held' = [held EXCEPT ![n] = fresh[n]]
    /\ pc' = [pc EXCEPT ![n] = "done"]
    /\ UNCHANGED <<chainVars, up, disk, orig, peers, passVars, faults, reverts>>

-----------------------------------------------------------------------------
\* The steps csk_loop takes by itself.
CskLoop(n) ==
    \/ ReadCommitment(n) \/ AwaitOriginator(n) \/ Submit(n) \/ SeeReceipt(n)
    \/ LoadCache(n) \/ Rederive(n) \/ StartPull(n) \/ PullEnds(n) \/ Store(n) \/ Hold(n)
    \/ \E p \in Nodes : StartProbe(n, p) \/ JoinProbe(n, p)

CskNext ==
    \E n \in Nodes :
        \/ Register(n) \/ Crash(n) \/ Restart(n) \/ LoseDisk(n)
        \/ CskLoop(n)
        \/ ReadLags(n) \/ PassFails(n) \/ CacheUnreadable(n)
        \/ SubmitFails(n) \/ StoreFails(n)
        \/ Include(n) \/ IncludeFailed(n)
        \/ \E p \in Nodes : Reconcile(n, p) \/ Serve(p, n) \/ ProbeFails(n, p)

CskSpec == CskInit /\ [][CskNext]_cskVars

\* Sidecars register, come back unless retired, reconcile every 15 s and retry their
\* passes; the bundler includes what it holds; peers answer or refuse.
CskLiveSpec ==
    /\ CskSpec
    /\ \A n \in Nodes :
         /\ WF_cskVars(Register(n)) /\ WF_cskVars(Include(n))
         /\ n \notin Retired => WF_cskVars(Restart(n))
         /\ WF_cskVars(CskLoop(n))
         /\ \A p \in Nodes : WF_cskVars(Reconcile(n, p)) /\ WF_cskVars(Serve(p, n))

-----------------------------------------------------------------------------
\* Every variable has its type.
CskTypeOK ==
    /\ members \in Seq(Nodes)
    /\ commitment \in Nodes \cup {NoNode}
    /\ mempool \in SUBSET Nodes /\ included \in SUBSET Nodes /\ up \in SUBSET Nodes
    /\ disk \in [Nodes -> Nodes \cup {NoNode}]
    /\ held \in [Nodes -> Nodes \cup {NoNode}]
    /\ orig \in [Nodes -> Nodes \cup {NoNode}]
    /\ peers \in [Nodes -> SUBSET Nodes]
    /\ pc \in [Nodes -> {"idle", "read", "missed", "submit", "pull", "store", "hold", "done"}]
    /\ seen \in [Nodes -> Nodes \cup {NoNode}]
    /\ checked \in [Nodes -> Nodes \cup {NoNode}]
    /\ fresh \in [Nodes -> Nodes \cup {NoNode}]
    /\ todo \in [Nodes -> SUBSET Nodes] /\ asked \in [Nodes -> SUBSET Nodes]
    /\ answers \in [Nodes -> SUBSET (Nodes \X (Nodes \cup {NoNode}))]
    /\ faults \in 0 .. MaxFaults /\ reverts \in 0 .. MaxReverts

\* No two sidecars ever hold different keys, whatever peers answer, operations
\* revert, nodes forget or disks lose.
Agreement ==
    \A n, m \in Nodes : held[n] # NoNode /\ held[m] # NoNode => held[n] = held[m]

\* A cached key is the key of the committing originator, so the restart path never
\* meets a cache it has to reject, even if the crash came before the commitment was
\* known to be on chain.
CacheTrusted ==
    \A n \in Nodes : disk[n] # NoNode => disk[n] = First /\ commitment \in {NoNode, disk[n]}

\* If some sidecar that stays up can make the key or has it on disk or in memory, every
\* sidecar that stays up ends up with it: no group waits on each other.
EventuallyAllHold ==
    (\E n \in Nodes : <>[](n \in up /\ (n = First \/ disk[n] # NoNode \/ held[n] # NoNode)))
        => \A n \in Nodes : <>[](n \in up) => <>[](held[n] # NoNode)

\* A sidecar that comes back with its cache intact ends up with the key, whoever else
\* is there: "Each member loads its authenticated cache".
CachedNodesRecover ==
    \A n \in Nodes : <>[](n \in up /\ disk[n] # NoNode) => <>(held[n] # NoNode)

\* The originator takes the key into use only after its commitment is on chain.
HeldIsCommitted == \A n \in Nodes : held[n] # NoNode => commitment = held[n]
=============================================================================
