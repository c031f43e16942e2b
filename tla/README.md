# AttestMesh: TLA+ models, checks and proofs

AttestMesh coordinates meshes of mutually attested nodes: a diamond contract keeps the
registry of members, a shared Indexer pushes the contract's events to the members' sidecars,
and each sidecar builds the mesh and shares a cluster key. This directory holds TLA+ modules
translated from that code, the TLC configurations that check them, and proofs checked by TLAPS.

## 1. The system

| Part | State | Operations | Talks to |
|---|---|---|---|
| ClusterDiamond facets (`contracts/src/facets`) | member registry, wg keys, message nonces, CSK commitment, allowlists, owners | register, publish key, send, set commitment, allow/disallow, transfer | emits the events the Indexer reads |
| ClusterMember (`contracts/src/members`) | owner, cluster, auth flags | init, validateUserOp, execute, upgrades | calls the diamond |
| Indexer runtime (`indexer/src/runtime.rs`) | `last_indexed_block`, known clusters, member cache, read model | boot catch-up, watch tick, discovery tick, housekeeping | chain RPC, subscriber registry |
| Indexer Subscribe (`indexer/src/grpc/service.rs`) | sessions: channel, gate, overflow flag; sled cursors | Hello, replay, live push, Ack, end | sidecar client |
| Sidecar Indexer client (`sidecar/src/indexer_client.rs`) | last handled, progress, checkpoint file | handle, Ack, reconnect, restart | bring-up dispatcher |
| Sidecar bring-up (`sidecar/src/bringup.rs`) | peer table, learned keys, envelope schedule | register, reconcile, send/absorb PeerEndpoint | chain, wireguard, bridges |
| CSK (`sidecar/src/csk.rs`, `peer_grpc.rs`) | held key, cached key, commitment | derive, commit, fetch from peer, verify | chain, peers over the mesh |
| Heartbeat and gates (`sidecar/src/heartbeat`, `state/gates.rs`) | last seen, converged latch | sign, send, accept, evaluate | peers |
| Hole-punch transport (`sidecar/src/transport`) | candidate path, probe state | probe, promote, demote | peers' sockets |
| Gas webhook, mesh-state API, pg-ha command MCP (`services`) | caches, nonces | decide, refresh, execute command | bundler, chain, Patroni |
| Budget proxy (`deploy/hindsight-budget-proxy`) | ledger, reservations, circuit | reserve, settle, reconcile, reset | Hindsight, LLM provider |
| Fugu router (`deploy/fugu-router`) | session rows, cooldowns, credit ledger | route, fail over, book | subscriptions, LiteLLM |
| Hindsight recovery (`deploy/hindsight-recovery`) | Agent circuit, `phase.json`, outbox, heartbeat | guard, watch, release, resume, retry, recover | Agent database, Hindsight, systemd |
| Node helpers and drivers (`deploy/*-node-box.py`, `*-node.sh`) | state file, journals, VMs of the VMM | deploy, update, recreate, replace, roll back | dstack VMM, cluster allowlist |
| Orchestrator, canary, admin agents (`deploy`) | job files, retain journal, approvals | deploy jobs, evaluate, approve | node drivers, Hindsight, chat |

What is hard here: the Indexer multiplexes tokio tasks (watcher, one replay and one Ack task per
session, housekeeping) over shared maps and bounded channels, and both ends of a subscription
keep a cursor that must survive crashes without passing an event. Everything else in the mesh
(peer keys, CSK, messages) rests on that delivery, so it is modelled first. In the deployment tools
the difficulty is another one: a command is a sequence of calls to other systems, may die between any
two of them, and is run again over whatever it left; several programs share files, rows and VMs
without a lock that covers all of them.

## 2. Plan

1. `IndexerDelivery` (done): the delivery pipeline, its safety, liveness and proofs.
2. `ClusterDiscovery` (done): discovery and hydration against the watermark.
3. `ClusterDiamond` (done): the contracts as one state machine, with proofs of the registry facts.
4. `CskLifecycle` (done): commitment, derivation, distribution, restart; uses the registry's promises.
5. `BudgetProxy` (done): the first of the stateful Python services, with its two recovery tools.
6. `FuguRouter` (done): concurrent handlers over the session and credit tables.
7. `HindsightRecovery` (done): four processes around one circuit and one phase file.
8. `NodeBox` (done): the 21 box helpers as one parameterised lifecycle.
9. `SandboxReplacement` (done): the journaled replacement, as a refinement of `ExclusiveApp`.
10. The cluster orchestrator, composed with `NodeBox`; the canary's retain loop; the admin agents.
11. `Heartbeat`, then `PunchTransport`: the sidecar's readiness and path selection.

Abstract specifications: `ExclusiveApp` (at most one copy of an app is up) is stated and implemented
by `SandboxReplacement`. Further ones worth stating: an ordered at-least-once log per member for
`IndexerDelivery`; a set-once shared secret for `CskLifecycle`. Section 12 lists what is proved: every
safety property that a run checks. Next in the proofs are the step facts behind the liveness
properties (that a pass, a replacement phase or a handler only moves forward).

## 3. IndexerDelivery

One cluster. A log is its position `<<block, index>>`; a page's checkpoint is the position
`<<block, Ck>>` after every log of the block (`u64::MAX` in the code). `relevant[m]` is the set of
logs the watcher's relevance test gives member `m`.

| Code | Model |
|---|---|
| `watch_tick`: poll, ingest, publish the watermark, dispatch page by page | `WatchTick`, `Publish`, `DispatchItem`, `PageDone`, `PollFails` |
| `dispatch` snapshot and `send_live` behind the gate, overflow | `wPend`, `SendLive(s)`, `ovf` |
| `subscribe`: Hello and watermark read / cursor load and head initialisation / registration | `Subscribe(m, s)`, `Resolve(s)`, `Register(s)` |
| replay task, its failure | `ReplaySend(s)`, `ReplayFails(s)` |
| Ack task, session end, `reap_closed` | `ServerAck(s)`, `EndSession(s)`, `Reap(s)` |
| sled store | `cursor` (as read), `durable` (as flushed), `Flush` |
| `connect_and_run`, `indexer_loop`, `load_cursor` | `Handle(m)`, `Ack(m)`, `Progress(m)`, `Persist(m)`, `SeeOverflow(m)`, `Disconnect(m)`, `SidecarRestart(m)` |
| crash and `boot_catchup` | `IndexerCrash`, `Boot` |

Every place where the code awaits or another thread can run is a boundary between actions; what
runs under one lock or between two awaits is one action. On the client the Ack, the progress in memory
and the checkpoint file are three awaits and three actions, so the stream can end, or the sidecar die,
between any two of them; a stream that ends after the Ack is noticed only at the next read. The
watcher's snapshot of the known clusters has no counterpart, because one cluster is modelled and it
is known throughout; `ClusterDiscovery` has the snapshot. The history variables `handled`, `floor`
and `missed` record which logs a sidecar completed, from which position its delivery was waived
(head initialisation of an empty cursor), and which logs were dispatched inside a session's
read-then-register window.

### Runs

| Run | Checks | Instance |
|---|---|---|
| `delivery_safety` | `TypeOK`, `CursorPassesOnlyHandled`, `ClientCursorPassesOnlyHandled`, `HandledInChainOrder`, `DurableCursorMonotone` | 1 member, 2 sessions, 2 blocks, channel of 3, 1 fault; sessions symmetric (1.8 million states) |
| `delivery_liveness` | `EventuallySettled` | 1 member, 1 session, 2 blocks, channel of 1, 1 fault (211,000 states) |
| `delivery_missed_prefix` | `NoMissedPrefix` (violated) | 1 member, no fault |

Bounds. Two sessions let a dying one overlap its successor; two blocks with one log each give a
page before and a page after any event of interest, with a checkpoint after each; a channel of three
fills in the second page, behind the checkpoint of the replay, and a channel of one fills at once; one fault puts a crash, a disconnect, a
failed page or a failed checkpoint write at every point. The theorems below lift the safety
properties to every bound.

Fairness (`LiveSpec`). The watcher, every session's replay, Ack and end tasks, housekeeping and the
client loop are tokio tasks that are rescheduled whenever they can run: weak fairness of each. A
client that reads its stream is assumed for its own events only; `SlowPeerSpec` drops it for one
member. Faults are never fair. Mining is not fair either.

Findings. `NoMissedPrefix`: `subscribe` reads `last_indexed_block` and registers later; a page
published and dispatched in between is lost to that session, and the next checkpoint makes the loss
durable. A second one, `WatcherReturns`, is in section 13.

### Proofs (`IndexerDeliveryProofs`)

From `DeliveryAssumption` alone (positive sizes, `NoSession` not a session), for any sets of members
and sessions:

- `TypeCorrect`: `Spec => []TypeOK`;
- `CursorSafety`, `ClientCursorSafety`: the two cursor invariants;
- `ChainOrder`: `Spec => HandledInChainOrder`;
- `DurableMonotone`: `Spec => DurableCursorMonotone`.

The cursor invariants are not inductive: an Ack that arrives later, the block a Hello asks for, or
an item in the channel can each move a cursor. `IInv` therefore says where every log still owed to a
member can be. `Client`: none lies at or before any of the member's positions, the envelope in hand
included. `Requests`: nor before an Ack in flight or the requested block. `QueueOrder`: an item of
the channel passes an owed log only if that log waits before it. `ReplayPrefix` and `LiveSuffix`:
what the replay has passed, and what the watcher has dispatched beyond the replay's range, waits in
the channel (or is the item in the watcher's hand). `Bounds` ties the watermark to the chain. Frame
lemmas show that each part survives any step that only settles logs or mines new ones (`Evolves`);
one lemma per action does the rest. `StoreOrder` (the flushed cursor trails the one in memory)
carries `DurableMonotone`.

## 4. ClusterDiscovery

The Indexer follows a set of clusters that grows while it runs. Three tokio tasks share it with
the watermarks, the member cache and the read model: `boot_catchup` (before the loops start), the
discovery loop and the block watcher. A block holds at most one log and a cluster one member, whose
key is named by the log that published it. The timeline of the read model is the set of the logs
ingested: the code appends a log again when it is read again, and no property counts them.

| Code | Model |
|---|---|
| chain: factory deployment, registration, key publication | `Mine` |
| `boot_catchup`, complete or failing midway (the loops start anyway) | `Boot` |
| `watch_tick`: head / cluster set and page / ingest / publish / error | `WatchHead`, `WatchSnapshot`, `WatchIngest`, `WatchPublish`, `WatchFails` |
| `discovery_tick`: factory scan / watermark / error | `DiscoverTick`, `DiscoverDone`, `DiscoverFails` |
| `hydrate_discovered_cluster`: read history / `add_cluster` in the state / in the read model / ingest / return | `Hydrate`, `RecordKnown`, `RecordModel`, `HydrateIngest`, `HydrateDone` |
| in-memory state only | `Crash` |

The history variable `missed` holds the logs the watcher has passed without following their cluster
and no hydration has read.

| Run | Checks | Instance |
|---|---|---|
| `discovery` | `TypeOK`, `FactoryScanComplete`, `MembersCached`, `EventuallyFollowed` | 2 clusters, 4 blocks, pages of 2, 2 faults |

Bounds. Two clusters let one be hydrated while the other is followed; four blocks hold both
deployments and both registrations, or one of them and two rotations, over two pages; two faults let
an error hit a retry. Fairness (`LiveSpec`): weak fairness of boot, watcher and discovery, which are
tokio loops on an interval that log an error and try again; faults and mining are not fair.

Section 13 has a consequence of the overlap of hydration and watcher (`NoMemberSkipped`). A second
one is in the model but checked by no run, because the code states no order for it: the cluster is
visible to the watcher before its history is ingested, so an older key can be ingested after a newer
one and stay in the snapshot.

Proofs (`ClusterDiscoveryProofs`, from `DiscoveryAssumption`): `FactoryScan`
(`[]FactoryScanComplete`), `MemberCache` (`[]MembersCached`) and `TypeCorrect`. The second says that
a member at or before the watermark of a followed cluster is cached unless its log is `missed` or
the hydration has not reached it. It is not inductive: `WatchProgress` says which logs of its
cluster set the watcher has ingested inside the page, `HydrateProgress` what the hydration still
owes, `ScanAccounted` that every deployment of the scan is known or still to do, `Recorded` that the
recorded sets agree between the two writes, and `OneLogPerBlock`, `RegAfterDeploy`, `DownIsEmpty`
and `Bounds` relate the chain, the process and the watermarks. `TypeCorrect` is not about
declarations only: what a hydration shows is the largest block it has read, so it needs that such a
block exists (`Largest`, from the well-foundedness of the naturals) and that discovery handles
deployed clusters only (`HandsDeployed`).

## 5. ClusterDiamond

One cluster's diamond with its facets, the member contracts and the member factory. A transaction is
one action, its guard the conjunction of the code's reverts; a reverted transaction changes nothing.
A member id is named by its contract and a registration proof is reduced to the KMS root it chains
to, the key it derives and the keys it binds.

| Code | Model |
|---|---|
| `deployCluster`, `DiamondInit.init` | `Init` |
| `AttestFacet` ownership, SolidState's `SafeOwnable` | `TransferClusterOwnership` ... `AcceptBothOwners`, `TransferOwnership`, `AcceptOwnership` |
| `DstackFacet` allowlists | `SetKmsRoot`, `SetAppId`, `SetComposeHash`, `SetDevice`, `SetRequireTcbUpToDate` |
| `isAppAllowed`, `ClusterMember.isAppAllowed`, consulted by the dstack KMS (external) | `IsAppAllowed`, `KmsIssue` |
| `ClusterMemberFactory.deployMember`, stock proxies and `reinitializeFromDstackApp` | `DeployMember`, `ProvisionStock`, `ReinitializeFromDstackApp` |
| `dstack_register`, `_addMember`, `_setWgPubKey`, `__setOwnerFromCluster` | `DstackRegister` with `ProofAccepted`, `AddMember`, `SetWgPubKey`, `SetOwnerFromCluster` |
| `validateUserOp`, `execute` | `UserOp`, a guard of every member call |
| `publishWgKey`, `publishEd25519Key`, `setCskCommitment`, `send`, `sendOwnerCommand` | actions of those names |

`events` is the log of the four event types the Indexer follows; `approved` (app ids ever
allowlisted) and `proposer` (who filled a pending slot) are history. A zero key or commitment and an
unset one are the same value `None`, as in the contracts' storage. The KMS is assumed to consult the
gate before it releases keys, which is what the allowlist is for; a KMS that does not is outside the
model. It asks the app's own contract: a member of this cluster forwards the question to this
diamond, a member of another cluster to that one, and a stock app answers by itself. The last two
gates are left open (`KmsIssue` is always possible), so a contract may come to this cluster with keys
that this cluster never approved. The setters and `sendOwnerCommand` that are `onlyClusterOwner` have no
caller: the transactions of anybody else revert and change nothing.

| Run | Checks | Instance |
|---|---|---|
| `diamond_registry` | `TypeOK`, `MembersOwnTheirWallets`, `EventsRebuildState`, `MessagesIntroduced` | 2 accounts, 2 contracts, 2 wireguard keys, 5 events, 3 owner or policy transactions; contracts and keys symmetric (1.7 million states) |

Bounds. Two registrations take four events, which leaves one for a rotation, a message or the
commitment, and one registration leaves three. Three policy transactions approve two app ids and
change one thing in between, or hold a fused proposal, a half acceptance and a further proposal; the
theorem `Ownership` covers longer sequences. The system may stop (nobody has to send a
transaction), so deadlock is not checked; there is no fairness and no liveness property, since a
transaction is somebody's choice.

Proofs (`ClusterProofs`, first half, from `DiamondAssumption`, for any sets and any length of
history): `Admission`, `Membership`, `Mirror`, `Introduction`, `Uniqueness`, `Ownership`,
`LogRebuilds` (`[]EventsRebuildState`) and `TypeCorrect`. `IInv` adds to those properties:
`ReleasesApproved` (keys were released to a factory member of this cluster only if its app id was
approved by then, which makes `OnlyApprovedJoin` inductive although `dstack_register` does not look
at the allowlist for factory members; for every other contract it does), `UnboundHaveNoOwner`
(binding a contract cannot make it a member), `MembersIntroduced` (every member has its registration
event) and `EnvelopesConsumed` (every message of the log has its nonce). `OnlyApprovedJoin`,
`MirrorAgrees`, `EnvelopesUnique` and `PendingNamedByOwner` are stated by theorems only, for every
instance. `EventsRebuildState` says that the last key event of a member is its key in both places
the contracts keep it, `AttestFacet`'s record and `NetworkFacet`'s mirror. The half about the record
(`KeysRebuilt`) is inductive with the types, and `MirrorAgrees` gives the other: a transaction that
appends an event and writes exactly what the event carries keeps it (`RebuildAppend`), a
registration appends two events for one write (`RebuildRegister`), and every other transaction
leaves log, keys and commitment alone.

## 6. CskLifecycle

Any number of sidecars share one key. The key a node derives is named by the node, and so is its
commitment (keccak256 is injective on the keys that occur); sealing and cache encryption are left
out because both ends have the keys they need. The registry's promises (`listMembers` only grows at
its end, `setCskCommitment` is the first member's and takes effect once) are `First` and `Include`,
translated from `AttestFacet` as in `ClusterDiamond`. `ClusterProofs` extends both modules, so the
general names carry a prefix here (`CskInit`, `CskNext`, `CskSpec`, `CskTypeOK`, `NoNode`).

| Code | Model |
|---|---|
| `register_on_chain` and `launch`; process death; restart; recreated volume | `Register`, `Crash`, `Restart`, `LoseDisk` |
| `reconcile_once`: originator and configured peers | `Reconcile(n, p)` |
| `csk_once`, commitment read (possibly from a lagging RPC node) | `ReadCommitment`, `ReadLags` |
| nothing committed: originator or not | `Submit`, `AwaitOriginator` |
| bundler, EntryPoint, `await_receipt`, its errors and 60 s limit | `Include`, `IncludeFailed`, `SeeReceipt`, `SubmitFails` |
| `load_cache`, once per commitment (`cache_checked_for`) | `LoadCache`, `CacheUnreadable`, `checked` |
| originator restart | `Rederive` |
| `pull_csk_from_candidates`, `request_cluster_shared_key`, `open_pulled` | `StartPull`, `StartProbe`, `Serve`, `ProbeFails`, `JoinProbe`, `PullEnds`, `Opens` |
| `persist_and_hold_csk` | `Store`, `StoreFails`, `Hold` |
| an error of any other call in the pass | `PassFails` |

`pc[n]` is where `csk_loop` of node `n` stands; every await of a pass that another node's step can
influence is a boundary between actions. Candidates other than the originator are asked in any
order, which covers the code's order by liveness and id.

| Run | Checks | Instance |
|---|---|---|
| `csk_safety` | `CskTypeOK`, `Agreement`, `CacheTrusted` | 3 nodes, one of which may answer with any key, 2 probes at a time, 1 fault, 1 reverted operation; the other two nodes symmetric |
| `csk_liveness` | `EventuallyAllHold` | 2 nodes, one of which may stay away after a crash, 3 faults |

Bounds. Three nodes are an originator, a holder that is not the originator and an onboardee; two
probes let answers overtake each other. Three faults are what "crash, lose the disk, fail once
more" takes. `MaxReverts` is 0 and `KmsErrors` false in the liveness run: with either, the two
disagreements of section 13 are exactly what makes `EventuallyAllHold` fail. Once every sidecar holds the key
and the fault budget is spent nothing is left to do, so deadlock is not checked.

Fairness (`CskLiveSpec`). `csk_loop` retries every 250 ms to 2 s and never gives up,
`reconcile_loop` runs every 15 s, a peer answers or its connection is refused, the supervisor
restarts the container (unless the node is one of `Retired`), and the bundler includes what it
accepted: weak fairness of each. Registration is retried by the sidecar; that it succeeds in the end
is an assumption. Faults are never fair.

### Proofs (`ClusterProofs`, second half)

From `CskAssumption` alone: `KeyAgreement` (`CskSpec => []Agreement`), `CachedKey`
(`CskSpec => []CacheTrusted`) and `CskTypeCorrect` (`CskSpec => []CskTypeOK`), for any set of nodes, any faulty
and retired ones among them, and any number of faults and reverted operations. `Agreement` says
nothing of the places a key comes from, so it is not inductive. `OneKey(First)` is: commitment,
bundler queue, each node's idea of the originator, the commitment a pass has read, the key it is
about to store, the cache and memory all name the first member or nothing, and only the first
member waits for a receipt. The answers of peers are deliberately left out of it: `Opens` is what
keeps them away. The only step that changes `First` is the first registration, before which all of
these are empty (`RegisterStep`). Liveness is only model-checked.

## 7. BudgetProxy

The proxy between Hindsight and its LLM provider (`deploy/hindsight-budget-proxy`). Every request has
a handler thread: `reserve` books the maximum cost as in flight under the lock and saves
`state.json`, the provider is called without the lock, and the answer settles the reservation under
the lock again. The ledger and the state are two files, each replaced atomically, one after the
other. Memory (`booked`, `flight`, `open`, `reason`) and disk (the same with `d`) are separate
variables; `booked[r]` is the sum of the ledger entries of request `r`, because a request can be
booked twice (by `record` before a crash and by the tool after it).

| Code | Model |
|---|---|
| `BudgetState.__init__`; death of the process | `Boot`, `Crash` |
| `do_POST` up to `reserve`; `_scope_for` | `Arrive` |
| `reserve`: admitted / `BudgetViolation` / over the token limit | `Reserve`, `Refuse`, `RejectOversized` |
| `except BudgetViolation`: `open_circuit`, after the lock was released | `RefusalOpens` |
| `httpx.post`; the provider, which may charge long after the proxy gave up | `Post`, `ProviderAnswers` |
| status 401 or 402 / other errors / an exception | `Denied`, `Discard`, `Raise` then `Ambiguous` |
| `record`: memory and ledger write, then state write, the lock held | `Record`, `RecordState` |
| failing writes of `atomic_json`, each where the code's handlers take it | `SaveFails` and the second disjuncts |
| `reconcile_ambiguous.py`: ledger write, state write, death between them | `Reconcile`, `ReconcileState`, `ReconcileAborts` |
| `reset_provider_auth.py` with a fresh token | `ResetAuth` |

Abstractions. Costs are small numbers; the rate limiter is an arbitrary delay (`Reserve` may be taken
at any time), so the rate limits themselves are not checked. Requests that fail authorisation or the
payload checks change nothing and do not arrive. The compose step that sets `circuit_open` before
the reconciliation has no lasting effect (the next write replaces it) and is part of `Reconcile`.
Two things are assumed of the provider: it charges at most the cost at the ceilings it was given, and
nothing for a call it answers with an error status; the code rests on both.

The run `budget` checks `TypeOK`, `SpendAccounted`, `WithinBudget` and `OrphanHaltsTraffic` on three
requests (two chat requests of cost 1 and 2, one embedding), two months, both phases and two faults.
The provider limit leaves 3 of the 4 the requests cost together, and either chat request fits a
month but not both, while both fit the backfill: every guard decides. Two faults are a failed write
followed by a crash, or a crash followed by an aborted tool run. When every request has ended
nothing is left to do, so deadlock is not checked.

What the run shows besides: after a failed ledger write the call's reservation is already gone from
memory and the next save removes it from the file; `unsaved` names these calls, and without this
exception `SpendAccounted` is false. Likewise a reservation whose own save failed is owned by
nobody while the circuit stays closed. A reconciliation that dies between its writes, or a `record`
that does, makes the tool book the call a second time: the error is on the safe side, but the
ledger can pass the limit, and then `Boot` is refused.

### Proofs (`BudgetProxyProofs`)

From `BudgetAssumption` alone: `NoChargeForgotten` (`Spec => []SpendAccounted`), `OrphansHalt`
(`Spec => []OrphanHaltsTraffic`), `LedgerMonotone` (`Spec => LedgerNeverShrinks`), `BudgetKept`
(`Spec => []WithinBudget`) and `TypeCorrect`.
`SpendAccounted` is not inductive: what will be saved next is memory, the tool releases
reservations it has booked a step earlier, and a call may be charged after its reservation was
reconciled. `Coverage` adds the three facts: what is owed is covered in memory while the proxy runs;
between the tool's writes every reservation is booked at its maximum; and a call not yet answered
is covered at its maximum. `Placement` ties a reservation to its handler's label, `Charging` says
that only sent calls are charged, and `Ahead` that memory is never behind the ledger file.

`WithinBudget` speaks of what was charged, but `reserve` decides on what is booked and in flight,
and the provider may charge a call long after that. `Solvent` (theorem `Solvency`) closes the gap:
count a call that may still be charged at its maximum and a settled one at its charge; the sum of
these liabilities stays within the provider limit and, per scope and period, within the scope's
limit. Only an admission raises a liability (`SolventReserve`), and what it compares with the limit
is at least the liability (`LiableCovered`, from `Coverage`); every other step leaves each liability
alone or lowers it (`SolventSteady`, `LiableStep`). The limit holds as soon as anything is owed,
since a configuration may start with an `InitialSpend` above the limit, and then nothing is
admitted.

The sums are folds over finite sets, hence `IsFiniteSet(Requests)` in `BudgetAssumption` (a run of the
proxy sees finitely many requests). An induction theorem with an operator parameter cannot be
instantiated here, so every lemma about sums (`SumRemove`, `SumMono`, `SumAdd`, `SumPart`) assumes that it fails
and takes a smallest set for which it does (`MinimalSet`, from the well-foundedness of strict inclusion
on the subsets of a finite set).

## 8. FuguRouter

The front door of the subscription pool (`deploy/fugu-router`). Every request is a coroutine, and
every helper it calls opens its own autocommit connection: concurrent handlers meet in the tables
between any two statements. A streamed answer is returned before it is booked, and LiteLLM's callback
books the same call on its own, earlier or later, under the same or another id.

| Code | Model |
|---|---|
| `init_schema`, `ensure_db` | `Schema`, `Init` |
| `_assignment`: sticky row / candidates / upsert and decision | `Arrive`, `Rank` with `Places`, `Before`, `First`, `Assign` |
| `_limit_error`, `_content_policy_error`, the attempt loop of `proxy` | `LimitError`, `PolicyError`, `Verdict`, `After`, `Answer` |
| `_forward_once`: plain or streamed, raising | `Answered`, `CallRaises` |
| `_write_proxy_ledger`, `write_ledger` with its upsert, failures swallowed | `Book`, `WriteLedger`, `Merge`, `Swallow` |
| `_cooldown`, `_mark_failover_assignment` (two statements) | `Cooldown`, `Failover`, `CountFailover` |
| `_content_policy_fallback`, `_direct_model_proxy` | `Fallback`, `Direct` |
| end of a stream, `FuguCreditTelemetry` | `StreamEnds`, `Telemetry` |
| expiring cooldowns, rolling windows, failed statements, restart | `CooldownExpires`, `NextWindow`, `DbFails`, `Restart` |

Abstractions. A call's usage is SQL NULL when the writer's response object has none, else one of
`Usages`, zero included; the two writers of a row need not find the same number. `Merge` is the
upsert's `COALESCE(EXCLUDED.usage, usage)` with the status of the later writer. Rows of refused calls
(`log_failure_event`) have status failure and an id of their own and enter no sum, so the ledger of
the model holds answered calls only. The short window is the current epoch and the longer ones are
all epochs; one public model is shown, since sessions and cooldowns are kept per model. The decision
log is read by nobody. Error texts are reduced to what the router searches them for.

The run `fugu_router` checks `TypeOK`, `MovedForCause`, `SuccessBooked` and `EveryRequestEnds` on
two requests of one session, one of them streamed, two accounts, two windows and one fault: enough
for two handlers to read the same row, cool down the same account and book the same row from two
writers (1.6 million states). `SuccessBooked` says that an answered call has its row unless its
booking failed or died with the router, and that a row one of whose writers knew the usage has a
usage: NULL never erases a number. Which number it has is open, because a later, smaller one does
replace a larger one (`UsageNeverFalls` of section 13); the run therefore needs only one number
besides NULL. Fairness (`LiveSpec`): weak fairness of every handler's step, because the event loop
runs ready coroutines and calls have timeouts; streams, the callback and faults are not fair. When
all requests have ended nothing has to happen, so deadlock is not checked.

Proofs (`FuguRouterProofs`, from `RouterAssumption`, for any requests, sessions, accounts and number
of faults): `TriedOnce`, `LimitJustified`, `CooldownRespected`, `CallsBooked`, `FailoverCount`,
`MovesForCause`, `TypeCorrect`; `CallsBooked` is `[]SuccessBooked`. The inductive invariant has a
part per handler: `Candidates` (what is left, tried and being tried are disjoint and make up the
offer), `Replies` (what the verdict is at each step, without which a limit could seem to come from a
fallback) and `Sticky` (the account in use against what the handler read). `Booked` follows a call
from its answer through the stream to its row; `SettledKept` shows that no step of anybody takes a
call out of "streaming, booked or known not to be". `FailoverCount` needs that only an ended handler
has counted. `EveryRequestEnds` is model-checked.

## 9. HindsightRecovery

The fail-closed controller of the staged Hindsight backfill (`deploy/hindsight-recovery/recovery.py`).
Guard, watchdog, operator commands and the Agent's worker share the circuit (a database row), the
outbox and `phase.json`; the bank's advisory lock covers the outbox only.

| Code | Model |
|---|---|
| `quick_failures`, `full_audit`, `precap_resume_failure`, `preprove_cap_refresh` | `QuickFailures`, `FullFailures`, `ResumeGate`, `ProveCap` |
| `run_guard` | `GuardLoad` ... `GuardBeat`, `GuardFailed`; `settle_cap`: `SettleProve` ... `SettleAudit` |
| `emergency_open` through a tunnel of its own | `EmergencyOpens`, `TunnelFails` |
| `run_watchdog`, `watchdog_failure` | `WatchdogStarts`, `WatchdogTick`, `HeartbeatAges`, `WatchdogFailure` |
| `release`, `close_agent` | `ReleaseStart` ... `ReleaseWait` |
| `prepare_resume`, `refresh_retry`, `recover_provider_auth_failures` | `ResumeProve`, `ResumeLocked`, `HeldProve`, `HeldLocked`, `RecoverProve`, `RecoverLocked`, `RecoverRetry`, `SaveReady` |
| `settle-cap`, `phase`, `emergency-open` of the command line; a new `EXPECTED_HINDSIGHT_FAILED` | `CmdSettleProve` ... `CmdSettleAudit`, `PhaseLoad`, `PhaseSave`, `OperatorOpens`, `Reconfigure` |
| deaths, hangs, interrupted commands, a bank lock held by another | `GuardDies`, `GuardRestarts`, `WatchdogDies`, `CmdInterrupted`, `SettleLockTaken` |
| the worker and Hindsight (external) | `Claim`, `Submit`, `OperationEnds`, `WorkerRefresh` |

A section under the bank lock is one step, and an attempt to take the lock may fail. Checks that
compare other systems with their pinned state are one fact, `drift`, found by the quick checks or only
by the full audit, which may clear again. One operator command runs at a time. The `phase` command
writes `phase.json` from what it read before, under no lock, and may arm or disarm the watchdog over
any circuit: `Hands` says what it is used to write, and the history variable `byHand` that it was used
since the last release.

The run `recovery` checks `TypeOK`, `RetainedOnce`, `SettlementFinal`, `ClosedHoldReopens` and
`SilentGuardReopens` on three documents, a cap of two, one drift, one failed operation and one fault
(1.6 million states). The third document stays queued when the stage is settled, so a stage that is
set back to ready by hand and released again has a document to claim; two documents let one be
complete while the other is being submitted. `Rank` is the order in which the worker, which is
external, claims queued documents; the theorems hold for every order, and for documents of one rank
in any order. One fault places a death, a hang, an interruption, a failed tunnel, a taken lock or a
phase written by hand at every point. `SilentGuardReopens` excepts `byHand`: the phase command can
disarm the watchdog while the circuit is closed, and then nobody watches a hung guard until the next
release. Fairness (`LiveSpec`): guard and watchdog loop under systemd's `Restart=always` (weak
fairness), a heartbeat that is not renewed ages, and the guard's full audit, due every
`full_seconds`, is run again and again (strong fairness, since the quick branch may be taken in
between). Commands and the worker are not fair. A stage may be left alone when it is done, so
deadlock is not checked.

Proofs (`HindsightRecoveryProofs`, from `RecoveryAssumption`): `RetainsOnce`, `SettlementStays`,
`TypeCorrect`. `RetainedOnce` is not inductive: `Traced` ties a row's state to its operation and its
history, so that a row that can be claimed is one Hindsight does not hold. All the steps of the four
programs change the outbox in one of five ways (`AgentStep`), and the proof is about those. A settled
stage is final because its cap is used up: the worker claims nothing beyond its run limit, whatever the
phase says and whoever closed the circuit (`SettledRowsKept`). The two liveness properties are
model-checked.

## 10. NodeBox

The box-side helpers `deploy/*-node-box.py` and the drivers that call them. The 21 helpers share one
lifecycle and differ in whether an exception of StopVm is dropped, which statuses count as stopped,
what a missing VM or a failed GetInfo means, whether a poll that runs out ends the command, whether the
start mode looks at the VM first, and which modes they have: one record per helper, translated from its
own `main`, holds the differences, and the actions read it. How a helper names the sealed variables of
the measured compose is a second record, because the hash mode and the update mode compute it in
different places.

Their drivers differ in two things a property depends on, which are fields of the same record:

- `guarded`: deploy is refused, or skips the node, while the state file names a VM. This holds for
  generic (`generic-node.sh:160-165`), agent-session-mcp, pocket-mcp, sandboxd and the HA drivers
  clickhouse-ha, db-ha, pg-ha and redis-ha. The 13 others (hermes `306-320`, r2-host, webhost, runyard,
  fugu-router-lb, ssh, postgres, hindsight, telegram-sync, fugu-router, matrix, synclave, langfuse) create
  a second VM and overwrite `VM_ID`; the history variable `displaced` holds the VM they lose sight of.
- `halts`: a failed `addComposeHash` ends the update, by `set -e` (generic, agent-session-mcp, pocket-mcp)
  or by an explicit check (fugu-router-lb, fugu-router, pg-ha, sandboxd, synclave, webhost). The 12 others
  run under `set -uo pipefail` and go on (clickhouse-ha `547`, db-ha, hermes `490`, r2-host, langfuse,
  telegram-sync, matrix, runyard, redis-ha, ssh, postgres, hindsight); `cmd.denied` marks such an update.

matrix looks at neither the status of UpgradeApp's nor of StartVm's answer and goes on after a refusal,
and on its fresh-disk path drops an exception of StopVm.

| Code | Model |
|---|---|
| `ENV_KEYS`, `build_env`, `app_compose_and_hash` of each helper | `AgentSessionEnv` ... `WebhostEnv`, `HashCompose`, `BuiltCompose` |
| `main` of each helper | `AgentSession` ... `Webhost` |
| driver: command, hash approval and its failure, prime, state file | `Begin`, `Approve`, `ApproveFails`, `Prime`, `Save` |
| StopVm, poll, UpgradeApp, StartVm, CreateVm | `StopVm`, `Poll`, `PollTimeout`, `UpgradeApp`, `StartVm`, `DeployVm`, `FreshVm` |
| `recreate_vm` with its journal | `Resume`, `RemoveVm`, `JournalRemoved`, `RecreateVm`, `JournalReplacement` |
| failing calls, interrupts, guests, VMs removed by hand | `StopVmFault`, `PollFault`, `UpgradeAppFault`, `StartVmRefused`, `Crash`, `VmmStops`, `GuestExits`, `RemovedByHand` |

The run `node_box` checks `TypeOK`, `UpdateTookEffect`, `NoTwins` and `BootsApproved` for every helper,
with three VM ids, two compose files, a poll of one call and two faults. Three ids allow a replacement
of a replacement; a second compose file makes a stale hash visible; one poll is enough because the
loop only counts. `NoTwins` names the ways in which a node does end up with two VMs: an id lost
between CreateVm and the file that records it, a fresh-disk update that did not see its old VM down,
and, under the 13 drivers that are not guarded, a second deploy; for the others the last exception is
void (`Excused`). `BootsApproved` holds without exception under the nine drivers that halt; under the 12
others it is about the updates whose `addComposeHash` succeeded. What the exceptions leave out is shown
to happen by two configurations of section 13. `UpdateTookEffect` is about updates that saw their VM down: a
VM that is only stopping counts as stopped for most helpers, and UpgradeApp then meets a VM that is up.
A second deploy counts as a fault, to bound it. There is always a next command, so deadlock is checked.
There is no liveness, since commands are the operator's choice.

Proofs (`NodeBoxProofs`, from the four assumptions of `NodeBox`, for any VMs, faults, polls and any
subset of the helpers): `TypeCorrect`, `OneVm` (`[]NoTwins`), `UpdateEffective`
(`[]UpdateTookEffect`), `ApprovedBoots` (`Spec => BootsApproved`). None of the three is inductive.

- All that the proof needs to know of a helper is in `Sound`: which modes it has, that none both
  recreates and updates with a fresh disk, and that its hash mode names the same sealed variables as
  the compose it installs. The last is what the approval rests on; `ScriptsSound` shows it for each of
  the 21 helpers.
- `UpdateTookEffect` needs `SeenDown` (a VM the poll saw down stays down until this command starts
  it), `Installed` (UpgradeApp has replaced the compose before StartVm) and `Approved`.
- `NoTwins` needs to know where a VM that is up can be recorded. `Whereabouts`: it is `lost`, `unseen`,
  `displaced` by a second deploy,
  the VM of the state file, the one just created, or the journaled replacement of the VM of the state
  file. `Journaled`, `Recreating`, `Unwritten` and `HandedOut` keep the last of these unique: the old
  VM is removed before the journal names a replacement, and an id is in at most one of the places;
  `FreshReplaced` covers the save of a fresh VM.

One lemma bounds what any step does to one VM (`VmMoves`, `VmStep`), so that the invariants about VMs
are proved from what may happen to a VM instead of once per call. The invariant was checked by TLC on the
instance of the run before it was proved.

## 11. SandboxReplacement and ExclusiveApp

`sandboxd-node.sh` replaces a VM with a journal of ten phases, each resumable, and rolls back.
`ExclusiveApp` is what that is for: a VM of the app comes up only when no other copy is up. In
`SandboxReplacement` one step is one box command or one save; the driver may end before every step, a
box command may fail before or after it took effect, and StartVm and StopVm answer before the VM has
started or stopped.

| Code | Model |
|---|---|
| state file, `_save`, `_load`, `flock` | `journal`, `NoJournal`, `driver`, `Idle` |
| `_inventory_matches`, `_validate_replacement_vm` | `Active`, `Terminal`, `Validated` |
| `create_vm`, `stop_vm`, `start_vm`, `upgrade-stopped` of the box | `CreateVm`, `RequestStop`, `AwaitStop`, `StartVm`, `Upgrade` |
| `deploy_cvm`, `start_cvm`, `update_member` | `Deploy` ... `DeploySave`, `Start`, `StartCvm`, `Update` ... `UpdateSave` |
| `replace_cvm` | `ReplaceNew`, `ReplaceCreate`, `ReplaceSave`, `ReplaceResume`, `RebaseTo` |
| `_resume_replacement`, phase by phase | `ResumeCreated`, `StopOld`, ..., `Confirm`, `Finish` |
| `_resume_replacement_rebase` | `ResumeRebasing`, `RebaseUpgrade`, `RebaseReadback` |
| `_rollback_replacement`, `rollback_cvm` | `Rollback`, `StopNew`, `WaitNew`, `RollbackCheck`, `StartOld`, `RollbackWait`, `EndRollback` |

`start_cvm` looks at neither the phase nor the inventory, so `Start` has no guard either and may run in
any phase of an open replacement. `stray` is a history variable: it is set by such a start and cleared
when a new replacement finds one VM up alone, which is the only place where the code checks that again
from scratch. `ExclusiveApp` has an action for it, `Force`, after which the promise is off until one copy
was found alone. Everything else is as strict as before: without such a start no VM comes up beside
another copy, whatever fails.

`upgrade-stopped` measures the compose anew, as `create-replacement` does. A compose edited between the
driver's hash and the box command gives the VM a hash that is neither of the two the journal names; the
rebase refuses it from then on and leaves the replacement to manual inspection
(`sandboxd-node.sh:355-356`). `Upgrade` has this outcome as a fault and `ThirdHash` names the state.

The run `sandbox_replacement` checks `TypeOK`, `NoVmLost`, `Exclusive`, `HandOver` and
`JournalSettles` on three VMs, three composes and two faults (882,000 states): a replacement, its
rollback, a rebase to another compose and a second replacement, with a fault in two places and a start
anywhere; the third compose makes a third hash possible. `Exclusive` is the refinement: the
specification of `ExclusiveApp` with `up` mapped to the VMs that are not exactly stopped or exited and
`forced` to `stray`. `HandOver` says that every cutover records the compose its VM carries,
unconditionally, and that the old VM is down unless `stray`. `JournalSettles` excepts the two outcomes
that the code leaves to a person: an unknown CreateVm (phase "creating") and `ThirdHash`.

Assumptions. A box command that its driver left behind ends before the next driver starts; the code
has no guard against the opposite. Fairness (`FairSpec`): a driver that is running goes on and the
VMM carries out what it accepted (weak); the operator goes on trying replace with the journal's
compose, and rollback (strong, because each is disabled while the other runs). It is an assumption
about a person, and `JournalSettles` says what it buys: no phase strands a replacement.

Proofs (`SandboxReplacementProofs`, from `FaultsAssumption` and `NoneAssumption`, with `start` at any
time): `Implements` (`Spec => Exclusive`), `HandsOver` (`Spec => HandOver`), `VmsKept` and `TypeCorrect`.
The inductive invariant says which phase each step runs in (`StepPhase`), which fields of the journal
each phase fills (`JournalShape`), that every existing VM is recorded (`Recorded`) and which compose
it carries (`Measured`); `Turns` says for every phase and step which of the two copies can be up as long
as `stray` is false (`TurnInv`), and is what the refinement rests on.

## 12. Proved and model-checked

Eight modules hold proofs; every leaf is checked by TLAPS and nothing is assumed but the named
assumptions on constants. `ClusterProofs` holds those of two components, the contracts and the key
they commit to. Proved for every instance: every invariant and every safety action property that a
run checks, in all nine components, and the refinement of `ExclusiveApp`.

Only model-checked: the liveness properties (`EventuallySettled`, `EventuallyFollowed`,
`EventuallyAllHold`, `EveryRequestEnds`, `ClosedHoldReopens`, `SilentGuardReopens`, `JournalSettles`),
because fairness and ENABLED are outside the prover. The violated properties of section 13 are shown
by TLC's counterexamples.

Two forms of argument replace induction over data, which the provers cannot instantiate: a smallest
counterexample in a well-founded order (the sums of `BudgetProxyProofs`, `Largest` in
`ClusterDiscoveryProofs`), and invariants that describe a log by its last relevant entry instead of
folding it (`EventsRebuildState`).

## 13. Known disagreements between code and its documentation

`delivery_missed_prefix` is a run of the project. Eleven more were found while modelling; each has a
configuration here, whose counterexample TLC prints with
`tlc -config <cfg> <module>`.

| Configuration, module | Property | What the code does |
|---|---|---|
| `DeliverySlowPeer.cfg`, `MCIndexerDelivery` | `WatcherReturns` | `send_live` waits for the delivery gate that a replay holds while its channel is full: a sidecar that stops reading during its replay blocks the watcher for everyone (`subscribers.rs:4`: "live delivery is non-blocking"). |
| `DiscoverySkippedMember.cfg`, `MCClusterDiscovery` | `NoMemberSkipped` | A hydration reads up to the head its tick began with while the watcher, not yet following the cluster, publishes a later watermark: a member in between is never cached (`runtime.rs:202-205` says hydration prevents it). |
| `CskUncommitted.cfg`, `MCCskLifecycle` | `HeldIsCommitted` | `await_receipt` never reads `success`: after a failed inner call the originator holds and caches the key, ends `csk_loop`, and nobody else can start a pull. |
| `CskCacheOnce.cfg`, `MCCskLifecycle` | `CachedNodesRecover` | `cache_checked_for` is set before `load_cache`: one failed `GetKey` disables an intact cache for the rest of the process. |
| `FuguSessionStays.cfg`, `MCFuguRouter` | `SessionStays` | Two first requests of a session both find no row; the later upsert moves the session although no limit was hit (the provider plugin's README, line 11, says otherwise). `MovedForCause` is what does hold, per handler. |
| `HindsightSettled.cfg`, `MCHindsightRecovery` | `SettledMeansDone` | `settle_cap` saves "settled" before its audit, and its proof skips rows still being submitted: the phase stays settled with a row in progress. `SettlementFinal` holds because it speaks of the announcement. |
| `SandboxTwoCopies.cfg`, `SandboxReplacement` | `OneCopy` | `start_cvm` looks at neither phase nor inventory: run after a driver died behind the replacement's start, it boots the old VM as well (`sandboxd-node.sh:406-407` promises to fail closed). |
| `SandboxHandOver.cfg`, `SandboxReplacement` | `PreviousStopped` | The driver dies after saving `verified` (506-507), the operator runs `start`, and `replace` then records the cutover (509-523) and logs `previous-stopped=` (524) with the old VM up. `HandOver` is what does hold. |
| `NodeBoxSecondDeploy.cfg`, `MCNodeBox` | `NoSecondVm` | Under 13 drivers a second `deploy` creates a VM beside the recorded one and overwrites `VM_ID` (`hermes-node.sh:306-320`); `generic-node.sh:160-165` refuses it. `NoTwins` is what does hold. |
| `NodeBoxUnapproved.cfg`, `MCNodeBox` | `NoUnapprovedRoll` | 12 drivers ignore a failed `addComposeHash` and roll a compose the cluster has not allowed (`hermes-node.sh:490`); the comment at `synclave-node.sh:397-399` says that this was hit live. `BootsApproved` is what does hold. |
| `FuguUsageFalls.cfg`, `MCFuguRouter` | `UsageNeverFalls` | A sparse usage object yields a number that is zero or smaller than the one booked (`fugu_credit.py:288-316`), and `COALESCE` (758) writes it over the larger one: an account's sum can fall. `SuccessBooked` is what does hold. |

## 14. Not modelled

`diamondCut` and UUPS upgrades install arbitrary code and are left out, as are reorganisations (the
Indexer does not handle them), signature checks and encodings, metrics and health endpoints. The
node drivers' other steps, pg-ha's `resize` (`pg-ha-node.sh:811-851`), chain registration, secrets
and smoke tests are not steps of `NodeBox`. The services that only read or decide (gas sponsorship
webhook, mesh-state API) keep no state a property could be about. The HA entrypoints are glue around
Patroni, Sentinel and Keeper, whose consensus is theirs, and the precommit hook scans text. The
cluster orchestrator, the canary's retain loop, the admin agents, the pg-ha command service, the
heartbeat and the hole-punch transport have state and concurrency of their own; they are points 10
and 11 of the plan.
