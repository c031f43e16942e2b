--------------------------- MODULE ClusterDiamond ---------------------------
(***************************************************************************)
(* One cluster's contracts: the diamond's facets (registry, messages, keys,*)
(* dstack attestor, owners), the member contracts and their factory.  A    *)
(* transaction is one action; one that reverts changes nothing and is no   *)
(* action.  memberId = keccak(cluster, contract, attestor) is named by the *)
(* contract.  A registration proof is reduced to the KMS root it chains to,*)
(* the derived key and the keys it binds.  Unregistered values are None.   *)
(***************************************************************************)
EXTENDS Integers, Sequences

CONSTANTS
    Accounts,       \* owners of clusters: Safes and EOAs
    Contracts,      \* addresses that can hold a ClusterMember
    DerivedKeys,    \* dstack-derived signing keys
    WgKeys,         \* wireguard (and heartbeat) public keys
    Roots,          \* KMS root signers
    Envelopes,      \* envelope ids
    Commitments,    \* keccak256(CSK) values, zero not among them
    Creator,        \* the cluster's Safe, of Accounts
    InitRoot,       \* kmsRootSigner of DiamondInit, of Roots
    Factory,        \* the diamond factory, transient owner of the diamond
    MaxEvents,      \* bound: events emitted
    MaxAdmin,       \* bound: owner and policy transactions
    None

ASSUME DiamondAssumption ==
    /\ Creator \in Accounts /\ Factory \notin Accounts
    /\ InitRoot \in Roots
    /\ None \notin Accounts \cup {Factory} \cup DerivedKeys \cup WgKeys \cup Commitments
    /\ MaxEvents \in Nat /\ MaxAdmin \in Nat

VARIABLES
    clusterOwner,   \* MemberStorage.clusterOwner
    pendingOwner,   \* MemberStorage.pendingClusterOwner
    diamondOwner,   \* OwnableStorage.owner
    nominee,        \* SafeOwnableStorage.nomineeOwner
    proposer,       \* history: who filled the pending slots, "cluster" and "diamond"
    kmsRoots,       \* DstackStorage.allowedKmsRoots
    appIds,         \* DstackStorage.allowedAppIds
    imageOk,        \* the node image's compose hash is allowed
    deviceOk,       \* its device is allowed, or any device is
    tcbRequired,    \* DstackStorage.requireTcbUpToDate
    approved,       \* history: app ids the owner has allowlisted at some time
    issued,         \* KMS: <<app, root>> pairs whose keys were released at boot
    memberIds,      \* MemberStorage.memberIds
    idOf,           \* contracts with a nonzero memberIdOf
    wgMirror,       \* MemberStorage.members[id].wgPubKey
    wg,             \* NetworkStorage.wgPubKeys
    ed,             \* NetworkStorage.ed25519Keys
    csk,            \* MemberStorage.cskCommitment
    nonces,         \* MessageStorage.envelopeNonces that are set
    deployed,       \* ClusterMemberFactory.deployedMembers
    bound,          \* ClusterMemberStorage.cluster: "none", "this" or "other"
    stock,          \* dstack-provisioned proxies not yet upgraded
    wallet,         \* ClusterMemberStorage.owner
    events,         \* history: the events the Indexer follows
    admin           \* bound: owner and policy transactions so far

ownerVars  == <<clusterOwner, pendingOwner, diamondOwner, nominee, proposer>>
policyVars == <<kmsRoots, appIds, approved, imageOk, deviceOk, tcbRequired, issued>>
registryVars == <<memberIds, idOf, wgMirror, wg>>
factoryVars == <<deployed, bound, stock, wallet>>
vars == <<ownerVars, policyVars, registryVars, ed, csk, nonces, factoryVars, events, admin>>

Registered(c, k) == [type |-> "registered", member |-> c, key |-> k]
WgPublished(c, k) == [type |-> "wg", member |-> c, key |-> k]
MessageSent(r, e) == [type |-> "message", member |-> r, key |-> e]
CskSet(v) == [type |-> "csk", member |-> None, key |-> v]
Room(n) == Len(events) + n <= MaxEvents
AdminTx == admin < MaxAdmin /\ admin' = admin + 1

-----------------------------------------------------------------------------
\* deployCluster and DiamondInit: the Safe owns the cluster and is nominated for
\* the diamond, which the factory still owns.
Init ==
    /\ clusterOwner = Creator /\ pendingOwner = None
    /\ diamondOwner = Factory /\ nominee = Creator
    /\ proposer = [cluster |-> None, diamond |-> Factory]
    /\ kmsRoots = {InitRoot} /\ appIds = {} /\ approved = {}
    /\ imageOk = TRUE /\ deviceOk \in BOOLEAN /\ tcbRequired \in BOOLEAN
    /\ issued = {}
    /\ memberIds = <<>> /\ idOf = {}
    /\ wgMirror = [c \in Contracts |-> None]
    /\ wg = [c \in Contracts |-> None]
    /\ ed = [c \in Contracts |-> None]
    /\ csk = None
    /\ nonces = {}
    /\ deployed = {} /\ stock = {}
    /\ bound = [c \in Contracts |-> "none"]
    /\ wallet = [c \in Contracts |-> None]
    /\ events = <<>>
    /\ admin = 0

-----------------------------------------------------------------------------
(* Owners.  `a` is msg.sender, `b` the proposed owner or the zero address. *)

TransferClusterOwnership(a, b) ==
    /\ AdminTx
    /\ a = clusterOwner
    /\ pendingOwner' = b
    /\ proposer' = [proposer EXCEPT !.cluster = a]
    /\ UNCHANGED <<clusterOwner, diamondOwner, nominee, policyVars, registryVars, ed, csk,
                   nonces, factoryVars, events>>

AcceptClusterOwnership(a) ==
    /\ AdminTx
    /\ a = pendingOwner
    /\ clusterOwner' = a
    /\ pendingOwner' = None
    /\ UNCHANGED <<diamondOwner, nominee, proposer, policyVars, registryVars, ed, csk,
                   nonces, factoryVars, events>>

\* The diamond's own SafeOwnable surface.
TransferOwnership(a, b) ==
    /\ AdminTx
    /\ a = diamondOwner
    /\ nominee' = b
    /\ proposer' = [proposer EXCEPT !.diamond = a]
    /\ UNCHANGED <<clusterOwner, pendingOwner, diamondOwner, policyVars, registryVars, ed,
                   csk, nonces, factoryVars, events>>

AcceptOwnership(a) ==
    /\ AdminTx
    /\ a = nominee
    /\ diamondOwner' = a
    /\ nominee' = None
    /\ UNCHANGED <<clusterOwner, pendingOwner, proposer, policyVars, registryVars, ed, csk,
                   nonces, factoryVars, events>>

TransferBothOwners(a, b) ==
    /\ AdminTx
    /\ a = diamondOwner /\ a = clusterOwner
    /\ nominee' = b
    /\ pendingOwner' = b
    /\ proposer' = [cluster |-> a, diamond |-> a]
    /\ UNCHANGED <<clusterOwner, diamondOwner, policyVars, registryVars, ed, csk, nonces,
                   factoryVars, events>>

\* Mutant: the nominee slots are cleared before the owner slots are read from them.
AcceptBothOwnersSwapped(a) ==
    /\ AdminTx
    /\ a = nominee /\ a = pendingOwner
    /\ diamondOwner' = None /\ clusterOwner' = None
    /\ nominee' = None /\ pendingOwner' = None
    /\ UNCHANGED <<proposer, policyVars, registryVars, ed, csk, nonces, factoryVars, events>>

AcceptBothOwners(a) ==
    /\ AdminTx
    /\ a = nominee /\ a = pendingOwner
    /\ diamondOwner' = a /\ clusterOwner' = a
    /\ nominee' = None /\ pendingOwner' = None
    /\ UNCHANGED <<proposer, policyVars, registryVars, ed, csk, nonces, factoryVars, events>>

-----------------------------------------------------------------------------
(* The dstack policy and the KMS boot gate that consults it.  Every setter  *)
(* is onlyClusterOwner: it takes no caller, because the only caller it      *)
(* does not revert for is clusterOwner.                                     *)

SetKmsRoot(r, on) ==
    /\ AdminTx
    /\ kmsRoots' = IF on THEN kmsRoots \cup {r} ELSE kmsRoots \ {r}
    /\ UNCHANGED <<ownerVars, appIds, approved, imageOk, deviceOk, tcbRequired, issued, registryVars,
                   ed, csk, nonces, factoryVars, events>>

SetAppId(c, on) ==
    /\ AdminTx
    /\ appIds' = IF on THEN appIds \cup {c} ELSE appIds \ {c}
    /\ approved' = IF on THEN approved \cup {c} ELSE approved
    /\ UNCHANGED <<ownerVars, kmsRoots, imageOk, deviceOk, tcbRequired, issued, registryVars,
                   ed, csk, nonces, factoryVars, events>>

\* addComposeHash, removeComposeHash
SetComposeHash(on) ==
    /\ AdminTx
    /\ imageOk' = on
    /\ UNCHANGED <<ownerVars, kmsRoots, appIds, approved, deviceOk, tcbRequired, issued, registryVars,
                   ed, csk, nonces, factoryVars, events>>

\* addDevice, removeDevice, setAllowAnyDevice
SetDevice(on) ==
    /\ AdminTx
    /\ deviceOk' = on
    /\ UNCHANGED <<ownerVars, kmsRoots, appIds, approved, imageOk, tcbRequired, issued, registryVars,
                   ed, csk, nonces, factoryVars, events>>

SetRequireTcbUpToDate(on) ==
    /\ AdminTx
    /\ tcbRequired' = on
    /\ UNCHANGED <<ownerVars, kmsRoots, appIds, approved, imageOk, deviceOk, issued, registryVars,
                   ed, csk, nonces, factoryVars, events>>

IsAppAllowed(c, tcbUpToDate) ==
    /\ imageOk
    /\ deviceOk
    /\ c \in appIds \/ c \in idOf
    /\ tcbRequired => tcbUpToDate

\* The KMS with root r asks the gate of the booting app's own contract and releases
\* the node's keys; it does so whether or not the cluster accepts that root's proofs.
\* A member forwards the question to its cluster, this one or another; a stock
\* DstackApp decides by itself.  What a gate elsewhere answers is left open.
KmsIssue(c, r, tcbUpToDate) ==
    /\ bound[c] # "none" \/ c \in stock
    /\ bound[c] = "this" => IsAppAllowed(c, tcbUpToDate)
    /\ issued' = issued \cup {<<c, r>>}
    /\ UNCHANGED <<ownerVars, kmsRoots, appIds, approved, imageOk, deviceOk, tcbRequired, registryVars,
                   ed, csk, nonces, factoryVars, events, admin>>

-----------------------------------------------------------------------------
(* Member contracts.                                                       *)

\* Anyone deploys a member through the factory, for this cluster or another.
DeployMember(c, cluster) ==
    /\ bound[c] = "none" /\ c \notin stock
    /\ bound' = [bound EXCEPT ![c] = cluster]
    /\ deployed' = deployed \cup {c}
    /\ UNCHANGED <<ownerVars, policyVars, registryVars, ed, csk, nonces, stock, wallet, events,
                   admin>>

\* dstack provisions a stock DstackApp proxy.
ProvisionStock(c) ==
    /\ bound[c] = "none" /\ c \notin stock
    /\ stock' = stock \cup {c}
    /\ UNCHANGED <<ownerVars, policyVars, registryVars, ed, csk, nonces, deployed, bound,
                   wallet, events, admin>>

\* upgradeToAndCall(reinitializeFromDstackApp): the proxy becomes a bound member.
ReinitializeFromDstackApp(c, cluster) ==
    /\ c \in stock
    /\ bound[c] = "none"
    /\ bound' = [bound EXCEPT ![c] = cluster]
    /\ stock' = stock \ {c}
    /\ UNCHANGED <<ownerVars, policyVars, registryVars, ed, csk, nonces, deployed, wallet,
                   events, admin>>

\* Another cluster registers a member bound to it and installs its wallet owner.
OtherClusterRegisters(c, k) ==
    /\ bound[c] = "other" /\ wallet[c] = None
    /\ wallet' = [wallet EXCEPT ![c] = k]
    /\ UNCHANGED <<ownerVars, policyVars, registryVars, ed, csk, nonces, deployed, bound,
                   stock, events, admin>>

-----------------------------------------------------------------------------
(* dstack_register, sent by anyone (by the member itself as its bootstrap  *)
(* user operation).  r: root of the proof, k: its derived key.             *)

\* Provenance, code id, binding and signature chain.
ProofAccepted(c, r) ==
    /\ c \in deployed \/ c \in appIds
    /\ r \in kmsRoots
    /\ <<c, r>> \in issued

\* Mutant: the member does not check which cluster installs its owner.
SetOwnerFromAnyCluster(c, k) ==
    /\ bound[c] # "none"
    /\ wallet[c] = None
    /\ wallet' = [wallet EXCEPT ![c] = k]

\* __setOwnerFromCluster
SetOwnerFromCluster(c, k) ==
    /\ bound[c] = "this"
    /\ wallet[c] = None
    /\ wallet' = [wallet EXCEPT ![c] = k]

\* _addMember
AddMember(c) ==
    /\ c \notin idOf
    /\ memberIds' = Append(memberIds, c)
    /\ idOf' = idOf \cup {c}

\* _setWgPubKey: the canonical slot and its mirror.
SetWgPubKey(c, key) ==
    /\ wg' = [wg EXCEPT ![c] = key]
    /\ wgMirror' = [wgMirror EXCEPT ![c] = key]

\* The member's record, its key and its wallet's owner, in one transaction.
DstackRegister(c, r, k, key) ==
    /\ Room(2)
    /\ ProofAccepted(c, r)
    /\ AddMember(c)
    /\ SetWgPubKey(c, key)
    /\ SetOwnerFromCluster(c, k)
    /\ events' = events \o <<Registered(c, key), WgPublished(c, key)>>
    /\ UNCHANGED <<ownerVars, policyVars, ed, csk, nonces, deployed, bound, stock, admin>>

-----------------------------------------------------------------------------
(* Calls of a member: a user operation of contract c, which validateUserOp *)
(* accepts from its wallet owner s, executed on the diamond.               *)

UserOp(c, s) == wallet[c] # None /\ s = wallet[c]

\* Mutant: a rotation is written but not announced.
PublishWgKeySilently(c, s, key) ==
    /\ UserOp(c, s)
    /\ c \in idOf
    /\ wg' = [wg EXCEPT ![c] = key]
    /\ wgMirror' = [wgMirror EXCEPT ![c] = key]
    /\ UNCHANGED <<ownerVars, policyVars, memberIds, idOf, ed, csk, nonces, factoryVars, events,
                   admin>>

\* publishWgKey: the canonical slot, the mirror, the event.
PublishWgKey(c, s, key) ==
    /\ Room(1)
    /\ UserOp(c, s)
    /\ c \in idOf
    /\ SetWgPubKey(c, key)
    /\ events' = Append(events, WgPublished(c, key))
    /\ UNCHANGED <<ownerVars, policyVars, memberIds, idOf, ed, csk, nonces, factoryVars, admin>>

PublishEd25519Key(c, s, key) ==
    /\ UserOp(c, s)
    /\ c \in idOf
    /\ ed' = [ed EXCEPT ![c] = key]
    /\ UNCHANGED <<ownerVars, policyVars, registryVars, csk, nonces, factoryVars, events, admin>>

\* Only the first member; a commitment that is not zero is final.
SetCskCommitment(c, s, v) ==
    /\ Room(1)
    /\ UserOp(c, s)
    /\ memberIds # <<>> /\ c = memberIds[1]
    /\ csk = None
    /\ csk' = v
    /\ events' = Append(events, CskSet(v))
    /\ UNCHANGED <<ownerVars, policyVars, registryVars, ed, nonces, factoryVars, admin>>

\* Mutant: the recipient's membership is not checked.
SendToAnyone(c, s, r, e) ==
    /\ Room(1)
    /\ UserOp(c, s)
    /\ c \in idOf
    /\ <<r, e>> \notin nonces
    /\ nonces' = nonces \cup {<<r, e>>}
    /\ events' = Append(events, MessageSent(r, e))
    /\ UNCHANGED <<ownerVars, policyVars, registryVars, ed, csk, factoryVars, admin>>

Send(c, s, r, e) ==
    /\ Room(1)
    /\ UserOp(c, s)
    /\ c \in idOf
    /\ r \in idOf
    /\ <<r, e>> \notin nonces
    /\ nonces' = nonces \cup {<<r, e>>}
    /\ events' = Append(events, MessageSent(r, e))
    /\ UNCHANGED <<ownerVars, policyVars, registryVars, ed, csk, factoryVars, admin>>

\* The cluster owner's command (onlyClusterOwner, so again without a caller) shares
\* the recipient's envelope ids with send.
SendOwnerCommand(r, e) ==
    /\ Room(1)
    /\ r \in idOf
    /\ <<r, e>> \notin nonces
    /\ nonces' = nonces \cup {<<r, e>>}
    /\ events' = Append(events, MessageSent(r, e))
    /\ UNCHANGED <<ownerVars, policyVars, registryVars, ed, csk, factoryVars, admin>>

-----------------------------------------------------------------------------
OwnerStep ==
    \E a \in Accounts :
        \/ AcceptClusterOwnership(a) \/ AcceptOwnership(a) \/ AcceptBothOwners(a)
        \/ \E b \in Accounts \cup {None} : \/ TransferClusterOwnership(a, b)
                                           \/ TransferOwnership(a, b)
                                           \/ TransferBothOwners(a, b)
PolicyStep ==
    \E on \in BOOLEAN :
        \/ \E r \in Roots : SetKmsRoot(r, on)
        \/ \E c \in Contracts : SetAppId(c, on)
        \/ SetComposeHash(on) \/ SetDevice(on) \/ SetRequireTcbUpToDate(on)
KmsStep == \E c \in Contracts, r \in Roots, up \in BOOLEAN : KmsIssue(c, r, up)
FactoryStep ==
    \E c \in Contracts :
        \/ \E cluster \in {"this", "other"} : \/ DeployMember(c, cluster)
                                              \/ ReinitializeFromDstackApp(c, cluster)
        \/ ProvisionStock(c)
        \/ \E k \in DerivedKeys : OtherClusterRegisters(c, k)
MemberStep ==
    \E c \in Contracts, k \in DerivedKeys :
        \/ \E key \in WgKeys : \/ \E r \in Roots : DstackRegister(c, r, k, key)
                               \/ PublishWgKey(c, k, key)
                               \/ PublishEd25519Key(c, k, key)
        \/ \E v \in Commitments \cup {None} : SetCskCommitment(c, k, v)
        \/ \E r \in Contracts, e \in Envelopes : Send(c, k, r, e)
CommandStep == \E r \in Contracts, e \in Envelopes : SendOwnerCommand(r, e)

Next == OwnerStep \/ PolicyStep \/ KmsStep \/ FactoryStep \/ MemberStep \/ CommandStep

Spec == Init /\ [][Next]_vars

-----------------------------------------------------------------------------
\* Every variable has its type; no owner slot is ever the zero address.
TypeOK ==
    /\ clusterOwner \in Accounts
    /\ diamondOwner \in Accounts \cup {Factory}
    /\ pendingOwner \in Accounts \cup {None} /\ nominee \in Accounts \cup {None}
    /\ proposer \in [cluster : Accounts \cup {None}, diamond : Accounts \cup {Factory}]
    /\ kmsRoots \in SUBSET Roots /\ appIds \in SUBSET Contracts /\ approved \in SUBSET Contracts
    /\ imageOk \in BOOLEAN /\ deviceOk \in BOOLEAN /\ tcbRequired \in BOOLEAN
    /\ issued \in SUBSET (Contracts \X Roots)
    /\ memberIds \in Seq(Contracts) /\ idOf \in SUBSET Contracts
    /\ wgMirror \in [Contracts -> WgKeys \cup {None}]
    /\ wg \in [Contracts -> WgKeys \cup {None}]
    /\ ed \in [Contracts -> WgKeys \cup {None}]
    /\ csk \in Commitments \cup {None}
    /\ nonces \in SUBSET (Contracts \X Envelopes)
    /\ deployed \in SUBSET Contracts /\ stock \in SUBSET Contracts
    /\ bound \in [Contracts -> {"none", "this", "other"}]
    /\ wallet \in [Contracts -> DerivedKeys \cup {None}]
    /\ events \in Seq([type : {"registered", "wg", "message", "csk"},
                      member : Contracts \cup {None},
                      key : WgKeys \cup Envelopes \cup Commitments \cup {None}])
    /\ admin \in 0 .. MaxAdmin

\* The registry and the member contracts agree: a contract is a member exactly
\* when it is bound to this cluster and has its wallet owner, so a registered
\* member can always act and no other contract's bootstrap window stays open.
MembersOwnTheirWallets ==
    \A c \in Contracts : c \in idOf <=> bound[c] = "this" /\ wallet[c] # None

\* The mirror in the member record equals the canonical wireguard key, after
\* registrations and rotations in any order.
MirrorAgrees == \A c \in Contracts : wgMirror[c] = wg[c]

AboutKey(i, c) == events[i].type \in {"registered", "wg"} /\ events[i].member = c

\* The event log rebuilds what the Indexer and the sidecars keep of the chain: the
\* last key event of a member carries its key, as the network facet and the member
\* record hold it, the last commitment event the commitment.
EventsRebuildState ==
    /\ \A i \in DOMAIN events, c \in Contracts :
         AboutKey(i, c) /\ (\A j \in DOMAIN events : AboutKey(j, c) => j <= i)
           => events[i].key = wg[c] /\ events[i].key = wgMirror[c]
    /\ \A i \in DOMAIN events :
         events[i].type = "csk" /\ (\A j \in DOMAIN events : events[j].type = "csk" => j <= i)
           => events[i].key = csk

\* A message event is preceded by its recipient's registration event, so a
\* consumer that starts at the registration misses no message.
MessagesIntroduced ==
    \A i \in DOMAIN events : events[i].type = "message" =>
        \E j \in DOMAIN events : /\ j < i
                                 /\ events[j].type = "registered"
                                 /\ events[j].member = events[i].member

\* No envelope id reaches one recipient twice, whether sent by members or by the
\* cluster owner.
EnvelopesUnique ==
    \A i, j \in DOMAIN events :
        events[i].type = "message" /\ events[i] = events[j] => i = j

\* A proposal never outlives the ownership it was made under: whoever is pending
\* for a slot was named by the slot's present owner, across independent, fused and
\* half-accepted transfers.
PendingNamedByOwner ==
    /\ pendingOwner # None => proposer.cluster = clusterOwner
    /\ nominee # None => proposer.diamond = diamondOwner

\* Only app ids the cluster owner has approved become members: dstack_register is
\* open to anyone and anyone deploys factory members, so the boot gate has to see to
\* it, across allowlist, image and root changes between boot and registration, and
\* although a contract may have got its keys by another gate while it was a stock app.
OnlyApprovedJoin == idOf \subseteq approved
=============================================================================
