---------------------------- MODULE ClusterProofs ----------------------------
(***************************************************************************)
(* Proofs about a cluster: its contracts (ClusterDiamond), for every set   *)
(* of accounts, contracts, keys and envelopes and every length of history, *)
(* and the key its sidecars share (CskLifecycle), for every set of nodes   *)
(* and of faulty peers.                                                    *)
(***************************************************************************)
EXTENDS ClusterDiamond, CskLifecycle, SequenceTheorems, TLAPS

(* The contracts.                                                          *)

\* What a message event needs and leaves behind in the contracts' state.
Introduced(c) == \E j \in DOMAIN events :
                    events[j].type = "registered" /\ events[j].member = c
MembersIntroduced == \A c \in idOf : Introduced(c)

\* Every envelope of the log is consumed.
EnvelopesConsumed ==
    \A i \in DOMAIN events :
        events[i].type = "message" => <<events[i].member, events[i].key>> \in nonces

\* Keys are only released to contracts that exist, and to one the factory bound to
\* this cluster only once it is approved; a factory contract never changes cluster.
ReleasesApproved ==
    /\ appIds \subseteq approved
    /\ idOf \subseteq approved
    /\ \A c \in deployed : bound[c] # "none"
    /\ \A p \in issued : /\ bound[p[1]] # "none" \/ p[1] \in stock
                         /\ p[1] \in deployed /\ bound[p[1]] = "this" => p[1] \in approved

\* A contract that no cluster has bound has no wallet owner.
UnboundHaveNoOwner == \A c \in Contracts : bound[c] = "none" => wallet[c] = None

IInv ==
    /\ TypeOK
    /\ MembersOwnTheirWallets
    /\ MirrorAgrees
    /\ ReleasesApproved
    /\ MembersIntroduced
    /\ MessagesIntroduced
    /\ EnvelopesConsumed
    /\ EnvelopesUnique
    /\ PendingNamedByOwner
    /\ UnboundHaveNoOwner

-----------------------------------------------------------------------------
\* Init establishes the inductive invariant.
LEMMA InitInv == Init => IInv
  BY DiamondAssumption
  DEF Init, IInv, TypeOK, MembersOwnTheirWallets, MirrorAgrees, ReleasesApproved,
      MembersIntroduced, MessagesIntroduced, EnvelopesConsumed, EnvelopesUnique,
      PendingNamedByOwner, Introduced, UnboundHaveNoOwner

\* Owner transactions touch only the owner slots, and clear what they supersede.
LEMMA OwnerInv ==
  ASSUME IInv, OwnerStep, admin' \in 0 .. MaxAdmin
  PROVE  IInv'
<1> USE DEF IInv
<1>1. PICK a \in Accounts :
        \/ AcceptClusterOwnership(a) \/ AcceptOwnership(a) \/ AcceptBothOwners(a)
        \/ \E b \in Accounts \cup {None} : \/ TransferClusterOwnership(a, b)
                                           \/ TransferOwnership(a, b)
                                           \/ TransferBothOwners(a, b)
  BY DEF OwnerStep
<1>2. UNCHANGED <<policyVars, registryVars, ed, csk, nonces, factoryVars, events>>
  BY <1>1 DEF AcceptClusterOwnership, AcceptOwnership, AcceptBothOwners,
       TransferClusterOwnership, TransferOwnership, TransferBothOwners
<1>3. /\ clusterOwner' \in Accounts
      /\ diamondOwner' \in Accounts \cup {Factory}
      /\ pendingOwner' \in Accounts \cup {None} /\ nominee' \in Accounts \cup {None}
      /\ proposer' \in [cluster : Accounts \cup {None}, diamond : Accounts \cup {Factory}]
      /\ PendingNamedByOwner'
  BY <1>1, DiamondAssumption
  DEF AcceptClusterOwnership, AcceptOwnership, AcceptBothOwners, TransferClusterOwnership,
      TransferOwnership, TransferBothOwners, TypeOK, PendingNamedByOwner
<1>4. TypeOK'
  BY <1>2, <1>3 DEF TypeOK, policyVars, registryVars, factoryVars
<1>5. (MembersOwnTheirWallets /\ MirrorAgrees /\ ReleasesApproved /\ UnboundHaveNoOwner)'
  BY <1>2 DEF UnboundHaveNoOwner, policyVars, registryVars, factoryVars, MembersOwnTheirWallets, MirrorAgrees,
       ReleasesApproved
<1>6. (MembersIntroduced /\ MessagesIntroduced /\ EnvelopesConsumed /\ EnvelopesUnique)'
  BY <1>2 DEF registryVars, MembersIntroduced, Introduced, MessagesIntroduced,
       EnvelopesConsumed, EnvelopesUnique
<1> QED BY <1>3, <1>4, <1>5, <1>6

\* Policy transactions and key releases touch only the policy; approvals only grow.
LEMMA PolicyInv ==
  ASSUME IInv, PolicyStep \/ KmsStep, admin' \in 0 .. MaxAdmin
  PROVE  IInv'
<1> USE DEF IInv
<1>1. UNCHANGED <<ownerVars, registryVars, ed, csk, nonces, factoryVars, events>>
  BY DEF PolicyStep, KmsStep, SetKmsRoot, SetAppId, SetComposeHash, SetDevice,
       SetRequireTcbUpToDate, KmsIssue
<1>2. /\ kmsRoots' \in SUBSET Roots /\ appIds' \in SUBSET Contracts
      /\ approved' \in SUBSET Contracts
      /\ imageOk' \in BOOLEAN /\ deviceOk' \in BOOLEAN /\ tcbRequired' \in BOOLEAN
      /\ issued' \in SUBSET (Contracts \X Roots)
      /\ ReleasesApproved'
  <2>1. CASE PolicyStep
    BY <2>1, <1>1 DEF PolicyStep, SetKmsRoot, SetAppId, SetComposeHash, SetDevice,
         SetRequireTcbUpToDate, TypeOK, ReleasesApproved, registryVars, factoryVars
  <2>2. CASE KmsStep
    BY <2>2, <1>1 DEF KmsStep, KmsIssue, IsAppAllowed, TypeOK, ReleasesApproved, registryVars,
         factoryVars
  <2> QED BY <2>1, <2>2
<1>3. TypeOK'
  BY <1>1, <1>2 DEF TypeOK, ownerVars, registryVars, factoryVars
<1>4. (MembersOwnTheirWallets /\ MirrorAgrees /\ PendingNamedByOwner /\ UnboundHaveNoOwner)'
  BY <1>1 DEF UnboundHaveNoOwner, ownerVars, registryVars, factoryVars, MembersOwnTheirWallets, MirrorAgrees,
       PendingNamedByOwner
<1>5. (MembersIntroduced /\ MessagesIntroduced /\ EnvelopesConsumed /\ EnvelopesUnique)'
  BY <1>1 DEF registryVars, MembersIntroduced, Introduced, MessagesIntroduced,
       EnvelopesConsumed, EnvelopesUnique
<1> QED BY <1>2, <1>3, <1>4, <1>5

\* Deployments, migrations and other clusters' registrations make no member here.
LEMMA FactoryInv ==
  ASSUME IInv, FactoryStep, admin' \in 0 .. MaxAdmin
  PROVE  IInv'
<1> USE DEF IInv
<1>1. UNCHANGED <<ownerVars, policyVars, registryVars, ed, csk, nonces, events>>
  BY DEF FactoryStep, DeployMember, ReinitializeFromDstackApp, ProvisionStock,
       OtherClusterRegisters
<1>2. /\ deployed' \in SUBSET Contracts /\ stock' \in SUBSET Contracts
      /\ bound' \in [Contracts -> {"none", "this", "other"}]
      /\ wallet' \in [Contracts -> DerivedKeys \cup {None}]
      /\ (MembersOwnTheirWallets /\ UnboundHaveNoOwner)'
  <2>0. PICK c \in Contracts :
          \/ \E cluster \in {"this", "other"} : \/ DeployMember(c, cluster)
                                                \/ ReinitializeFromDstackApp(c, cluster)
          \/ ProvisionStock(c)
          \/ \E k \in DerivedKeys : OtherClusterRegisters(c, k)
    BY DEF FactoryStep
  <2>1. idOf' = idOf
    BY <1>1 DEF registryVars
  <2>2. ASSUME NEW cluster \in {"this", "other"},
               DeployMember(c, cluster) \/ ReinitializeFromDstackApp(c, cluster)
        PROVE  /\ deployed' \in SUBSET Contracts /\ stock' \in SUBSET Contracts
               /\ bound' \in [Contracts -> {"none", "this", "other"}]
               /\ wallet' \in [Contracts -> DerivedKeys \cup {None}]
               /\ (MembersOwnTheirWallets /\ UnboundHaveNoOwner)'
    <3>1. /\ bound' = [bound EXCEPT ![c] = cluster] /\ wallet' = wallet
          /\ deployed' \in SUBSET Contracts /\ stock' \in SUBSET Contracts
          /\ bound[c] = "none"
      BY <2>2 DEF DeployMember, ReinitializeFromDstackApp, TypeOK
    <3>2. wallet[c] = None
      BY <3>1 DEF UnboundHaveNoOwner
    <3> QED BY <2>1, <3>1, <3>2 DEF TypeOK, MembersOwnTheirWallets, UnboundHaveNoOwner
  <2>3. CASE ProvisionStock(c)
    BY <2>1, <2>3 DEF ProvisionStock, TypeOK, MembersOwnTheirWallets, UnboundHaveNoOwner
  <2>4. ASSUME NEW k \in DerivedKeys, OtherClusterRegisters(c, k)
        PROVE  /\ deployed' \in SUBSET Contracts /\ stock' \in SUBSET Contracts
               /\ bound' \in [Contracts -> {"none", "this", "other"}]
               /\ wallet' \in [Contracts -> DerivedKeys \cup {None}]
               /\ (MembersOwnTheirWallets /\ UnboundHaveNoOwner)'
    BY <2>1, <2>4 DEF OtherClusterRegisters, TypeOK, MembersOwnTheirWallets, UnboundHaveNoOwner
  <2> QED BY <2>0, <2>2, <2>3, <2>4
<1>4. TypeOK'
  BY <1>1, <1>2 DEF TypeOK, ownerVars, policyVars, registryVars
<1>3. ReleasesApproved'
  <2>0. PICK c \in Contracts :
          \/ \E cluster \in {"this", "other"} : \/ DeployMember(c, cluster)
                                                \/ ReinitializeFromDstackApp(c, cluster)
          \/ ProvisionStock(c)
          \/ \E k \in DerivedKeys : OtherClusterRegisters(c, k)
    BY DEF FactoryStep
  <2>1. UNCHANGED <<appIds, approved, idOf, issued>>
    BY <1>1 DEF policyVars, registryVars
  <2>2. \A p \in issued : p[1] \in Contracts
    BY DEF TypeOK
  <2>3. ASSUME NEW cluster \in {"this", "other"}, DeployMember(c, cluster)
        PROVE  ReleasesApproved'
    BY <2>1, <2>2, <2>3 DEF DeployMember, TypeOK, ReleasesApproved
  <2>4. ASSUME NEW cluster \in {"this", "other"}, ReinitializeFromDstackApp(c, cluster)
        PROVE  ReleasesApproved'
    BY <2>1, <2>2, <2>4 DEF ReinitializeFromDstackApp, TypeOK, ReleasesApproved
  <2>5. CASE ProvisionStock(c) \/ \E k \in DerivedKeys : OtherClusterRegisters(c, k)
    BY <2>1, <2>5 DEF ProvisionStock, OtherClusterRegisters, ReleasesApproved
  <2> QED BY <2>0, <2>3, <2>4, <2>5
<1>5. (MirrorAgrees /\ PendingNamedByOwner)'
  BY <1>1 DEF ownerVars, registryVars, MirrorAgrees, PendingNamedByOwner
<1>6. (MembersIntroduced /\ MessagesIntroduced /\ EnvelopesConsumed /\ EnvelopesUnique)'
  BY <1>1 DEF registryVars, MembersIntroduced, Introduced, MessagesIntroduced,
       EnvelopesConsumed, EnvelopesUnique
<1> QED BY <1>2, <1>3, <1>4, <1>5, <1>6

-----------------------------------------------------------------------------
Event == [type : {"registered", "wg", "message", "csk"}, member : Contracts \cup {None},
          key : WgKeys \cup Envelopes \cup Commitments \cup {None}]

\* The facts about the log, together.
LogFacts == MembersIntroduced /\ MessagesIntroduced /\ EnvelopesConsumed /\ EnvelopesUnique

\* An event that is no message keeps the facts about the log.
LEMMA QuietEvent ==
  ASSUME events \in Seq(Event), LogFacts, NEW ev \in Event, ev.type # "message",
         events' = Append(events, ev), idOf' = idOf, nonces' = nonces
  PROVE  LogFacts' /\ events' \in Seq(Event)
<1>1. /\ events' \in Seq(Event)
      /\ DOMAIN events' = 1 .. Len(events) + 1 /\ DOMAIN events = 1 .. Len(events)
      /\ Len(events) \in Nat
      /\ \A i \in 1 .. Len(events) : events'[i] = events[i]
      /\ events'[Len(events) + 1] = ev
  OBVIOUS
<1>2. \A i \in DOMAIN events' : events'[i].type = "message" =>
                                  i \in DOMAIN events /\ events'[i] = events[i]
  BY <1>1
<1>3. \A i \in DOMAIN events : i \in DOMAIN events' /\ events'[i] = events[i]
  BY <1>1
<1>4. MembersIntroduced'
  BY <1>3 DEF LogFacts, MembersIntroduced, Introduced
<1>5. MessagesIntroduced'
  BY <1>2, <1>3 DEF LogFacts, MessagesIntroduced
<1>6. (EnvelopesConsumed /\ EnvelopesUnique)'
  BY <1>2 DEF LogFacts, EnvelopesConsumed, EnvelopesUnique
<1> QED BY <1>1, <1>4, <1>5, <1>6 DEF LogFacts

\* A message to a member under a fresh envelope id keeps the facts about the log.
LEMMA MessageEvent ==
  ASSUME events \in Seq(Event), LogFacts, NEW r \in idOf, NEW e,
         MessageSent(r, e) \in Event, <<r, e>> \notin nonces,
         events' = Append(events, MessageSent(r, e)), idOf' = idOf,
         nonces' = nonces \cup {<<r, e>>}
  PROVE  LogFacts' /\ events' \in Seq(Event)
<1>1. /\ events' \in Seq(Event)
      /\ DOMAIN events' = 1 .. Len(events) + 1 /\ DOMAIN events = 1 .. Len(events)
      /\ Len(events) \in Nat
      /\ \A i \in 1 .. Len(events) : events'[i] = events[i]
      /\ events'[Len(events) + 1] = MessageSent(r, e)
  OBVIOUS
<1>2. /\ MessageSent(r, e).member = r /\ MessageSent(r, e).key = e
      /\ MessageSent(r, e).type = "message"
  BY DEF MessageSent
<1>3. \A i \in DOMAIN events : i \in DOMAIN events' /\ events'[i] = events[i]
  BY <1>1
<1>4. MembersIntroduced'
  BY <1>3 DEF LogFacts, MembersIntroduced, Introduced
<1>5. MessagesIntroduced'
  <2> SUFFICES ASSUME NEW i \in DOMAIN events', events'[i].type = "message"
               PROVE  \E j \in DOMAIN events' : /\ j < i
                                                /\ events'[j].type = "registered"
                                                /\ events'[j].member = events'[i].member
    BY DEF MessagesIntroduced
  <2>1. CASE i \in DOMAIN events
    BY <2>1, <1>3 DEF LogFacts, MessagesIntroduced
  <2>2. CASE i = Len(events) + 1
    <3>1. PICK j \in DOMAIN events : events[j].type = "registered" /\ events[j].member = r
      BY DEF LogFacts, MembersIntroduced, Introduced
    <3> QED BY <3>1, <2>2, <1>1, <1>2
  <2> QED BY <2>1, <2>2, <1>1
<1>6. EnvelopesConsumed'
  BY <1>1, <1>2 DEF LogFacts, EnvelopesConsumed
<1>7. EnvelopesUnique'
  <2> SUFFICES ASSUME NEW i \in DOMAIN events', NEW j \in DOMAIN events',
                      events'[i].type = "message", events'[i] = events'[j]
               PROVE  i = j
    BY DEF EnvelopesUnique
  <2>1. CASE i \in DOMAIN events /\ j \in DOMAIN events
    BY <2>1, <1>3 DEF LogFacts, EnvelopesUnique
  <2>2. \A n \in DOMAIN events : events[n] # MessageSent(r, e)
    BY <1>2 DEF LogFacts, EnvelopesConsumed
  <2> QED BY <2>1, <2>2, <1>1
<1> QED BY <1>1, <1>4, <1>5, <1>6, <1>7 DEF LogFacts

\* Two elements at the end of a sequence.
LEMMA TwoMore ==
  ASSUME NEW S, NEW s \in Seq(S), NEW a \in S, NEW b \in S
  PROVE  /\ s \o <<a, b>> \in Seq(S)
         /\ DOMAIN (s \o <<a, b>>) = 1 .. Len(s) + 2 /\ DOMAIN s = 1 .. Len(s)
         /\ Len(s) \in Nat
         /\ \A i \in 1 .. Len(s) : (s \o <<a, b>>)[i] = s[i]
         /\ (s \o <<a, b>>)[Len(s) + 1] = a /\ (s \o <<a, b>>)[Len(s) + 2] = b
<1> DEFINE two == <<a, b>>
<1>1. two \in Seq(S) /\ Len(two) = 2 /\ two[1] = a /\ two[2] = b
  OBVIOUS
<1>2. Len(s) \in Nat /\ DOMAIN s = 1 .. Len(s)
  OBVIOUS
<1> HIDE DEF two
<1>3. /\ s \o two \in Seq(S)
      /\ Len(s \o two) = Len(s) + Len(two)
      /\ \A i \in 1 .. Len(s) + Len(two) :
           (s \o two)[i] = IF i <= Len(s) THEN s[i] ELSE two[i - Len(s)]
  BY <1>1, ConcatProperties
<1>4. DOMAIN (s \o two) = 1 .. Len(s) + 2
  BY <1>1, <1>3
<1>5. \A i \in 1 .. Len(s) : (s \o two)[i] = s[i]
  BY <1>1, <1>2, <1>3
<1>6. (s \o two)[Len(s) + 1] = a /\ (s \o two)[Len(s) + 2] = b
  BY <1>1, <1>2, <1>3
<1> QED BY <1>2, <1>3, <1>4, <1>5, <1>6 DEF two

\* A registration: record, key, wallet owner and events move together.
LEMMA RegisterInv ==
  ASSUME IInv, NEW c \in Contracts, NEW r \in Roots, NEW k \in DerivedKeys,
         NEW key \in WgKeys, DstackRegister(c, r, k, key)
  PROVE  IInv'
<1> USE DEF IInv
<1>1. UNCHANGED <<ownerVars, policyVars, ed, csk, nonces, deployed, bound, stock, admin>>
  BY DEF DstackRegister
<1>2. /\ c \notin idOf /\ idOf' = idOf \cup {c} /\ memberIds' = Append(memberIds, c)
      /\ wg' = [wg EXCEPT ![c] = key] /\ wgMirror' = [wgMirror EXCEPT ![c] = key]
      /\ bound[c] = "this" /\ wallet' = [wallet EXCEPT ![c] = k]
      /\ events' = events \o <<Registered(c, key), WgPublished(c, key)>>
      /\ <<c, r>> \in issued /\ (c \in deployed \/ c \in appIds)
  BY DEF DstackRegister, AddMember, SetWgPubKey, SetOwnerFromCluster, ProofAccepted
<1>3. /\ Registered(c, key) \in Event /\ WgPublished(c, key) \in Event
      /\ Registered(c, key).type = "registered" /\ Registered(c, key).member = c
      /\ WgPublished(c, key).type = "wg"
  BY DEF Event, Registered, WgPublished
<1>4. events \in Seq(Event)
  BY DEF TypeOK, Event
<1>5. /\ events' \in Seq(Event)
      /\ DOMAIN events' = 1 .. Len(events) + 2 /\ DOMAIN events = 1 .. Len(events)
      /\ Len(events) \in Nat
      /\ \A i \in 1 .. Len(events) : events'[i] = events[i]
      /\ events'[Len(events) + 1] = Registered(c, key)
      /\ events'[Len(events) + 2] = WgPublished(c, key)
  <2>1. PICK old \in Seq(Event) : old = events
    BY <1>4
  <2>2. PICK a \in Event : a = Registered(c, key)
    BY <1>3
  <2>3. PICK b \in Event : b = WgPublished(c, key)
    BY <1>3
  <2>4. events' = old \o <<a, b>>
    BY <1>2, <2>1, <2>2, <2>3
  <2> QED BY <2>1, <2>2, <2>3, <2>4, TwoMore
<1>6. MembersOwnTheirWallets'
  BY <1>1, <1>2, DiamondAssumption DEF MembersOwnTheirWallets, TypeOK
<1>7. (MirrorAgrees /\ UnboundHaveNoOwner)'
  BY <1>1, <1>2 DEF MirrorAgrees, TypeOK, UnboundHaveNoOwner
<1>8. ReleasesApproved'
  BY <1>1, <1>2 DEF ReleasesApproved, policyVars
<1>9. PendingNamedByOwner'
  BY <1>1 DEF PendingNamedByOwner, ownerVars
<1>10. TypeOK'
  <2>1. /\ memberIds' \in Seq(Contracts) /\ idOf' \in SUBSET Contracts
        /\ wgMirror' \in [Contracts -> WgKeys \cup {None}]
        /\ wg' \in [Contracts -> WgKeys \cup {None}]
        /\ wallet' \in [Contracts -> DerivedKeys \cup {None}]
    BY <1>2 DEF TypeOK
  <2> QED BY <2>1, <1>1, <1>5 DEF TypeOK, Event, ownerVars, policyVars
<1>11. MembersIntroduced'
  <2>1. \A d \in idOf : Introduced(d)'
    BY <1>5 DEF MembersIntroduced, Introduced
  <2>2. Introduced(c)'
    <3>1. Len(events) + 1 \in DOMAIN events'
      BY <1>5
    <3> QED BY <3>1, <1>3, <1>5 DEF Introduced
  <2> QED BY <2>1, <2>2, <1>2 DEF MembersIntroduced
<1>12. \A i \in DOMAIN events' : events'[i].type = "message" =>
                                   i \in DOMAIN events /\ events'[i] = events[i]
  BY <1>3, <1>5
<1>13. MessagesIntroduced'
  BY <1>5, <1>12 DEF MessagesIntroduced
<1>14. EnvelopesConsumed'
  BY <1>1, <1>12 DEF EnvelopesConsumed
<1>15. EnvelopesUnique'
  BY <1>12 DEF EnvelopesUnique
<1> QED BY <1>6, <1>7, <1>8, <1>9, <1>10, <1>11, <1>13, <1>14, <1>15

\* Messages of members and of the owner, which share the recipient's envelope ids.
LEMMA DeliveryInv ==
  ASSUME IInv, NEW r \in Contracts, NEW e \in Envelopes, admin' = admin,
         r \in idOf, <<r, e>> \notin nonces, nonces' = nonces \cup {<<r, e>>},
         events' = Append(events, MessageSent(r, e)),
         UNCHANGED <<ownerVars, policyVars, registryVars, ed, csk, factoryVars>>
  PROVE  IInv'
<1> USE DEF IInv
<1>1. events \in Seq(Event) /\ LogFacts
  BY DEF TypeOK, Event, LogFacts
<1>2. MessageSent(r, e) \in Event
  BY DEF MessageSent, Event
<1>3. idOf' = idOf
  BY DEF registryVars
<1>4. LogFacts' /\ events' \in Seq(Event)
  BY <1>1, <1>2, <1>3, MessageEvent
<1>5. nonces' \in SUBSET (Contracts \X Envelopes)
  BY DEF TypeOK
<1>6. TypeOK'
  BY <1>4, <1>5 DEF TypeOK, Event, ownerVars, policyVars, registryVars, factoryVars
<1>7. (MembersOwnTheirWallets /\ UnboundHaveNoOwner /\ MirrorAgrees)'
  BY DEF factoryVars, registryVars, MembersOwnTheirWallets, UnboundHaveNoOwner, MirrorAgrees
<1>8. (ReleasesApproved /\ PendingNamedByOwner)'
  BY DEF ownerVars, policyVars, registryVars, factoryVars, ReleasesApproved,
         PendingNamedByOwner
<1> QED BY <1>4, <1>6, <1>7, <1>8 DEF LogFacts

\* The owner's commands.
LEMMA CommandInv ==
  ASSUME IInv, CommandStep
  PROVE  IInv'
<1>1. PICK r \in Contracts, e \in Envelopes : SendOwnerCommand(r, e)
  BY DEF CommandStep
<1> QED BY <1>1, DeliveryInv DEF SendOwnerCommand

\* A member's own calls.
LEMMA CallInv ==
  ASSUME IInv, NEW c \in Contracts, NEW k \in DerivedKeys,
         \/ \E key \in WgKeys : PublishWgKey(c, k, key) \/ PublishEd25519Key(c, k, key)
         \/ \E v \in Commitments \cup {None} : SetCskCommitment(c, k, v)
         \/ \E r \in Contracts, e \in Envelopes : Send(c, k, r, e)
  PROVE  IInv'
<1> USE DEF IInv
<1>1. ASSUME NEW r \in Contracts, NEW e \in Envelopes, Send(c, k, r, e)
      PROVE  IInv'
  BY <1>1, DeliveryInv DEF Send
<1>2. CASE \/ \E key \in WgKeys : PublishWgKey(c, k, key) \/ PublishEd25519Key(c, k, key)
           \/ \E v \in Commitments \cup {None} : SetCskCommitment(c, k, v)
  <2>1. UNCHANGED <<ownerVars, policyVars, memberIds, idOf, factoryVars, admin>>
    BY <1>2 DEF PublishWgKey, PublishEd25519Key, SetCskCommitment, registryVars
  <2>2. events \in Seq(Event) /\ LogFacts
    BY DEF TypeOK, Event, LogFacts
  <2>3. /\ wg' \in [Contracts -> WgKeys \cup {None}]
        /\ wgMirror' \in [Contracts -> WgKeys \cup {None}]
        /\ ed' \in [Contracts -> WgKeys \cup {None}]
        /\ csk' \in Commitments \cup {None}
        /\ nonces' \in SUBSET (Contracts \X Envelopes)
        /\ events' \in Seq(Event)
        /\ LogFacts' /\ MirrorAgrees'
    <3>1. ASSUME NEW key \in WgKeys, PublishWgKey(c, k, key)
          PROVE  <2>3!:
      <4>1. WgPublished(c, key) \in Event /\ WgPublished(c, key).type # "message"
        BY DEF WgPublished, Event
      <4>2. LogFacts' /\ events' \in Seq(Event)
        BY <3>1, <4>1, <2>1, <2>2, QuietEvent DEF PublishWgKey
      <4> QED BY <3>1, <4>2 DEF PublishWgKey, SetWgPubKey, TypeOK, MirrorAgrees
    <3>2. ASSUME NEW key \in WgKeys, PublishEd25519Key(c, k, key)
          PROVE  <2>3!:
      <4>1. LogFacts'
        BY <3>2, <2>2 DEF PublishEd25519Key, registryVars, LogFacts, MembersIntroduced,
             Introduced, MessagesIntroduced, EnvelopesConsumed, EnvelopesUnique
      <4> QED BY <3>2, <4>1, <2>2 DEF PublishEd25519Key, registryVars, TypeOK, MirrorAgrees
    <3>3. ASSUME NEW v \in Commitments \cup {None}, SetCskCommitment(c, k, v)
          PROVE  <2>3!:
      <4>1. CskSet(v) \in Event /\ CskSet(v).type # "message"
        BY DEF CskSet, Event
      <4>2. LogFacts' /\ events' \in Seq(Event)
        BY <3>3, <4>1, <2>1, <2>2, QuietEvent DEF SetCskCommitment
      <4> QED BY <3>3, <4>2 DEF SetCskCommitment, registryVars, TypeOK, MirrorAgrees
    <3> QED BY <1>2, <3>1, <3>2, <3>3
  <2>4. TypeOK'
    BY <2>1, <2>3 DEF TypeOK, Event, ownerVars, policyVars, factoryVars
  <2>5. (MembersOwnTheirWallets /\ UnboundHaveNoOwner)'
    BY <2>1 DEF factoryVars, MembersOwnTheirWallets, UnboundHaveNoOwner
  <2>6. (ReleasesApproved /\ PendingNamedByOwner)'
    BY <2>1 DEF ownerVars, policyVars, factoryVars, ReleasesApproved, PendingNamedByOwner
  <2> QED BY <2>3, <2>4, <2>5, <2>6 DEF LogFacts
<1> QED BY <1>1, <1>2

\* The inductive invariant holds throughout.
THEOREM Invariance == Spec => []IInv
<1>1. ASSUME IInv, [Next]_vars PROVE IInv'
  <2>1. CASE OwnerStep \/ PolicyStep
    <3>1. admin' \in 0 .. MaxAdmin
      BY <1>1, <2>1, DiamondAssumption
      DEF IInv, TypeOK, AdminTx, OwnerStep, PolicyStep, TransferClusterOwnership,
          AcceptClusterOwnership, TransferOwnership, AcceptOwnership, TransferBothOwners,
          AcceptBothOwners, SetKmsRoot, SetAppId, SetComposeHash, SetDevice,
          SetRequireTcbUpToDate
    <3> QED BY <1>1, <2>1, <3>1, OwnerInv, PolicyInv
  <2>2. CASE KmsStep \/ FactoryStep
    <3>1. admin' \in 0 .. MaxAdmin
      BY <1>1, <2>2
      DEF IInv, TypeOK, KmsStep, FactoryStep, KmsIssue, DeployMember, ProvisionStock,
          ReinitializeFromDstackApp, OtherClusterRegisters
    <3> QED BY <1>1, <2>2, <3>1, PolicyInv, FactoryInv
  <2>3. CASE MemberStep
    <3>1. PICK c \in Contracts, k \in DerivedKeys :
            \/ \E key \in WgKeys : \/ \E r \in Roots : DstackRegister(c, r, k, key)
                                   \/ PublishWgKey(c, k, key)
                                   \/ PublishEd25519Key(c, k, key)
            \/ \E v \in Commitments \cup {None} : SetCskCommitment(c, k, v)
            \/ \E r \in Contracts, e \in Envelopes : Send(c, k, r, e)
      BY <2>3 DEF MemberStep
    <3>2. CASE \E key \in WgKeys, r \in Roots : DstackRegister(c, r, k, key)
      BY <1>1, <2>3, <3>2, RegisterInv
    <3>3. CASE \/ \E key \in WgKeys : PublishWgKey(c, k, key) \/ PublishEd25519Key(c, k, key)
               \/ \E v \in Commitments \cup {None} : SetCskCommitment(c, k, v)
               \/ \E r \in Contracts, e \in Envelopes : Send(c, k, r, e)
      BY <1>1, <2>3, <3>3, CallInv
    <3> QED BY <3>1, <3>2, <3>3
  <2>4. CASE CommandStep
    BY <1>1, <2>4, CommandInv
  <2>5. CASE UNCHANGED vars
    BY <1>1, <2>5
    DEF vars, ownerVars, policyVars, registryVars, factoryVars, IInv, TypeOK,
        MembersOwnTheirWallets, MirrorAgrees, ReleasesApproved, MembersIntroduced, Introduced,
        MessagesIntroduced, EnvelopesConsumed, EnvelopesUnique, PendingNamedByOwner,
        UnboundHaveNoOwner
  <2> QED BY <1>1, <2>1, <2>2, <2>3, <2>4, <2>5 DEF Next
<1> QED BY <1>1, InitInv, PTL DEF Spec

\* Only app ids the owner has approved become members, whoever registers them and
\* however the policy changes between boot and registration (DstackFacet).
THEOREM Admission == Spec => []OnlyApprovedJoin
<1>1. IInv => OnlyApprovedJoin
  BY DEF IInv, ReleasesApproved, OnlyApprovedJoin
<1> QED BY <1>1, Invariance, PTL

\* A contract is a member exactly when it is bound to this cluster and owns its
\* wallet (dstack_register with __setOwnerFromCluster).
THEOREM Membership == Spec => []MembersOwnTheirWallets
<1>1. IInv => MembersOwnTheirWallets
  BY DEF IInv
<1> QED BY <1>1, Invariance, PTL

\* The two copies of a member's wireguard key agree (_writeWg, _setWgMirror).
THEOREM Mirror == Spec => []MirrorAgrees
<1>1. IInv => MirrorAgrees
  BY DEF IInv
<1> QED BY <1>1, Invariance, PTL

\* A message event follows its recipient's registration event (MessageFacet).
THEOREM Introduction == Spec => []MessagesIntroduced
<1>1. IInv => MessagesIntroduced
  BY DEF IInv
<1> QED BY <1>1, Invariance, PTL

\* No envelope id reaches a recipient twice (send and sendOwnerCommand).
THEOREM Uniqueness == Spec => []EnvelopesUnique
<1>1. IInv => EnvelopesUnique
  BY DEF IInv
<1> QED BY <1>1, Invariance, PTL

\* No proposal outlives the ownership it was made under (AttestFacet, SafeOwnable).
THEOREM Ownership == Spec => []PendingNamedByOwner
<1>1. IInv => PendingNamedByOwner
  BY DEF IInv
<1> QED BY <1>1, Invariance, PTL

\* Every slot has its type, and no owner slot is ever the zero address.
THEOREM TypeCorrect == Spec => []TypeOK
<1>1. IInv => TypeOK
  BY DEF IInv
<1> QED BY <1>1, Invariance, PTL

-----------------------------------------------------------------------------
\* What the log rebuilds of the canonical copies: the network facet's keys and the
\* commitment.
KeysRebuilt ==
    /\ \A i \in DOMAIN events, c \in Contracts :
         AboutKey(i, c) /\ (\A j \in DOMAIN events : AboutKey(j, c) => j <= i)
           => events[i].key = wg[c]
    /\ \A i \in DOMAIN events :
         events[i].type = "csk" /\ (\A j \in DOMAIN events : events[j].type = "csk" => j <= i)
           => events[i].key = csk

\* An event at the end of the log that carries what the transaction wrote keeps the
\* log sufficient to rebuild the keys and the commitment.
LEMMA RebuildAppend ==
  ASSUME events \in Seq(Event), KeysRebuilt, NEW ev \in Event,
         events' = Append(events, ev),
         ev.type \in {"registered", "wg"} => wg'[ev.member] = ev.key,
         \A c \in Contracts :
           ~ (ev.type \in {"registered", "wg"} /\ ev.member = c) => wg'[c] = wg[c],
         csk' = IF ev.type = "csk" THEN ev.key ELSE csk
  PROVE  KeysRebuilt'
<1>1. /\ DOMAIN events' = 1 .. Len(events) + 1 /\ DOMAIN events = 1 .. Len(events)
      /\ Len(events) \in Nat
      /\ \A i \in 1 .. Len(events) : events'[i] = events[i]
      /\ events'[Len(events) + 1] = ev
  OBVIOUS
<1> DEFINE last == Len(events) + 1
<1>2. ASSUME NEW i \in DOMAIN events', NEW c \in Contracts, AboutKey(i, c)',
             \A j \in DOMAIN events' : AboutKey(j, c)' => j <= i
      PROVE  events'[i].key = wg'[c]
  <2>1. CASE i = last
    BY <1>1, <1>2, <2>1 DEF AboutKey
  <2>2. CASE i # last
    <3>1. i \in DOMAIN events /\ events'[i] = events[i] /\ i < last
      BY <1>1, <2>2
    <3>2. wg'[c] = wg[c]
      <4>1. last \in DOMAIN events' /\ ~ (last <= i)
        BY <1>1, <3>1
      <4>2. ~ (events'[last].type \in {"registered", "wg"} /\ events'[last].member = c)
        BY <1>2, <4>1 DEF AboutKey
      <4> QED BY <1>1, <4>2
    <3>3. AboutKey(i, c) /\ \A j \in DOMAIN events : AboutKey(j, c) => j <= i
      BY <1>1, <1>2, <3>1 DEF AboutKey
    <3> QED BY <3>1, <3>2, <3>3 DEF KeysRebuilt
  <2> QED BY <2>1, <2>2
<1>3. ASSUME NEW i \in DOMAIN events', events'[i].type = "csk",
             \A j \in DOMAIN events' : events'[j].type = "csk" => j <= i
      PROVE  events'[i].key = csk'
  <2>1. CASE i = last
    BY <1>1, <1>3, <2>1
  <2>2. CASE i # last
    <3>1. i \in DOMAIN events /\ events'[i] = events[i] /\ i < last
      BY <1>1, <2>2
    <3>2. ev.type # "csk"
      BY <1>1, <1>3, <3>1
    <3>3. events[i].type = "csk" /\ \A j \in DOMAIN events : events[j].type = "csk" => j <= i
      BY <1>1, <1>3, <3>1
    <3> QED BY <3>1, <3>2, <3>3 DEF KeysRebuilt
  <2> QED BY <2>1, <2>2
<1> QED BY <1>2, <1>3 DEF KeysRebuilt

\* A registration's two events carry the key it wrote.
LEMMA RebuildRegister ==
  ASSUME TypeOK, KeysRebuilt, NEW c \in Contracts, NEW key \in WgKeys,
         events' = events \o <<Registered(c, key), WgPublished(c, key)>>,
         wg' = [wg EXCEPT ![c] = key], csk' = csk
  PROVE  KeysRebuilt'
<1>1. /\ Registered(c, key) \in Event /\ WgPublished(c, key) \in Event
      /\ Registered(c, key).type = "registered" /\ Registered(c, key).member = c
      /\ WgPublished(c, key).type = "wg" /\ WgPublished(c, key).member = c
      /\ WgPublished(c, key).key = key
  BY DEF Event, Registered, WgPublished
<1>2. events \in Seq(Event) /\ wg \in [Contracts -> WgKeys \cup {None}]
  BY DEF TypeOK, Event
<1>3. /\ DOMAIN events' = 1 .. Len(events) + 2 /\ DOMAIN events = 1 .. Len(events)
      /\ Len(events) \in Nat
      /\ \A i \in 1 .. Len(events) : events'[i] = events[i]
      /\ events'[Len(events) + 1] = Registered(c, key)
      /\ events'[Len(events) + 2] = WgPublished(c, key)
  <2>1. PICK old \in Seq(Event) : old = events
    BY <1>2
  <2>2. PICK a \in Event : a = Registered(c, key)
    BY <1>1
  <2>3. PICK b \in Event : b = WgPublished(c, key)
    BY <1>1
  <2>4. events' = old \o <<a, b>>
    BY <2>1, <2>2, <2>3
  <2> QED BY <2>1, <2>2, <2>3, <2>4, TwoMore
<1> DEFINE last == Len(events) + 2
<1>4. ASSUME NEW i \in DOMAIN events', NEW d \in Contracts, AboutKey(i, d)',
             \A j \in DOMAIN events' : AboutKey(j, d)' => j <= i
      PROVE  events'[i].key = wg'[d]
  <2>1. CASE d = c
    <3>1. /\ last \in DOMAIN events' /\ events'[last].type \in {"registered", "wg"}
          /\ events'[last].member = c
      BY <1>1, <1>3
    <3>2. last <= i
      BY <1>4, <2>1, <3>1 DEF AboutKey
    <3>3. i = last
      BY <1>3, <3>2
    <3> QED BY <1>1, <1>2, <1>3, <2>1, <3>3
  <2>2. CASE d # c
    <3>1. i \in DOMAIN events /\ events'[i] = events[i]
      BY <1>1, <1>3, <1>4, <2>2 DEF AboutKey
    <3>2. AboutKey(i, d) /\ \A j \in DOMAIN events : AboutKey(j, d) => j <= i
      BY <1>3, <1>4, <3>1 DEF AboutKey
    <3> QED BY <1>2, <2>2, <3>1, <3>2 DEF KeysRebuilt
  <2> QED BY <2>1, <2>2
<1>5. ASSUME NEW i \in DOMAIN events', events'[i].type = "csk",
             \A j \in DOMAIN events' : events'[j].type = "csk" => j <= i
      PROVE  events'[i].key = csk'
  <2>1. i \in DOMAIN events /\ events'[i] = events[i]
    BY <1>1, <1>3, <1>5
  <2>2. events[i].type = "csk" /\ \A j \in DOMAIN events : events[j].type = "csk" => j <= i
    BY <1>3, <1>5, <2>1
  <2> QED BY <2>1, <2>2 DEF KeysRebuilt
<1> QED BY <1>4, <1>5 DEF KeysRebuilt

\* The event log alone is enough to rebuild both copies of each member's key and the
\* commitment, after registrations, rotations, messages and commitments in any order
\* (the Indexer's and the sidecars' read of the chain).
THEOREM LogRebuilds == Spec => []EventsRebuildState
<1>1. Init => KeysRebuilt
  BY DEF Init, KeysRebuilt
<1>2. ASSUME IInv, KeysRebuilt, [Next]_vars PROVE KeysRebuilt'
  <2>0. TypeOK /\ events \in Seq(Event) /\ wg \in [Contracts -> WgKeys \cup {None}]
    BY <1>2 DEF IInv, TypeOK, Event
  <2>1. CASE UNCHANGED <<events, wg, csk>>
    BY <1>2, <2>1 DEF KeysRebuilt, AboutKey
  <2>2. OwnerStep \/ PolicyStep \/ KmsStep \/ FactoryStep \/ UNCHANGED vars
          => UNCHANGED <<events, wg, csk>>
    BY DEF OwnerStep, PolicyStep, KmsStep, FactoryStep, AcceptClusterOwnership,
       AcceptOwnership, AcceptBothOwners, TransferClusterOwnership, TransferOwnership,
       TransferBothOwners, SetKmsRoot, SetAppId, SetComposeHash, SetDevice,
       SetRequireTcbUpToDate, KmsIssue, DeployMember, ReinitializeFromDstackApp,
       ProvisionStock, OtherClusterRegisters, registryVars, vars
  <2>3. ASSUME NEW c \in Contracts, NEW r \in Roots, NEW k \in DerivedKeys,
               NEW key \in WgKeys, DstackRegister(c, r, k, key)
        PROVE  KeysRebuilt'
    BY <1>2, <2>0, <2>3, RebuildRegister DEF DstackRegister, SetWgPubKey
  <2>4. ASSUME NEW c \in Contracts, NEW k \in DerivedKeys, NEW key \in WgKeys,
               PublishWgKey(c, k, key)
        PROVE  KeysRebuilt'
    <3>1. /\ events' = Append(events, WgPublished(c, key)) /\ csk' = csk
          /\ wg' = [wg EXCEPT ![c] = key]
      BY <2>4 DEF PublishWgKey, SetWgPubKey
    <3>2. /\ WgPublished(c, key) \in Event /\ WgPublished(c, key).type = "wg"
          /\ WgPublished(c, key).member = c /\ WgPublished(c, key).key = key
      BY DEF WgPublished, Event
    <3>3. wg'[c] = key /\ \A d \in Contracts : d # c => wg'[d] = wg[d]
      BY <2>0, <3>1
    <3> QED BY <1>2, <2>0, <3>1, <3>2, <3>3, RebuildAppend
  <2>5. ASSUME NEW c \in Contracts, NEW k \in DerivedKeys,
               NEW v \in Commitments \cup {None}, SetCskCommitment(c, k, v)
        PROVE  KeysRebuilt'
    <3>1. events' = Append(events, CskSet(v)) /\ csk' = v /\ wg' = wg
      BY <2>5 DEF SetCskCommitment, registryVars
    <3>2. CskSet(v) \in Event /\ CskSet(v).type = "csk" /\ CskSet(v).key = v
      BY DEF CskSet, Event
    <3> QED BY <1>2, <2>0, <3>1, <3>2, RebuildAppend
  <2>6. ASSUME NEW r \in Contracts, NEW e \in Envelopes,
               events' = Append(events, MessageSent(r, e)), UNCHANGED <<wg, csk>>
        PROVE  KeysRebuilt'
    <3>1. MessageSent(r, e) \in Event /\ MessageSent(r, e).type = "message"
      BY DEF MessageSent, Event
    <3> QED BY <1>2, <2>0, <2>6, <3>1, RebuildAppend
  <2>7. CASE MemberStep
    <3>1. PICK c \in Contracts, k \in DerivedKeys :
            \/ \E key \in WgKeys : \/ \E r \in Roots : DstackRegister(c, r, k, key)
                                   \/ PublishWgKey(c, k, key)
                                   \/ PublishEd25519Key(c, k, key)
            \/ \E v \in Commitments \cup {None} : SetCskCommitment(c, k, v)
            \/ \E r \in Contracts, e \in Envelopes : Send(c, k, r, e)
      BY <2>7 DEF MemberStep
    <3>2. ASSUME NEW key \in WgKeys, PublishEd25519Key(c, k, key)
          PROVE  UNCHANGED <<events, wg, csk>>
      BY <3>2 DEF PublishEd25519Key, registryVars
    <3>3. ASSUME NEW r \in Contracts, NEW e \in Envelopes, Send(c, k, r, e)
          PROVE  events' = Append(events, MessageSent(r, e)) /\ UNCHANGED <<wg, csk>>
      BY <3>3 DEF Send, registryVars
    <3> QED BY <3>1, <3>2, <3>3, <2>1, <2>3, <2>4, <2>5, <2>6
  <2>8. CASE CommandStep
    <3>1. PICK r \in Contracts, e \in Envelopes : SendOwnerCommand(r, e)
      BY <2>8 DEF CommandStep
    <3>2. events' = Append(events, MessageSent(r, e)) /\ UNCHANGED <<wg, csk>>
      BY <3>1 DEF SendOwnerCommand, registryVars
    <3> QED BY <3>2, <2>6
  <2> QED BY <1>2, <2>1, <2>2, <2>7, <2>8 DEF Next
<1>3. IInv /\ KeysRebuilt => EventsRebuildState
  BY DEF IInv, MirrorAgrees, KeysRebuilt, EventsRebuildState
<1> QED BY <1>1, <1>2, <1>3, Invariance, PTL DEF Spec

-----------------------------------------------------------------------------
(* The shared key.  Every place a key can be in, the chain, a pass, a      *)
(* cache or memory, holds the key of the first member or nothing; only the *)
(* answers of peers may hold another key.                                  *)

\* The types of the variables the invariant mentions.
KeyTypes ==
    /\ members \in Seq(Nodes)
    /\ commitment \in Nodes \cup {NoNode}
    /\ mempool \in SUBSET Nodes
    /\ disk \in [Nodes -> Nodes \cup {NoNode}]
    /\ held \in [Nodes -> Nodes \cup {NoNode}]
    /\ orig \in [Nodes -> Nodes \cup {NoNode}]
    /\ seen \in [Nodes -> Nodes \cup {NoNode}]
    /\ fresh \in [Nodes -> Nodes \cup {NoNode}]
    /\ pc \in [Nodes -> {"idle", "read", "missed", "submit", "pull", "store", "hold", "done"}]

\* Whatever is known as originator or kept as key is f, and only f submits.
OneKey(f) ==
    /\ commitment \in {NoNode, f}
    /\ mempool \subseteq {f}
    /\ \A n \in Nodes :
         /\ orig[n] \in {NoNode, f}
         /\ seen[n] \in {NoNode, f}
         /\ fresh[n] \in {NoNode, f}
         /\ disk[n] \in {NoNode, f}
         /\ held[n] \in {NoNode, f}
         /\ pc[n] = "submit" => n = f

KeyInv == KeyTypes /\ OneKey(First)

\* The variables KeyInv mentions.
keyVars == <<members, commitment, mempool, disk, held, orig, seen, fresh, pc>>

-----------------------------------------------------------------------------
LEMMA KeyInitHolds == CskInit => KeyInv
BY DEF CskInit, KeyInv, KeyTypes, OneKey, First

LEMMA KeyFrameStep == KeyInv /\ UNCHANGED keyVars => KeyInv'
BY DEF KeyInv, KeyTypes, OneKey, First, keyVars

\* The first registration finds no key anywhere, a later one keeps the first member.
LEMMA RegisterStep ==
    ASSUME KeyInv, NEW n \in Nodes, Register(n)
    PROVE  KeyInv'
<1>1. KeyTypes'
  BY DEF KeyInv, KeyTypes, Register, passVars
<1>2. CASE members = <<>>
  <2>1. First = NoNode
    BY <1>2 DEF First
  <2>2. members' = <<n>> /\ First' = n
    BY <1>2 DEF First, Register
  <2>3. /\ commitment = NoNode /\ mempool = {}
        /\ \A m \in Nodes : /\ orig[m] = NoNode /\ seen[m] = NoNode /\ fresh[m] = NoNode
                            /\ disk[m] = NoNode /\ held[m] = NoNode /\ pc[m] # "submit"
    BY <2>1, CskAssumption DEF KeyInv, KeyTypes, OneKey
  <2>4. OneKey(n)'
    BY <2>3 DEF OneKey, Register, passVars
  <2>5. QED
    BY <1>1, <2>2, <2>4 DEF KeyInv
<1>3. CASE members # <<>>
  <2>1. First' = First
    BY <1>3 DEF KeyInv, KeyTypes, First, Register
  <2>2. QED
    BY <1>1, <2>1 DEF KeyInv, OneKey, Register, passVars
<1>4. QED
  BY <1>2, <1>3

\* A node that finds itself to be the originator is the first member.
LEMMA Resolved ==
    ASSUME NEW f, f = First, KeyTypes, OneKey(f), NEW n \in Nodes, ResolveOriginator(n)
    PROVE  /\ orig' \in [Nodes -> Nodes \cup {NoNode}]
           /\ \A m \in Nodes : orig'[m] \in {NoNode, f}
           /\ orig'[n] = n => n = f
<1>1. First \in Nodes \cup {NoNode}
  BY DEF KeyTypes, First
<1>2. orig' = [orig EXCEPT ![n] = IF orig[n] # NoNode THEN orig[n] ELSE f]
  BY DEF ResolveOriginator
<1>3. QED
  BY <1>1, <1>2, CskAssumption DEF KeyTypes, OneKey

\* Every other action leaves the members alone.
LEMMA PassStep ==
    ASSUME KeyInv, NEW n \in Nodes, CskLoop(n)
    PROVE  KeyInv'
<1> PICK f : f = First
  OBVIOUS
<1> SUFFICES KeyTypes' /\ OneKey(f)' /\ members' = members
  BY DEF KeyInv, First
<1>0. KeyTypes /\ OneKey(f)
  BY DEF KeyInv
<1>1. CASE ReadCommitment(n)
  BY <1>0, <1>1 DEF ReadCommitment, KeyTypes, OneKey, chainVars
<1>2. CASE AwaitOriginator(n)
  BY <1>0, <1>2, Resolved DEF AwaitOriginator, KeyTypes, OneKey, chainVars, passVars
<1>3. CASE Submit(n)
  BY <1>0, <1>3, Resolved DEF Submit, KeyTypes, OneKey, passVars
<1>4. CASE SeeReceipt(n)
  BY <1>0, <1>4 DEF SeeReceipt, KeyTypes, OneKey, chainVars
<1>5. CASE LoadCache(n)
  BY <1>0, <1>5 DEF LoadCache, KeyTypes, OneKey, chainVars
<1>6. CASE Rederive(n)
  BY <1>0, <1>6, Resolved DEF Rederive, KeyTypes, OneKey, chainVars
<1>7. CASE StartPull(n)
  BY <1>0, <1>7, Resolved DEF StartPull, KeyTypes, OneKey, chainVars
<1>8. CASE PullEnds(n)
  BY <1>0, <1>8 DEF PullEnds, KeyTypes, OneKey, chainVars, passVars
<1>9. CASE Store(n)
  BY <1>0, <1>9 DEF Store, KeyTypes, OneKey, chainVars, passVars
<1>10. CASE Hold(n)
  BY <1>0, <1>10 DEF Hold, KeyTypes, OneKey, chainVars, passVars
<1>11. ASSUME NEW p \in Nodes, StartProbe(n, p)
       PROVE  KeyTypes' /\ OneKey(f)' /\ members' = members
  BY <1>0, <1>11 DEF StartProbe, KeyTypes, OneKey, chainVars
<1>12. ASSUME NEW p \in Nodes, JoinProbe(n, p)
       PROVE  KeyTypes' /\ OneKey(f)' /\ members' = members
  <2>1. PICK k \in Nodes \cup {NoNode} :
          IF Opens(k, n)
            THEN /\ fresh' = [fresh EXCEPT ![n] = k]
                 /\ pc' = [pc EXCEPT ![n] = "store"]
            ELSE UNCHANGED <<fresh, pc>>
    BY <1>12 DEF JoinProbe
  <2>2. Opens(k, n) => k = f
    BY <1>0 DEF Opens, OneKey
  <2>3. UNCHANGED <<members, commitment, mempool, disk, held, orig, seen>>
    BY <1>12 DEF JoinProbe, chainVars
  <2>4. CASE Opens(k, n)
    BY <1>0, <2>1, <2>2, <2>3, <2>4 DEF KeyTypes, OneKey
  <2>5. CASE ~Opens(k, n)
    BY <1>0, <2>1, <2>3, <2>5 DEF KeyTypes, OneKey
  <2>6. QED
    BY <2>4, <2>5
<1>13. QED
  BY <1>1, <1>2, <1>3, <1>4, <1>5, <1>6, <1>7, <1>8, <1>9, <1>10, <1>11, <1>12 DEF CskLoop

\* Faults forget and delay, and the chain takes only the originator's operation.
LEMMA FaultStep ==
    ASSUME KeyInv, NEW n \in Nodes,
           \/ Crash(n) \/ Restart(n) \/ LoseDisk(n) \/ ReadLags(n) \/ PassFails(n)
           \/ CacheUnreadable(n) \/ SubmitFails(n) \/ StoreFails(n) \/ Include(n) \/ IncludeFailed(n)
    PROVE  KeyInv'
<1> PICK f : f = First
  OBVIOUS
<1> SUFFICES KeyTypes' /\ OneKey(f)' /\ members' = members
  BY DEF KeyInv, First
<1>0. KeyTypes /\ OneKey(f)
  BY DEF KeyInv
<1>1. CASE Crash(n)
  BY <1>0, <1>1 DEF Crash, KeyTypes, OneKey, chainVars
<1>2. CASE Restart(n)
  BY <1>0, <1>2 DEF Restart, KeyTypes, OneKey, chainVars, passVars
<1>3. CASE LoseDisk(n)
  BY <1>0, <1>3 DEF LoseDisk, KeyTypes, OneKey, chainVars, passVars
<1>4. CASE ReadLags(n)
  BY <1>0, <1>4 DEF ReadLags, KeyTypes, OneKey, chainVars
<1>5. CASE PassFails(n)
  BY <1>0, <1>5, Resolved DEF PassFails, KeyTypes, OneKey, chainVars, passVars
<1>6. CASE CacheUnreadable(n)
  BY <1>0, <1>6 DEF CacheUnreadable, KeyTypes, OneKey, chainVars
<1>7. CASE SubmitFails(n)
  BY <1>0, <1>7 DEF SubmitFails, KeyTypes, OneKey, passVars
<1>8. CASE StoreFails(n)
  BY <1>0, <1>8 DEF StoreFails, KeyTypes, OneKey, chainVars, passVars
<1>9. CASE Include(n)
  BY <1>0, <1>9 DEF Include, KeyTypes, OneKey, passVars
<1>10. CASE IncludeFailed(n)
  BY <1>0, <1>10 DEF IncludeFailed, KeyTypes, OneKey, passVars
<1>11. QED
  BY <1>1, <1>2, <1>3, <1>4, <1>5, <1>6, <1>7, <1>8, <1>9, <1>10

\* Reconciling learns the first member; answering and failing probes touch no key.
LEMMA PeerStep ==
    ASSUME KeyInv, NEW n \in Nodes, NEW p \in Nodes,
           Reconcile(n, p) \/ Serve(p, n) \/ ProbeFails(n, p)
    PROVE  KeyInv'
<1>1. CASE Reconcile(n, p)
  <2>1. PICK f : f = First
    OBVIOUS
  <2>2. f \in Nodes \cup {NoNode}
    BY <2>1 DEF KeyInv, KeyTypes, First
  <2>3. orig' = [orig EXCEPT ![n] = f]
    BY <1>1, <2>1 DEF Reconcile
  <2>4. KeyTypes' /\ OneKey(f)' /\ members' = members
    BY <1>1, <2>1, <2>2, <2>3 DEF Reconcile, KeyInv, KeyTypes, OneKey, chainVars, passVars
  <2>5. QED
    BY <2>1, <2>4 DEF KeyInv, First
<1>2. CASE Serve(p, n) \/ ProbeFails(n, p)
  BY <1>2, KeyFrameStep DEF Serve, ProbeFails, keyVars, chainVars
<1>3. QED
  BY <1>1, <1>2

\* The inductive invariant holds in every reachable state.
THEOREM KeyInvariance == CskSpec => []KeyInv
<1>1. KeyInv /\ [CskNext]_cskVars => KeyInv'
  <2> SUFFICES ASSUME KeyInv, [CskNext]_cskVars
               PROVE  KeyInv'
    OBVIOUS
  <2>1. CASE UNCHANGED cskVars
    BY <2>1, KeyFrameStep DEF cskVars, chainVars, passVars, keyVars
  <2>2. CASE CskNext
    BY <2>2, RegisterStep, PassStep, FaultStep, PeerStep DEF CskNext
  <2>3. QED
    BY <2>1, <2>2
<1>2. QED
  BY KeyInitHolds, <1>1, PTL DEF CskSpec

\* csk_once: no two sidecars ever hold different keys, for any number of nodes, of
\* faulty peers and of faults.
THEOREM KeyAgreement == CskSpec => []Agreement
<1>1. KeyInv => Agreement
  BY DEF KeyInv, KeyTypes, OneKey, Agreement
<1>2. QED
  BY KeyInvariance, <1>1, PTL

\* persist_and_hold_csk: a cached key is the first member's, and no other key is ever
\* committed, wherever the process stopped.
THEOREM CachedKey == CskSpec => []CacheTrusted
<1>1. KeyInv => CacheTrusted
  BY DEF KeyInv, KeyTypes, OneKey, CacheTrusted
<1>2. QED
  BY KeyInvariance, <1>1, PTL

-----------------------------------------------------------------------------
\* The types of the variables KeyInv leaves out.
RestTypes ==
    /\ included \in SUBSET Nodes /\ up \in SUBSET Nodes
    /\ peers \in [Nodes -> SUBSET Nodes]
    /\ checked \in [Nodes -> Nodes \cup {NoNode}]
    /\ todo \in [Nodes -> SUBSET Nodes] /\ asked \in [Nodes -> SUBSET Nodes]
    /\ answers \in [Nodes -> SUBSET (Nodes \X (Nodes \cup {NoNode}))]
    /\ faults \in 0 .. MaxFaults /\ reverts \in 0 .. MaxReverts

LEMMA PassTypes ==
    ASSUME KeyTypes, RestTypes, NEW n \in Nodes, CskLoop(n)
    PROVE  RestTypes'
<1>1. CASE ReadCommitment(n) \/ AwaitOriginator(n) \/ SeeReceipt(n) \/ PullEnds(n) \/ Store(n) \/ Hold(n)
  BY <1>1 DEF ReadCommitment, AwaitOriginator, SeeReceipt, PullEnds, Store, Hold, RestTypes,
              chainVars, passVars
<1>2. CASE Submit(n)
  BY <1>2 DEF Submit, RestTypes, passVars
<1>3. CASE LoadCache(n)
  BY <1>3 DEF LoadCache, KeyTypes, RestTypes, chainVars
<1>4. CASE Rederive(n)
  BY <1>4 DEF Rederive, RestTypes, chainVars
<1>5. CASE StartPull(n)
  BY <1>5 DEF StartPull, RestTypes, chainVars
<1>6. ASSUME NEW p \in Nodes, StartProbe(n, p)
      PROVE  RestTypes'
  BY <1>6 DEF StartProbe, RestTypes, chainVars
<1>7. ASSUME NEW p \in Nodes, JoinProbe(n, p)
      PROVE  RestTypes'
  <2>1. PICK k \in Nodes \cup {NoNode} :
          \/ /\ todo' = [todo EXCEPT ![n] = {}]
             /\ asked' = [asked EXCEPT ![n] = {}]
             /\ answers' = [answers EXCEPT ![n] = {}]
          \/ /\ answers' = [answers EXCEPT ![n] = answers[n] \ {<<p, k>>}]
             /\ UNCHANGED <<todo, asked>>
    BY <1>7 DEF JoinProbe
  <2>2. UNCHANGED <<included, up, peers, checked, faults, reverts>>
    BY <1>7 DEF JoinProbe, chainVars
  <2>3. QED
    BY <2>1, <2>2 DEF RestTypes
<1>8. QED
  BY <1>1, <1>2, <1>3, <1>4, <1>5, <1>6, <1>7 DEF CskLoop

LEMMA FaultTypes ==
    ASSUME KeyTypes, RestTypes, NEW n \in Nodes,
           \/ Register(n) \/ Crash(n) \/ Restart(n) \/ LoseDisk(n) \/ ReadLags(n) \/ PassFails(n)
           \/ CacheUnreadable(n) \/ SubmitFails(n) \/ StoreFails(n) \/ Include(n) \/ IncludeFailed(n)
    PROVE  RestTypes'
<1>1. Fault => faults' \in 0 .. MaxFaults
  BY CskAssumption DEF Fault, RestTypes
<1>2. CASE Register(n) \/ Restart(n) \/ Include(n)
  BY <1>2 DEF Register, Restart, Include, RestTypes, chainVars, passVars
<1>3. CASE Crash(n)
  <2>1. /\ up' = up \ {n} /\ peers' = [peers EXCEPT ![n] = {}]
        /\ checked' = [checked EXCEPT ![n] = NoNode] /\ todo' = [todo EXCEPT ![n] = {}]
        /\ UNCHANGED <<included, reverts>> /\ faults' \in 0 .. MaxFaults
    BY <1>1, <1>3 DEF Crash, chainVars
  <2>2. asked' \in [Nodes -> SUBSET Nodes]
    BY <1>3 DEF Crash, RestTypes
  <2>3. answers' \in [Nodes -> SUBSET (Nodes \X (Nodes \cup {NoNode}))]
    BY <1>3 DEF Crash, RestTypes
  <2>4. QED
    BY <2>1, <2>2, <2>3 DEF RestTypes
<1>4. CASE LoseDisk(n) \/ ReadLags(n) \/ PassFails(n) \/ StoreFails(n) \/ SubmitFails(n)
  BY <1>1, <1>4 DEF LoseDisk, ReadLags, PassFails, StoreFails, SubmitFails, RestTypes, chainVars, passVars
<1>5. CASE CacheUnreadable(n)
  BY <1>1, <1>5 DEF CacheUnreadable, KeyTypes, RestTypes, chainVars
<1>6. CASE IncludeFailed(n)
  BY <1>6, CskAssumption DEF IncludeFailed, RestTypes, passVars
<1>7. QED
  BY <1>2, <1>3, <1>4, <1>5, <1>6

LEMMA PeerTypes ==
    ASSUME KeyTypes, RestTypes, NEW n \in Nodes, NEW p \in Nodes,
           Reconcile(n, p) \/ Serve(p, n) \/ ProbeFails(n, p)
    PROVE  RestTypes'
<1>1. CASE Reconcile(n, p)
  BY <1>1 DEF Reconcile, RestTypes, chainVars, passVars
<1>2. CASE Serve(p, n)
  <2>1. PICK k \in Nodes \cup {NoNode} : answers' = [answers EXCEPT ![n] = answers[n] \cup {<<p, k>>}]
    BY <1>2 DEF Serve, KeyTypes
  <2>2. QED
    BY <1>2, <2>1 DEF Serve, RestTypes, chainVars
<1>3. CASE ProbeFails(n, p)
  BY <1>3, CskAssumption DEF ProbeFails, Fault, RestTypes, chainVars
<1>4. QED
  BY <1>1, <1>2, <1>3

\* Every variable keeps its type, the bounded counters their bounds.
THEOREM CskTypeCorrect == CskSpec => []CskTypeOK
<1>1. CskInit => RestTypes
  BY CskAssumption DEF CskInit, RestTypes
<1>2. KeyInv /\ RestTypes /\ [CskNext]_cskVars => RestTypes'
  <2> SUFFICES ASSUME KeyInv, RestTypes, [CskNext]_cskVars
               PROVE  RestTypes'
    OBVIOUS
  <2>1. CASE UNCHANGED cskVars
    BY <2>1 DEF RestTypes, cskVars, chainVars, passVars
  <2>2. CASE CskNext
    BY <2>2, PassTypes, FaultTypes, PeerTypes DEF CskNext, KeyInv
  <2>3. QED
    BY <2>1, <2>2
<1>3. KeyInv /\ RestTypes => CskTypeOK
  BY DEF KeyInv, KeyTypes, RestTypes, CskTypeOK
<1>4. QED
  BY KeyInvariance, <1>1, <1>2, <1>3, PTL DEF CskSpec
==============================================================================
