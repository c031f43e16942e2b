----------------------- MODULE IndexerDeliveryProofs -----------------------
(***************************************************************************)
(* Proofs about IndexerDelivery for every number of members, sessions,     *)
(* blocks and faults.                                                      *)
(***************************************************************************)
EXTENDS IndexerDelivery, SequenceTheorems, TLAPS

\* Positions are closed under the constructors the model uses.
LEMMA NoPosType == NoPos \in Position
BY DeliveryAssumption DEF NoPos, Position, Ck

LEMMA BlockEndType ==
    ASSUME NEW b \in Nat
    PROVE  BlockEnd(b) \in Position /\ BeforeBlock(b) \in Position
BY DeliveryAssumption, NoPosType DEF Position, BlockEnd, BeforeBlock, Ck

LEMMA MaxPosType ==
    ASSUME NEW p \in Position, NEW q \in Position
    PROVE  MaxPos(p, q) \in Position
BY DEF MaxPos

\* A log's position is a Position.
LEMMA LogTypes ==
    ASSUME TypeOK
    PROVE  /\ AllLogs \subseteq Position
           /\ \A m \in Members : relevant[m] \subseteq Position
<1>1. Log \subseteq Position
  BY DeliveryAssumption DEF Log, Position, Ck
<1>2. \A m \in Members : relevant[m] \subseteq Position
  BY <1>1 DEF TypeOK
<1>3. QED BY <1>2 DEF AllLogs

\* Type correctness of the initial states.
LEMMA InitTypes == Init => TypeOK
BY DeliveryAssumption, NoPosType DEF Init, TypeOK

USE DEF chainVars, storeVars, watchVars, sessVars, clientVars

\* Every step preserves type correctness.
LEMMA NextTypes ==
    ASSUME TypeOK, [Next]_vars
    PROVE  TypeOK'
<1> USE DeliveryAssumption
<1>1. CASE Mine
  <2>1. \A i \in 0 .. LogsPerBlock - 1 : <<head + 1, i>> \in Log
    BY DEF TypeOK, Log
  <2>2. PICK c \in [Members -> SUBSET (0 .. LogsPerBlock - 1)] :
          relevant' = [m \in Members |-> relevant[m] \cup {<<head + 1, i>> : i \in c[m]}]
    BY <1>1 DEF Mine
  <2>3. relevant' \in [Members -> SUBSET Log]
    BY <2>1, <2>2 DEF TypeOK
  <2>4. QED BY <1>1, <2>3 DEF Mine, TypeOK
<1>2. CASE WatchTick
  BY <1>2 DEF WatchTick, TypeOK, Min2, Max2
<1>3. CASE Publish
  BY <1>3, BlockEndType DEF Publish, TypeOK
<1>4. CASE DispatchItem
  <2>1. PICK n \in AllLogs \cup {BlockEnd(wTo)} :
          /\ wPos' = n
          /\ wPend' = {s \in Sessions : /\ Registered(s)
                                        /\ IsCheckpoint(n) \/ n \in relevant[owner[s]]}
          /\ missed' = [m \in Members |->
               IF \E s \in Sessions : /\ owner[s] = m
                                      /\ st[s] \in {"read", "resolved"}
                                      /\ latest[s] < n[1]
                                      /\ n \in relevant[m]
               THEN missed[m] \cup {n} ELSE missed[m]]
    BY <1>4 DEF DispatchItem
  <2>2. n \in Position BY <2>1, BlockEndType, LogTypes DEF TypeOK
  <2>3. missed' \in [Members -> SUBSET Position] BY <2>1, <2>2 DEF TypeOK
  <2>4. QED BY <1>4, <2>1, <2>2, <2>3 DEF DispatchItem, TypeOK
<1>5. CASE PageDone
  BY <1>5, NoPosType DEF PageDone, TypeOK, Min2, Max2
<1>6. CASE Flush
  BY <1>6 DEF Flush, TypeOK
<1>7. CASE Boot
  BY <1>7 DEF Boot, TypeOK
<1>8. CASE PollFails
  BY <1>8, NoPosType DEF PollFails, TypeOK
<1>9. CASE IndexerCrash
  <2>1. /\ queue' \in [Sessions -> Seq(Position)]
        /\ acks' \in [Sessions -> Seq(Position)]
    BY <1>9 DEF IndexerCrash
  <2>2. hand' \in [Members -> Position]
    BY <1>9, NoPosType DEF IndexerCrash, Dropped, TypeOK
  <2>3. QED BY <1>9, <2>1, <2>2, NoPosType DEF IndexerCrash, TypeOK
<1>10. ASSUME NEW s \in Sessions, ReplayFails(s) PROVE TypeOK'
  BY <1>10, NoPosType DEF ReplayFails, TypeOK
<1>11. ASSUME NEW m \in Members, Disconnect(m) PROVE TypeOK'
  BY <1>11, NoPosType DEF Disconnect, Dropped, TypeOK
<1>12. ASSUME NEW m \in Members, SidecarRestart(m) PROVE TypeOK'
  BY <1>12, NoPosType DEF SidecarRestart, TypeOK
<1>13. ASSUME NEW s \in Sessions, SendLive(s) PROVE TypeOK'
  <2>1. Append(queue[s], wPos) \in Seq(Position) BY DEF TypeOK
  <2>2. queue' \in [Sessions -> Seq(Position)] BY <1>13, <2>1 DEF SendLive, TypeOK
  <2>3. QED BY <1>13, <2>2 DEF SendLive, TypeOK
<1>14. ASSUME NEW s \in Sessions, Resolve(s) PROVE TypeOK'
  <2> DEFINE m == owner[s]
             base == BlockEnd(Max2(latest[s], RegBlock[m]))
  <2>1. m \in Members /\ base \in Position
    BY BlockEndType DEF TypeOK, Max2
  <2>2. \A p \in Position : ReplayFrom(m, req[s], p) \in Position
    BY <2>1, BlockEndType, MaxPosType DEF TypeOK, ReplayFrom, Max2
  <2>3. cursor' \in [Members -> Position] /\ durable' \in [Members -> Position]
    <3>1. \/ cursor' = cursor /\ durable' = durable
          \/ cursor' = [cursor EXCEPT ![m] = base] /\ durable' = cursor'
      BY <1>14 DEF Resolve
    <3> HIDE DEF m, base
    <3>2. [cursor EXCEPT ![m] = base] \in [Members -> Position]
      BY <2>1 DEF TypeOK
    <3>3. cursor \in [Members -> Position] /\ durable \in [Members -> Position]
      BY DEF TypeOK
    <3>4. QED BY <3>1, <3>2, <3>3
  <2>4. floor' \in [Members -> Position]
    <3>1. MaxPos(floor[m], base) \in Position
      BY <2>1, MaxPosType DEF TypeOK
    <3>2. floor' = floor \/ floor' = [floor EXCEPT ![m] = MaxPos(floor[m], base)]
      BY <1>14 DEF Resolve
    <3>3. QED BY <3>1, <3>2 DEF TypeOK
  <2>5. rpos' \in [Sessions -> Position]
    <3>1. cursor[m] \in Position BY <2>1 DEF TypeOK
    <3>2. ReplayFrom(m, req[s], base) \in Position /\ ReplayFrom(m, req[s], cursor[m]) \in Position
      BY <2>1, <2>2, <3>1
    <3>3. \/ rpos' = [rpos EXCEPT ![s] = ReplayFrom(m, req[s], base)]
          \/ rpos' = [rpos EXCEPT ![s] = ReplayFrom(m, req[s], cursor[m])]
      BY <1>14 DEF Resolve
    <3>4. rpos \in [Sessions -> Position] BY DEF TypeOK
    <3> HIDE DEF m, base
    <3>5. QED BY <3>2, <3>3, <3>4
  <2>6. QED BY <1>14, <2>3, <2>4, <2>5 DEF Resolve, TypeOK
<1>15. ASSUME NEW s \in Sessions, Register(s) PROVE TypeOK'
  BY <1>15 DEF Register, TypeOK
<1>16. ASSUME NEW s \in Sessions, ReplaySend(s) PROVE TypeOK'
  <2>1. PICK n \in relevant[owner[s]] \cup {BlockEnd(latest[s])} :
          /\ queue' = [queue EXCEPT ![s] = Append(@, n)]
          /\ IF n = BlockEnd(latest[s])
             THEN st' = [st EXCEPT ![s] = "live"] /\ rpos' = [rpos EXCEPT ![s] = NoPos]
             ELSE rpos' = [rpos EXCEPT ![s] = n] /\ UNCHANGED st
    BY <1>16 DEF ReplaySend
  <2>2. n \in Position BY <2>1, BlockEndType, LogTypes DEF TypeOK
  <2>3. queue' \in [Sessions -> Seq(Position)]
    <3>1. Append(queue[s], n) \in Seq(Position) BY <2>2 DEF TypeOK
    <3>2. QED BY <2>1, <3>1 DEF TypeOK
  <2>4. /\ rpos' \in [Sessions -> Position]
        /\ st' \in [Sessions -> {"free", "read", "resolved", "replay", "live", "reaped"}]
    <3>1. \/ st' = [st EXCEPT ![s] = "live"] /\ rpos' = [rpos EXCEPT ![s] = NoPos]
          \/ st' = st /\ rpos' = [rpos EXCEPT ![s] = n]
      BY <2>1
    <3>2. /\ [rpos EXCEPT ![s] = NoPos] \in [Sessions -> Position]
          /\ [rpos EXCEPT ![s] = n] \in [Sessions -> Position]
      BY <2>2, NoPosType DEF TypeOK
    <3>3. CASE st' = [st EXCEPT ![s] = "live"] /\ rpos' = [rpos EXCEPT ![s] = NoPos]
      BY <3>2, <3>3 DEF TypeOK
    <3>4. CASE st' = st /\ rpos' = [rpos EXCEPT ![s] = n]
      BY <3>2, <3>4 DEF TypeOK
    <3>5. QED BY <3>1, <3>3, <3>4
  <2>5. QED BY <1>16, <2>3, <2>4 DEF ReplaySend, TypeOK
<1>17. ASSUME NEW s \in Sessions, ServerAck(s) PROVE TypeOK'
  <2>1. Head(acks[s]) \in Position /\ Tail(acks[s]) \in Seq(Position)
    BY <1>17 DEF ServerAck, TypeOK
  <2>2. cursor' \in [Members -> Position]
    BY <1>17, <2>1, MaxPosType DEF ServerAck, TypeOK
  <2>3. QED BY <1>17, <2>1, <2>2 DEF ServerAck, TypeOK
<1>18. ASSUME NEW s \in Sessions, EndSession(s) PROVE TypeOK'
  <2>1. /\ queue' \in [Sessions -> Seq(Position)]
        /\ acks' \in [Sessions -> Seq(Position)]
    BY <1>18 DEF EndSession, TypeOK
  <2>2. QED BY <1>18, <2>1, NoPosType DEF EndSession, TypeOK
<1>19. ASSUME NEW s \in Sessions, Reap(s) PROVE TypeOK'
  BY <1>19 DEF Reap, TypeOK
<1>20. ASSUME NEW m \in Members, NEW s \in Sessions, Subscribe(m, s) PROVE TypeOK'
  <2>1. prog[m][1] \in Nat BY DEF TypeOK, Position
  <2>2. QED BY <1>20, <2>1 DEF Subscribe, TypeOK
<1>21. ASSUME NEW m \in Members, Handle(m) PROVE TypeOK'
  <2>1. cur[m] \in Sessions BY <1>21 DEF Handle, TypeOK
  <2>2. /\ Head(queue[cur[m]]) \in Position
        /\ Tail(queue[cur[m]]) \in Seq(Position)
    BY <1>21, <2>1 DEF Handle, TypeOK
  <2>3. QED BY <1>21, <2>1, <2>2 DEF Handle, TypeOK
<1>22. ASSUME NEW m \in Members, Ack(m) PROVE TypeOK'
  <2>1. /\ acks' \in [Sessions -> Seq(Position)]
        /\ hand[m] \in Position
    <3>1. cur[m] \in Sessions /\ hand[m] \in Position BY <1>22 DEF Ack, TypeOK
    <3>2. QED BY <1>22, <3>1 DEF Ack, TypeOK
  <2>2. last' \in [Members -> Position] BY <1>22, <2>1, MaxPosType DEF Ack, TypeOK
  <2>3. QED BY <1>22, <2>1, <2>2 DEF Ack, TypeOK
<1>26. ASSUME NEW m \in Members, Progress(m) PROVE TypeOK'
  <2>1. prog' \in [Members -> Position] BY <1>26, MaxPosType DEF Progress, TypeOK
  <2>2. /\ hand' \in {hand, [hand EXCEPT ![m] = NoPos]}
        /\ step' \in {[step EXCEPT ![m] = "persist"], [step EXCEPT ![m] = "ack"]}
    BY <1>26 DEF Progress
  <2>4. hand' \in [Members -> Position] BY <2>2, NoPosType DEF TypeOK
  <2>5. step' \in [Members -> {"ack", "progress", "persist"}] BY <2>2 DEF TypeOK
  <2>3. QED BY <1>26, <2>1, <2>4, <2>5 DEF Progress, TypeOK
<1>27. ASSUME NEW m \in Members, Persist(m) PROVE TypeOK'
  <2>1. saved' \in [Members -> Position] /\ faults' \in Nat
    <3>1. saved' = saved \/ saved' = [saved EXCEPT ![m] = prog[m]] BY <1>27 DEF Persist
    <3>2. faults' = faults \/ faults' = faults + 1 BY <1>27 DEF Persist
    <3>3. saved \in [Members -> Position] /\ faults \in Nat /\ prog[m] \in Position
      BY DEF TypeOK
    <3>4. QED BY <3>1, <3>2, <3>3
  <2>2. QED BY <1>27, <2>1, NoPosType DEF Persist, TypeOK
<1>23. ASSUME NEW m \in Members, SeeOverflow(m) PROVE TypeOK'
  BY <1>23, NoPosType DEF SeeOverflow, Dropped, TypeOK
<1>24. CASE UNCHANGED vars
  BY <1>24 DEF vars, TypeOK
<1>25. QED
  BY <1>1, <1>2, <1>3, <1>4, <1>5, <1>6, <1>7, <1>8, <1>9, <1>10, <1>11, <1>12, <1>13,
     <1>14, <1>15, <1>16, <1>17, <1>18, <1>19, <1>20, <1>21, <1>22, <1>23, <1>24, <1>26, <1>27
  DEF Next, WatcherStep, Fault, ServerStep, ClientStep, Quiescent

\* Every variable of the delivery pipeline keeps its type.
THEOREM TypeCorrect == Spec => []TypeOK
<1>1. TypeOK /\ [Next]_vars => TypeOK'
  BY NextTypes
<1>2. QED BY InitTypes, <1>1, PTL DEF Spec

-----------------------------------------------------------------------------
(* The inductive invariant behind CursorPassesOnlyHandled.                 *)

\* The logs still owed to m.
U(m) == {e \in relevant[m] : ~Settled(m, e)}

\* No log owed to m lies at or before p, a position of a mined block.
Clear(m, p) == p[1] <= head /\ \A e \in U(m) : ~Leq(e, p)

\* e has been taken by the watcher's dispatch loop since the process started.
Passed(e) == IF wpc = "dispatch" THEN Leq(e, wPos) ELSE e[1] <= lastIndexed

\* e waits among the first k items of session s's channel.
Waiting(s, k, e) == \E j \in 1 .. k : queue[s][j] = e
InQueue(s, e) == Waiting(s, Len(queue[s]), e)

\* Nothing is ahead of the chain, and the process's parts fit together.
Bounds ==
    /\ lastIndexed <= head /\ ingested <= head
    /\ wpc # "idle" => lastIndexed <= wTo /\ wTo <= wHead /\ wHead <= head
    /\ wpc = "dispatch" => wTo = lastIndexed /\ Leq(wPos, BlockEnd(wTo))
    /\ wpc # "dispatch" => wPend = {}
    /\ proc = "down" => wpc = "idle" /\ \A s \in Sessions : st[s] = "free"
    /\ \A m \in Members : \A e \in relevant[m] : RegBlock[m] <= e[1] /\ e[1] <= head
    /\ \A s \in Sessions : latest[s] <= head

\* Neither cursor of a member, nor its position in the open connection, passes
\* a log owed to it; its session is one the server opened for it.
Client(m) ==
    /\ Clear(m, cursor[m]) /\ Clear(m, durable[m])
    /\ Clear(m, prog[m]) /\ Clear(m, saved[m])
    /\ Clear(m, last[m]) /\ Clear(m, hand[m])
    /\ cur[m] # NoSession => owner[cur[m]] = m /\ st[cur[m]] # "free"

\* The channel is in use from the registration on.
Stage(s) ==
    /\ st[s] # "free" => RegBlock[owner[s]] <= head
    /\ st[s] \in {"free", "read", "resolved"} => queue[s] = <<>> /\ s \notin wPend
    /\ st[s] = "free" => acks[s] = <<>>
    /\ st[s] = "reaped" => s \in ovf

\* Acks in flight, and the block a Hello asked for, pass no log owed.
Requests(s) ==
    /\ \A k \in 1 .. Len(acks[s]) : Clear(owner[s], acks[s][k])
    /\ st[s] = "read" => req[s] <= head /\ \A e \in U(owner[s]) : req[s] <= e[1]

\* An item of the channel passes a log owed only if that log waits before it.
QueueOrder(s) ==
    \A k \in 1 .. Len(queue[s]) :
        /\ queue[s][k][1] <= head
        /\ \A e \in U(owner[s]) : Leq(e, queue[s][k]) => Waiting(s, k, e)

\* What the replay has passed, and then all of its range, waits in the channel.
ReplayPrefix(s) ==
    /\ st[s] \in {"resolved", "replay"} =>
         /\ rpos[s][1] <= head
         /\ \A e \in U(owner[s]) : Leq(e, rpos[s]) => InQueue(s, e)
    /\ st[s] = "live" /\ s \notin ovf =>
         \A e \in U(owner[s]) : e[1] <= latest[s] => InQueue(s, e)

\* What was dispatched beyond the session's replay range waits in the channel
\* or is about to be sent.
LiveSuffix(s) ==
    st[s] \in {"read", "resolved", "replay", "live"} /\ s \notin ovf =>
        \A e \in U(owner[s]) : Passed(e) /\ latest[s] < e[1] =>
            InQueue(s, e) \/ (s \in wPend /\ e = wPos)

Stream(s) == Stage(s) /\ Requests(s) /\ QueueOrder(s) /\ ReplayPrefix(s) /\ LiveSuffix(s)

IInv ==
    /\ TypeOK
    /\ Bounds
    /\ \A m \in Members : Client(m)
    /\ \A s \in Sessions : Stream(s)

\* What a step may do to the logs owed: settle some, add some of a new block.
Evolves ==
    /\ head <= head'
    /\ \A m \in Members : \A e \in U(m)' : e \in U(m) \/ (e \in Log /\ head < e[1])

-----------------------------------------------------------------------------
(* Positions are totally ordered; a log of block b precedes its checkpoint. *)

LEMMA PosParts ==
    ASSUME NEW p \in Position
    PROVE  p[1] \in Nat /\ p[2] \in Nat /\ p[2] <= Ck
BY DeliveryAssumption DEF Position, Ck

LEMMA PosEqual ==
    ASSUME NEW p \in Position, NEW q \in Position, p[1] = q[1], p[2] = q[2]
    PROVE  p = q
BY DEF Position

LEMMA PosOrder ==
    ASSUME NEW p \in Position, NEW q \in Position
    PROVE  /\ Leq(p, q) \/ Lt(q, p)
           /\ ~(Leq(p, q) /\ Lt(q, p))
           /\ Leq(p, q) => p[1] <= q[1]
           /\ Lt(p, q) => Leq(p, q)
           /\ MaxPos(p, q) \in {p, q}
           /\ Leq(p, MaxPos(p, q)) /\ Leq(q, MaxPos(p, q))
BY PosParts, PosEqual DEF Leq, Lt, MaxPos

LEMMA PosTrans ==
    ASSUME NEW p \in Position, NEW q \in Position, NEW r \in Position,
           Leq(p, q), Leq(q, r)
    PROVE  Leq(p, r)
BY PosParts DEF Leq, Lt

\* A log is neither in block 0 nor a checkpoint.
LEMMA LogParts ==
    ASSUME NEW e \in Log
    PROVE  e \in Position /\ e[1] \in Nat /\ e[1] > 0 /\ e[2] \in Nat /\ e[2] < Ck
BY DeliveryAssumption DEF Log, Position, Ck

LEMMA EndOfBlock ==
    ASSUME NEW e \in Log, NEW b \in Nat
    PROVE  /\ Leq(e, BlockEnd(b)) <=> e[1] <= b
           /\ e # BlockEnd(b) /\ ~IsCheckpoint(e) /\ IsCheckpoint(BlockEnd(b))
           /\ Leq(e, BeforeBlock(b)) => e[1] < b
           /\ ~Leq(e, NoPos)
BY LogParts, DeliveryAssumption DEF Leq, Lt, BlockEnd, BeforeBlock, NoPos, Ck, IsCheckpoint

\* What TypeOK says of the parts used below.
LEMMA Owed ==
    ASSUME TypeOK, NEW m \in Members
    PROVE  U(m) \subseteq relevant[m] /\ relevant[m] \subseteq Log
BY DEF U, TypeOK

LEMMA ClearNoPos ==
    ASSUME TypeOK, NEW m \in Members
    PROVE  Clear(m, NoPos)
<1>1. ASSUME NEW e \in U(m) PROVE ~Leq(e, NoPos)
  BY <1>1, Owed, EndOfBlock
<1>2. 0 <= head BY DEF TypeOK
<1>3. QED BY <1>1, <1>2 DEF Clear, NoPos

-----------------------------------------------------------------------------
(* Frame lemmas: a part of the invariant survives a step that leaves its    *)
(* variables alone, whatever the step does to the logs owed.                *)

LEMMA FrameClear ==
    ASSUME TypeOK, TypeOK', Evolves, NEW m \in Members, NEW p \in Position, Clear(m, p)
    PROVE  p[1] <= head' /\ \A e \in U(m)' : ~Leq(e, p)
<1>1. head \in Nat /\ head' \in Nat /\ p[1] \in Nat
  BY PosParts DEF TypeOK
<1>2. p[1] <= head'
  BY <1>1 DEF Clear, Evolves
<1>3. ASSUME NEW e \in U(m)', Leq(e, p) PROVE FALSE
  <2>1. e \in U(m) \/ (e \in Log /\ head < e[1]) BY <1>3 DEF Evolves
  <2>2. CASE e \in U(m) BY <1>3, <2>2 DEF Clear
  <2>3. CASE e \in Log /\ head < e[1]
    BY <1>1, <1>3, <2>3, LogParts, PosOrder DEF Clear
  <2>4. QED BY <2>1, <2>2, <2>3
<1>4. QED BY <1>2, <1>3

\* A client's cursors stay clear when their new values were clear before.
LEMMA FrameClient ==
    ASSUME TypeOK, TypeOK', Evolves, NEW m \in Members,
           Clear(m, cursor'[m]), Clear(m, durable'[m]), Clear(m, prog'[m]),
           Clear(m, saved'[m]), Clear(m, last'[m]), Clear(m, hand'[m]),
           cur'[m] # NoSession => owner'[cur'[m]] = m /\ st'[cur'[m]] # "free"
    PROVE  Client(m)'
<1>1. /\ cursor'[m] \in Position /\ durable'[m] \in Position /\ prog'[m] \in Position
      /\ saved'[m] \in Position /\ last'[m] \in Position /\ hand'[m] \in Position
  BY DEF TypeOK
<1>2. Clear(m, cursor[m])' /\ Clear(m, durable[m])' BY <1>1, FrameClear DEF Clear
<1>3. Clear(m, prog[m])' /\ Clear(m, saved[m])' BY <1>1, FrameClear DEF Clear
<1>4. Clear(m, last[m])' /\ Clear(m, hand[m])' BY <1>1, FrameClear DEF Clear
<1>5. QED BY <1>2, <1>3, <1>4 DEF Client

LEMMA FrameRequests ==
    ASSUME TypeOK, TypeOK', Evolves, NEW s \in Sessions, owner'[s] = owner[s],
           \A k \in 1 .. Len(acks'[s]) : Clear(owner[s], acks'[s][k]),
           st'[s] = "read" => st[s] = "read" /\ req'[s] = req[s],
           Requests(s)
    PROVE  Requests(s)'
<1>1. owner[s] \in Members /\ acks'[s] \in Seq(Position) /\ head \in Nat /\ head' \in Nat
      /\ req[s] \in Nat
  BY DEF TypeOK
<1>2. ASSUME NEW k \in 1 .. Len(acks'[s]) PROVE Clear(owner[s], acks[s][k])'
  <2>1. acks'[s][k] \in Position BY <1>1, <1>2
  <2>2. Clear(owner[s], acks'[s][k]) BY <1>2
  <2>3. QED BY <1>1, <2>1, <2>2, FrameClear DEF Clear
<1>3. ASSUME st'[s] = "read"
      PROVE  req'[s] <= head' /\ \A e \in U(owner[s])' : req'[s] <= e[1]
  <2>1. req[s] <= head /\ \A e \in U(owner[s]) : req[s] <= e[1] BY <1>3 DEF Requests
  <2>2. ASSUME NEW e \in U(owner[s])' PROVE req'[s] <= e[1]
    <3>1. e \in U(owner[s]) \/ (e \in Log /\ head < e[1]) BY <1>1, <2>2 DEF Evolves
    <3>2. QED BY <1>1, <1>3, <2>1, <3>1, LogParts
  <2>3. QED BY <1>1, <1>3, <2>1, <2>2 DEF Evolves
<1>4. QED BY <1>2, <1>3 DEF Requests

LEMMA FrameQueue ==
    ASSUME TypeOK, TypeOK', Evolves, NEW s \in Sessions,
           owner'[s] = owner[s], queue'[s] = queue[s], QueueOrder(s)
    PROVE  QueueOrder(s)'
<1>1. owner[s] \in Members /\ queue[s] \in Seq(Position) /\ head \in Nat /\ head' \in Nat
  BY DEF TypeOK
<1>2. SUFFICES ASSUME NEW k \in 1 .. Len(queue[s])
               PROVE  /\ queue[s][k][1] <= head'
                      /\ \A e \in U(owner[s])' : Leq(e, queue[s][k]) => Waiting(s, k, e)
  BY DEF QueueOrder, Waiting
<1>3. queue[s][k] \in Position BY <1>1
<1>4. /\ queue[s][k][1] <= head
      /\ \A e \in U(owner[s]) : Leq(e, queue[s][k]) => Waiting(s, k, e)
  BY DEF QueueOrder
<1>5. ASSUME NEW e \in U(owner[s])', Leq(e, queue[s][k]) PROVE Waiting(s, k, e)
  <2>1. e \in U(owner[s]) \/ (e \in Log /\ head < e[1]) BY <1>1, <1>5 DEF Evolves
  <2>2. CASE e \in U(owner[s]) BY <1>4, <1>5, <2>2
  <2>3. CASE e \in Log /\ head < e[1]
    BY <1>1, <1>3, <1>4, <1>5, <2>3, LogParts, PosParts, PosOrder
  <2>4. QED BY <2>1, <2>2, <2>3
<1>6. QED BY <1>1, <1>3, <1>4, <1>5, PosParts DEF Evolves

LEMMA FrameReplay ==
    ASSUME TypeOK, TypeOK', Bounds, Evolves, NEW s \in Sessions,
           st'[s] = st[s], owner'[s] = owner[s], queue'[s] = queue[s],
           rpos'[s] = rpos[s], latest'[s] = latest[s], s \in ovf => s \in ovf',
           ReplayPrefix(s)
    PROVE  ReplayPrefix(s)'
<1>1. owner[s] \in Members /\ rpos[s] \in Position /\ latest[s] \in Nat
      /\ head \in Nat /\ head' \in Nat
  BY DEF TypeOK
<1>2. \A e \in U(owner[s])' : e \in U(owner[s]) \/ (e \in Log /\ head < e[1])
  BY <1>1 DEF Evolves
<1>3. latest[s] <= head BY DEF Bounds
<1>4. ASSUME st[s] \in {"resolved", "replay"}
      PROVE  rpos[s][1] <= head' /\ \A e \in U(owner[s])' : Leq(e, rpos[s]) => InQueue(s, e)
  <2>1. rpos[s][1] <= head /\ \A e \in U(owner[s]) : Leq(e, rpos[s]) => InQueue(s, e)
    BY <1>4 DEF ReplayPrefix
  <2>2. QED BY <1>1, <1>2, <2>1, PosOrder, PosParts, LogParts DEF Evolves
<1>5. ASSUME st[s] = "live" /\ s \notin ovf
      PROVE  \A e \in U(owner[s])' : e[1] <= latest[s] => InQueue(s, e)
  <2>1. \A e \in U(owner[s]) : e[1] <= latest[s] => InQueue(s, e)
    BY <1>5 DEF ReplayPrefix
  <2>2. QED BY <1>1, <1>2, <1>3, <2>1, LogParts
<1>6. QED BY <1>4, <1>5 DEF ReplayPrefix, InQueue, Waiting

\* The watcher has passed only logs of mined blocks.
LEMMA PassedMined ==
    ASSUME TypeOK, Bounds, NEW e \in Log, Passed(e)
    PROVE  e[1] <= lastIndexed /\ lastIndexed <= head
<1>1. e \in Position /\ e[1] \in Nat BY LogParts
<1>2. lastIndexed <= head BY DEF Bounds
<1>3. CASE wpc = "dispatch"
  <2>1. /\ wTo \in Nat /\ wPos \in Position /\ lastIndexed = wTo
        /\ Leq(wPos, BlockEnd(wTo)) /\ Leq(e, wPos)
    BY <1>3 DEF Bounds, TypeOK, Passed
  <2>2. Leq(e, BlockEnd(wTo)) BY <1>1, <2>1, PosTrans, BlockEndType
  <2>3. QED BY <1>2, <2>1, <2>2, EndOfBlock
<1>4. CASE wpc # "dispatch" BY <1>2, <1>4 DEF Passed
<1>5. QED BY <1>3, <1>4

LEMMA FrameLive ==
    ASSUME TypeOK, TypeOK', Bounds, Evolves, NEW s \in Sessions,
           owner'[s] = owner[s], queue'[s] = queue[s], latest'[s] = latest[s],
           st'[s] \in {"read", "resolved", "replay", "live"} /\ s \notin ovf' =>
               st[s] \in {"read", "resolved", "replay", "live"} /\ s \notin ovf,
           \A e \in Log : Passed(e)' => Passed(e),
           s \in wPend => s \in wPend' /\ wPos' = wPos,
           LiveSuffix(s)
    PROVE  LiveSuffix(s)'
<1>1. owner[s] \in Members /\ head \in Nat /\ lastIndexed \in Nat BY DEF TypeOK
<1>2. SUFFICES ASSUME st'[s] \in {"read", "resolved", "replay", "live"}, s \notin ovf',
                      NEW e \in U(owner[s])', Passed(e)', latest[s] < e[1]
               PROVE  InQueue(s, e) \/ (s \in wPend' /\ e = wPos')
  BY DEF LiveSuffix, InQueue, Waiting
<1>3. e \in U(owner[s]) \/ (e \in Log /\ head < e[1]) BY <1>1, <1>2 DEF Evolves
<1>4. e \in Log BY <1>1, <1>3, Owed
<1>5. Passed(e) BY <1>2, <1>4
<1>6. e \in U(owner[s]) BY <1>1, <1>3, <1>4, <1>5, PassedMined, LogParts
<1>7. InQueue(s, e) \/ (s \in wPend /\ e = wPos)
  BY <1>2, <1>5, <1>6 DEF LiveSuffix
<1>8. QED BY <1>7

\* A session none of whose variables a step touches.
LEMMA FrameStream ==
    ASSUME TypeOK, TypeOK', Bounds, Evolves, NEW s \in Sessions, Stream(s),
           st'[s] = st[s], owner'[s] = owner[s], req'[s] = req[s],
           latest'[s] = latest[s], rpos'[s] = rpos[s], queue'[s] = queue[s],
           acks'[s] = acks[s], s \in ovf' <=> s \in ovf,
           \A e \in Log : Passed(e)' => Passed(e),
           s \in wPend' => s \in wPend,
           s \in wPend => s \in wPend' /\ wPos' = wPos
    PROVE  Stream(s)'
<1>1. Stage(s)'
  <2>1. head \in Nat /\ head' \in Nat /\ RegBlock[owner[s]] \in Nat
    BY DeliveryAssumption DEF TypeOK
  <2>2. QED BY <2>1 DEF Stream, Stage, Evolves
<1>2. Requests(s)' BY FrameRequests DEF Stream, Requests
<1>3. QueueOrder(s)' BY FrameQueue DEF Stream
<1>4. ReplayPrefix(s)' BY FrameReplay DEF Stream
<1>5. LiveSuffix(s)' BY FrameLive DEF Stream
<1>6. QED BY <1>1, <1>2, <1>3, <1>4, <1>5 DEF Stream

-----------------------------------------------------------------------------
(* Every step evolves the logs owed, and only Mine adds to them.            *)

\* A step that settles logs and mines none.
LEMMA Settles ==
    ASSUME TypeOK, TypeOK', relevant' = relevant, head' = head,
           \A m \in Members : /\ handled[m] \subseteq handled'[m]
                              /\ missed[m] \subseteq missed'[m]
                              /\ Leq(floor[m], floor'[m])
    PROVE  Evolves /\ \A m \in Members : U(m)' \subseteq U(m)
<1>1. ASSUME NEW m \in Members, NEW e \in U(m)' PROVE e \in U(m)
  <2>1. e \in relevant[m] /\ e \notin handled'[m] \cup missed'[m] /\ ~Leq(e, floor'[m])
    BY <1>1 DEF U, Settled
  <2>2. /\ e \in Position /\ floor[m] \in Position /\ floor'[m] \in Position
        /\ handled[m] \subseteq handled'[m] /\ missed[m] \subseteq missed'[m]
        /\ Leq(floor[m], floor'[m])
    BY <1>1, <2>1, Owed, LogParts DEF TypeOK
  <2>3. ~Leq(e, floor[m]) BY <2>1, <2>2, PosTrans
  <2>4. QED BY <2>1, <2>2, <2>3 DEF U, Settled
<1>2. head \in Nat BY DEF TypeOK
<1>3. QED BY <1>1, <1>2 DEF Evolves

\* A step that leaves the chain and the history variables alone.
LEMMA Quiet ==
    ASSUME TypeOK, TypeOK', relevant' = relevant, head' = head,
           handled' = handled, missed' = missed, floor' = floor
    PROVE  Evolves /\ \A m \in Members : U(m)' \subseteq U(m)
<1>1. \A m \in Members : Leq(floor[m], floor'[m]) BY DEF Leq
<1>2. QED BY <1>1, Settles

LEMMA MineEvolves ==
    ASSUME TypeOK, Mine PROVE Evolves
<1>1. PICK c \in [Members -> SUBSET (0 .. LogsPerBlock - 1)] :
        relevant' = [m \in Members |-> relevant[m] \cup {<<head + 1, i>> : i \in c[m]}]
  BY DEF Mine
<1>2. head \in Nat /\ head' = head + 1 BY DEF Mine, TypeOK
<1>3. ASSUME NEW m \in Members, NEW e \in U(m)'
      PROVE  e \in U(m) \/ (e \in Log /\ head < e[1])
  <2>1. e \in relevant'[m] /\ ~Settled(m, e)' BY <1>3 DEF U
  <2>2. ~Settled(m, e) BY <2>1 DEF Settled, Mine
  <2>3. CASE e \in relevant[m] BY <2>2, <2>3 DEF U
  <2>4. CASE e \notin relevant[m]
    <3>1. PICK i \in 0 .. LogsPerBlock - 1 : e = <<head + 1, i>> BY <1>1, <2>1, <2>4
    <3>2. QED BY <1>2, <3>1, DeliveryAssumption DEF Log
  <2>5. QED BY <2>3, <2>4
<1>4. QED BY <1>2, <1>3 DEF Evolves

-----------------------------------------------------------------------------
(* Bounds is inductive together with the types.                             *)

LEMMA BoundsStep ==
    ASSUME TypeOK, TypeOK', Bounds, [Next]_vars
    PROVE  Bounds'
<1> USE DeliveryAssumption
<1> DEFINE Chain == \A m \in Members : \A e \in relevant[m] : RegBlock[m] <= e[1] /\ e[1] <= head
           Lat == \A s \in Sessions : latest[s] <= head
           Watch == /\ lastIndexed <= head /\ ingested <= head
                    /\ wpc # "idle" => lastIndexed <= wTo /\ wTo <= wHead /\ wHead <= head
                    /\ wpc = "dispatch" => wTo = lastIndexed /\ Leq(wPos, BlockEnd(wTo))
                    /\ wpc # "dispatch" => wPend = {}
           Down == proc = "down" => wpc = "idle" /\ \A s \in Sessions : st[s] = "free"
<1>0. /\ Chain /\ Lat /\ Watch /\ Down
      /\ head \in Nat /\ lastIndexed \in Nat /\ ingested \in Nat /\ wTo \in Nat /\ wHead \in Nat
      /\ latest \in [Sessions -> Nat] /\ wPos \in Position
      /\ st \in [Sessions -> {"free", "read", "resolved", "replay", "live", "reaped"}]
  BY DEF Bounds, TypeOK
<1>a. SUFFICES (Chain /\ Lat /\ Watch /\ Down)' BY DEF Bounds
<1>1. CASE Mine
  <2>1. PICK c \in [Members -> SUBSET (0 .. LogsPerBlock - 1)] :
          /\ \A m \in Members : head + 1 < RegBlock[m] => c[m] = {}
          /\ relevant' = [m \in Members |-> relevant[m] \cup {<<head + 1, i>> : i \in c[m]}]
    BY <1>1 DEF Mine
  <2>2. ASSUME NEW m \in Members, NEW e \in relevant'[m]
        PROVE  RegBlock[m] <= e[1] /\ e[1] <= head + 1
    <3>1. CASE e \in relevant[m]
      <4>1. e[1] \in Nat BY <3>1, Owed, LogParts
      <4>2. QED BY <1>0, <3>1, <4>1
    <3>2. CASE e \notin relevant[m]
      <4>1. PICK i \in c[m] : e = <<head + 1, i>> BY <2>1, <2>2, <3>2
      <4>2. RegBlock[m] <= head + 1 BY <1>0, <2>1, <4>1
      <4>3. QED BY <1>0, <4>1, <4>2
    <3>3. QED BY <3>1, <3>2
  <2>3. Chain' BY <1>1, <2>2 DEF Mine
  <2>4. Lat' /\ Watch' /\ Down' BY <1>0, <1>1 DEF Mine
  <2>5. QED BY <2>3, <2>4
<1>2. CASE WatchTick
  BY <1>0, <1>2 DEF WatchTick, Min2, Max2
<1>3. CASE Publish
  <2>1. Leq(BlockEnd(lastIndexed), BlockEnd(wTo))
    BY <1>0, <1>3 DEF Publish, BlockEnd, Leq, Lt
  <2>2. QED BY <1>0, <1>3, <2>1 DEF Publish
<1>4. CASE DispatchItem
  <2>1. PICK n \in AllLogs \cup {BlockEnd(wTo)} :
          IsNext(AllLogs, wPos, wTo, n) /\ wPos' = n
    BY <1>4 DEF DispatchItem
  <2>2. Leq(n, BlockEnd(wTo))
    <3>1. CASE n = BlockEnd(wTo) BY <3>1 DEF Leq
    <3>2. CASE n # BlockEnd(wTo)
      <4>1. n \in Log BY <2>1, <3>2, Owed DEF AllLogs
      <4>2. n[1] <= wTo BY <2>1, <3>2 DEF IsNext
      <4>3. QED BY <1>0, <4>1, <4>2, EndOfBlock
    <3>3. QED BY <3>1, <3>2
  <2>3. QED BY <1>0, <1>4, <2>1, <2>2 DEF DispatchItem
<1>5. CASE PageDone
  BY <1>0, <1>5 DEF PageDone, Min2, Max2
<1>6. CASE Flush
  BY <1>0, <1>6 DEF Flush
<1>7. CASE Boot
  BY <1>0, <1>7 DEF Boot
<1>8. CASE PollFails
  BY <1>0, <1>8 DEF PollFails
<1>9. CASE IndexerCrash
  BY <1>0, <1>9 DEF IndexerCrash
<1>10. ASSUME NEW s \in Sessions, ReplayFails(s) PROVE (Chain /\ Lat /\ Watch /\ Down)'
  BY <1>0, <1>10 DEF ReplayFails
<1>11. ASSUME NEW m \in Members, Disconnect(m) \/ SidecarRestart(m) \/ Handle(m) \/ Ack(m)
                                 \/ Progress(m) \/ Persist(m) \/ SeeOverflow(m)
       PROVE (Chain /\ Lat /\ Watch /\ Down)'
  BY <1>0, <1>11 DEF Disconnect, SidecarRestart, Handle, Ack, Progress, Persist,
     SeeOverflow
<1>12. ASSUME NEW s \in Sessions, SendLive(s) PROVE (Chain /\ Lat /\ Watch /\ Down)'
  BY <1>0, <1>12 DEF SendLive
<1>13. ASSUME NEW s \in Sessions, Resolve(s) \/ Register(s) PROVE (Chain /\ Lat /\ Watch /\ Down)'
  BY <1>0, <1>13 DEF Resolve, Register
<1>14. ASSUME NEW s \in Sessions, ReplaySend(s) PROVE (Chain /\ Lat /\ Watch /\ Down)'
  BY <1>0, <1>14 DEF ReplaySend
<1>15. ASSUME NEW s \in Sessions, ServerAck(s) \/ Reap(s) PROVE (Chain /\ Lat /\ Watch /\ Down)'
  BY <1>0, <1>15 DEF ServerAck, Reap
<1>16. ASSUME NEW s \in Sessions, EndSession(s) PROVE (Chain /\ Lat /\ Watch /\ Down)'
  BY <1>0, <1>16 DEF EndSession
<1>17. ASSUME NEW m \in Members, NEW s \in Sessions, Subscribe(m, s)
       PROVE  (Chain /\ Lat /\ Watch /\ Down)'
  BY <1>0, <1>17 DEF Subscribe
<1>18. CASE UNCHANGED vars
  BY <1>0, <1>18 DEF vars
<1>19. QED
  BY <1>1, <1>2, <1>3, <1>4, <1>5, <1>6, <1>7, <1>8, <1>9, <1>10, <1>11, <1>12, <1>13,
     <1>14, <1>15, <1>16, <1>17, <1>18
  DEF Next, WatcherStep, Fault, ServerStep, ClientStep, Quiescent

-----------------------------------------------------------------------------
(* The clients and the streams, one action at a time.                       *)

\* What every step lemma below establishes.
Kept == (\A m \in Members : Client(m)) /\ (\A s \in Sessions : Stream(s))

\* Steps that touch no client's position and no session's ownership.
LEMMA SameClients ==
    ASSUME TypeOK, TypeOK', Evolves, \A m \in Members : Client(m),
           cursor' = cursor, durable' = durable, prog' = prog, saved' = saved,
           last' = last, hand' = hand,
           \A m \in Members : cur'[m] # NoSession =>
               owner'[cur'[m]] = m /\ st'[cur'[m]] # "free"
    PROVE  \A m \in Members : Client(m)'
BY FrameClient DEF Client

\* Steps that touch no session and leave the watcher's position alone.
LEMMA SameStreams ==
    ASSUME TypeOK, TypeOK', Bounds, Evolves, \A s \in Sessions : Stream(s),
           st' = st, owner' = owner, req' = req, latest' = latest, rpos' = rpos,
           queue' = queue, acks' = acks, ovf' = ovf, wPend' = wPend, wPos' = wPos,
           wpc' = wpc, lastIndexed' = lastIndexed
    PROVE  \A s \in Sessions : Stream(s)'
<1>1. \A e \in Log : Passed(e)' => Passed(e) BY DEF Passed
<1>2. QED BY <1>1, FrameStream

\* Mine, and the steps of the store and of the clients that touch no session.
LEMMA MineKept ==
    ASSUME IInv, TypeOK', Mine PROVE Kept'
<1>1. Evolves BY MineEvolves DEF IInv
<1>2. \A m \in Members : Client(m)'
  BY <1>1, SameClients DEF IInv, Mine, Client
<1>3. \A s \in Sessions : Stream(s)'
  BY <1>1, SameStreams DEF IInv, Mine
<1>4. QED BY <1>2, <1>3 DEF Kept

LEMMA FlushKept ==
    ASSUME IInv, TypeOK', Flush PROVE Kept'
<1>1. Evolves BY Quiet DEF IInv, Flush
<1>2. \A m \in Members : Client(m)'
  BY <1>1, FrameClient DEF IInv, Flush, Client
<1>3. \A s \in Sessions : Stream(s)'
  BY <1>1, SameStreams DEF IInv, Flush
<1>4. QED BY <1>2, <1>3 DEF Kept

LEMMA LeaveKept ==
    ASSUME IInv, TypeOK', NEW m \in Members,
           Disconnect(m) \/ SidecarRestart(m) \/ SeeOverflow(m)
    PROVE  Kept'
<1>1. Evolves BY Quiet DEF IInv, Disconnect, SidecarRestart, SeeOverflow
<1>2. ASSUME NEW c \in Members PROVE Client(c)'
  <2>1. Client(c) /\ Clear(c, NoPos) BY ClearNoPos DEF IInv
  <2>2. /\ cursor'[c] = cursor[c] /\ durable'[c] = durable[c] /\ saved'[c] = saved[c]
        /\ prog'[c] \in {prog[c], saved[c]}
        /\ last'[c] \in {last[c], NoPos} /\ hand'[c] \in {hand[c], NoPos}
        /\ cur'[c] \in {cur[c], NoSession} /\ owner' = owner /\ st' = st
    <3>1. TypeOK BY DEF IInv
    <3>2. CASE Disconnect(m) BY <3>1, <3>2 DEF TypeOK, Disconnect, Dropped
    <3>3. CASE SidecarRestart(m) BY <3>1, <3>3 DEF TypeOK, SidecarRestart
    <3>4. CASE SeeOverflow(m) BY <3>1, <3>4 DEF TypeOK, SeeOverflow, Dropped
    <3>5. QED BY <3>2, <3>3, <3>4
  <2>3. QED BY <1>1, <2>1, <2>2, FrameClient DEF IInv, Client
<1>3. \A s \in Sessions : Stream(s)'
  BY <1>1, SameStreams DEF IInv, Disconnect, SidecarRestart, SeeOverflow
<1>4. QED BY <1>2, <1>3 DEF Kept

\* The watcher.
LEMMA TickKept ==
    ASSUME IInv, TypeOK', WatchTick \/ Publish \/ PageDone \/ PollFails PROVE Kept'
<1>1. Evolves BY Quiet DEF IInv, WatchTick, Publish, PageDone, PollFails
<1>2. \A m \in Members : Client(m)'
  BY <1>1, SameClients DEF IInv, WatchTick, Publish, PageDone, PollFails, Client
<1>3. \A e \in Log : Passed(e)' => Passed(e)
  <2>1. ASSUME NEW e \in Log, Passed(e)' PROVE Passed(e)
    <3>0. lastIndexed \in Nat /\ wTo \in Nat BY DEF IInv, TypeOK
    <3>1. CASE WatchTick BY <2>1, <3>1 DEF WatchTick, Passed
    <3>2. CASE Publish
      BY <2>1, <3>0, <3>2, EndOfBlock DEF Publish, Passed
    <3>3. CASE PageDone \/ PollFails
      <4>1. e[1] <= lastIndexed /\ lastIndexed = wTo /\ wPos = BlockEnd(wTo) /\ wpc = "dispatch"
        BY <2>1, <3>3 DEF PageDone, PollFails, Passed, IInv, Bounds
      <4>2. QED BY <3>0, <4>1, EndOfBlock DEF Passed
    <3>4. QED BY <3>1, <3>2, <3>3
  <2>2. QED BY <2>1
<1>4. wPend = {} /\ wPend' = {}
  BY DEF WatchTick, Publish, PageDone, PollFails, IInv, Bounds
<1>5. ASSUME NEW s \in Sessions PROVE Stream(s)'
  BY <1>1, <1>3, <1>4, FrameStream DEF IInv, WatchTick, Publish, PageDone, PollFails
<1>6. QED BY <1>2, <1>5 DEF Kept

\* The next item passes exactly itself; a registered session it concerns is in
\* the snapshot, an unregistered one that will not replay it has missed it.
LEMMA DispatchKept ==
    ASSUME IInv, TypeOK', DispatchItem PROVE Kept'
<1>1. PICK n \in AllLogs \cup {BlockEnd(wTo)} :
        /\ IsNext(AllLogs, wPos, wTo, n)
        /\ wPos' = n
        /\ wPend' = {s \in Sessions : /\ Registered(s)
                                      /\ IsCheckpoint(n) \/ n \in relevant[owner[s]]}
        /\ missed' = [m \in Members |->
             IF \E s \in Sessions : /\ owner[s] = m
                                    /\ st[s] \in {"read", "resolved"}
                                    /\ latest[s] < n[1]
                                    /\ n \in relevant[m]
             THEN missed[m] \cup {n} ELSE missed[m]]
  BY DEF DispatchItem
<1>2. TypeOK /\ Bounds /\ wpc = "dispatch" /\ wpc' = "dispatch" /\ wPend = {}
      /\ wTo \in Nat /\ wPos \in Position
  BY DEF DispatchItem, IInv, TypeOK
<1>3. Evolves /\ \A m \in Members : U(m)' \subseteq U(m)
  <2>1. \A m \in Members : /\ handled[m] \subseteq handled'[m]
                           /\ missed[m] \subseteq missed'[m]
                           /\ Leq(floor[m], floor'[m])
    BY <1>1 DEF DispatchItem, Leq
  <2>2. QED BY <1>2, <2>1, Settles DEF DispatchItem
<1>4. \A m \in Members : Client(m)'
  BY <1>3, SameClients DEF IInv, DispatchItem, Client
<1>5. ASSUME NEW m \in Members, NEW e \in relevant[m], Leq(e, n)
      PROVE  Leq(e, wPos) \/ e = n
  <2>1. e \in Log /\ e \in AllLogs /\ e \in Position BY <1>2, <1>5, Owed, LogParts DEF AllLogs
  <2>2. n \in Position BY <1>1, <1>2, LogTypes, BlockEndType
  <2>3. CASE n = BlockEnd(wTo) /\ \A d \in AllLogs : ~(Lt(wPos, d) /\ d[1] <= wTo)
    <3>1. e[1] <= wTo BY <1>2, <1>5, <2>1, <2>3, EndOfBlock
    <3>2. QED BY <1>2, <2>1, <2>3, <3>1, PosOrder
  <2>4. CASE \A d \in AllLogs : ~(Lt(wPos, d) /\ Lt(d, n))
    BY <1>2, <1>5, <2>1, <2>2, <2>4, PosOrder DEF Leq
  <2>5. QED BY <1>1, <2>3, <2>4 DEF IsNext
<1>6. ASSUME NEW s \in Sessions PROVE Stream(s)'
  <2>1. /\ Stream(s) /\ owner[s] \in Members
        /\ st' = st /\ owner' = owner /\ req' = req /\ latest' = latest /\ rpos' = rpos
        /\ queue' = queue /\ acks' = acks /\ ovf' = ovf /\ head' = head
    BY DEF IInv, TypeOK, DispatchItem
  <2>2. Stage(s)'
    BY <1>1, <2>1 DEF Stream, Stage, Registered
  <2>3. Requests(s)' /\ QueueOrder(s)' /\ ReplayPrefix(s)'
    <3>1. Requests(s)' BY <1>2, <1>3, <2>1, FrameRequests DEF Stream, Requests
    <3>2. QueueOrder(s)' BY <1>2, <1>3, <2>1, FrameQueue DEF Stream
    <3>3. ReplayPrefix(s)' BY <1>2, <1>3, <2>1, FrameReplay DEF Stream
    <3>4. QED BY <3>1, <3>2, <3>3
  <2>4. LiveSuffix(s)'
    <3>1. SUFFICES ASSUME st[s] \in {"read", "resolved", "replay", "live"}, s \notin ovf,
                          NEW e \in U(owner[s])', Passed(e)', latest[s] < e[1]
                   PROVE  InQueue(s, e) \/ (s \in wPend' /\ e = wPos')
      BY <2>1 DEF LiveSuffix, InQueue, Waiting
    <3>2. e \in U(owner[s]) /\ e \in relevant[owner[s]] BY <1>2, <1>3, <2>1, <3>1, Owed
    <3>3. Leq(e, n) BY <1>1, <1>2, <3>1 DEF Passed
    <3>4. CASE Leq(e, wPos)
      <4>1. Passed(e) BY <1>2, <3>4 DEF Passed
      <4>2. QED BY <1>2, <2>1, <3>1, <3>2, <4>1 DEF Stream, LiveSuffix
    <3>5. CASE e = n /\ st[s] \in {"replay", "live"}
      BY <1>1, <3>2, <3>5 DEF Registered
    <3>6. CASE e = n /\ st[s] \in {"read", "resolved"}
      <4>1. e \in missed'[owner[s]] BY <1>1, <2>1, <3>1, <3>2, <3>6
      <4>2. FALSE BY <2>1, <3>1, <4>1 DEF U, Settled
      <4>3. QED BY <4>2
    <3>7. QED BY <1>5, <2>1, <3>1, <3>2, <3>3, <3>4, <3>5, <3>6
  <2>5. QED BY <2>2, <2>3, <2>4 DEF Stream
<1>7. QED BY <1>4, <1>6 DEF Kept

\* Queueing n behind everything owed up to n keeps the channel ordered.
LEMMA AppendQueue ==
    ASSUME TypeOK, TypeOK', NEW s \in Sessions, NEW n \in Position, n[1] <= head,
           \A m \in Members : U(m)' \subseteq U(m), head' = head, owner'[s] = owner[s],
           queue'[s] = Append(queue[s], n), QueueOrder(s),
           \A e \in U(owner[s]) : Leq(e, n) => InQueue(s, e) \/ e = n
    PROVE  /\ QueueOrder(s)'
           /\ \A e : InQueue(s, e) => InQueue(s, e)'
           /\ InQueue(s, n)'
<1> DEFINE q == queue[s]
           r == queue'[s]
<1>1. owner[s] \in Members /\ q \in Seq(Position) /\ r \in Seq(Position) BY DEF TypeOK
<1>2. /\ Len(q) \in Nat /\ Len(r) = Len(q) + 1 /\ r[Len(q) + 1] = n
      /\ \A k \in 1 .. Len(q) : r[k] = q[k]
  BY <1>1
<1>3. \A e : InQueue(s, e) => InQueue(s, e)'
  BY <1>2 DEF InQueue, Waiting
<1>4. InQueue(s, n)'
  BY <1>2 DEF InQueue, Waiting
<1>5. ASSUME NEW k \in 1 .. Len(r)
      PROVE  /\ r[k][1] <= head'
             /\ \A e \in U(owner[s])' : Leq(e, r[k]) => \E j \in 1 .. k : r[j] = e
  <2>1. CASE k \in 1 .. Len(q)
    <3>1. /\ q[k][1] <= head
          /\ \A e \in U(owner[s]) : Leq(e, q[k]) => \E j \in 1 .. k : q[j] = e
      BY <2>1 DEF QueueOrder, Waiting
    <3>2. QED BY <1>1, <1>2, <2>1, <3>1
  <2>2. CASE k = Len(q) + 1
    <3>1. \A e \in U(owner[s]) : Leq(e, n) => (\E j \in 1 .. Len(q) : q[j] = e) \/ e = n
      BY DEF InQueue, Waiting
    <3>2. QED BY <1>1, <1>2, <2>2, <3>1
  <2>3. QED BY <1>2, <2>1, <2>2
<1>6. QueueOrder(s)' BY <1>5 DEF QueueOrder, Waiting
<1>7. QED BY <1>3, <1>4, <1>6

\* send_live.
LEMMA SendLiveKept ==
    ASSUME IInv, TypeOK', NEW s \in Sessions, SendLive(s) PROVE Kept'
<1>1. Evolves /\ \A m \in Members : U(m)' \subseteq U(m) BY Quiet DEF IInv, SendLive
<1>2. TypeOK /\ Bounds /\ \A t \in Sessions : Stream(t) BY DEF IInv
<1>3. \A m \in Members : Client(m)'
  BY <1>1, SameClients DEF IInv, SendLive, Client
<1>4. \A e \in Log : Passed(e)' => Passed(e) BY DEF SendLive, Passed
<1>5. ASSUME NEW t \in Sessions, t # s PROVE Stream(t)'
  <2>1. /\ st'[t] = st[t] /\ owner'[t] = owner[t] /\ req'[t] = req[t]
        /\ latest'[t] = latest[t] /\ rpos'[t] = rpos[t] /\ queue'[t] = queue[t]
        /\ acks'[t] = acks[t] /\ (t \in ovf' <=> t \in ovf)
        /\ (t \in wPend' <=> t \in wPend) /\ wPos' = wPos
    BY <1>2, <1>5 DEF SendLive, TypeOK
  <2>2. QED BY <1>1, <1>2, <1>4, <2>1, FrameStream
<1>6. Stream(s)'
  <2>1. /\ owner[s] \in Members /\ st[s] \in {"live", "reaped"} /\ s \in wPend
        /\ wpc = "dispatch" /\ wpc' = "dispatch" /\ s \notin wPend' /\ wPos' = wPos
        /\ head' = head /\ st' = st /\ owner' = owner /\ req' = req /\ latest' = latest
        /\ rpos' = rpos /\ acks' = acks
    BY <1>2 DEF SendLive, TypeOK, Stream, Stage
  <2>2. Requests(s)' BY <1>1, <1>2, <2>1, FrameRequests DEF Stream, Requests
  <2>3. CASE s \in ovf'
    <3>1. queue' = queue BY <1>2, <2>3 DEF SendLive, TypeOK
    <3>2. QueueOrder(s)' BY <1>1, <1>2, <2>1, <3>1, FrameQueue DEF Stream
    <3>3. Stage(s)' /\ ReplayPrefix(s)' /\ LiveSuffix(s)'
      BY <1>2, <2>1, <2>3 DEF Stream, Stage, ReplayPrefix, LiveSuffix
    <3>4. QED BY <2>2, <3>2, <3>3 DEF Stream
  <2>4. CASE s \notin ovf'
    <3>1. /\ s \notin ovf /\ queue'[s] = Append(queue[s], wPos) /\ st[s] = "live"
          /\ wPos \in Position /\ wTo \in Nat /\ head \in Nat
      BY <1>2, <2>1, <2>4 DEF SendLive, TypeOK, Stream, Stage
    <3>2. wPos[1] <= head
      <4>1. Leq(wPos, BlockEnd(wTo)) /\ wTo <= wHead /\ wHead <= head /\ wHead \in Nat
        BY <1>2, <2>1 DEF Bounds, TypeOK
      <4>2. wPos[1] <= wTo BY <3>1, <4>1, PosOrder, BlockEndType DEF BlockEnd
      <4>3. QED BY <3>1, <4>1, <4>2, PosParts
    <3>3. ASSUME NEW e \in U(owner[s]) PROVE Leq(e, wPos) => InQueue(s, e) \/ e = wPos
      <4>1. e \in Log BY <1>2, <2>1, Owed
      <4>2. e[1] <= latest[s] => InQueue(s, e)
        BY <1>2, <3>1 DEF Stream, ReplayPrefix
      <4>3. Leq(e, wPos) /\ latest[s] < e[1] => InQueue(s, e) \/ e = wPos
        BY <1>2, <2>1, <3>1 DEF Stream, LiveSuffix, Passed
      <4>4. latest[s] \in Nat BY <1>2 DEF TypeOK
      <4>5. QED BY <4>1, <4>2, <4>3, <4>4, LogParts
    <3>4. /\ QueueOrder(s)' /\ InQueue(s, wPos)'
          /\ \A e : InQueue(s, e) => InQueue(s, e)'
      BY <1>1, <1>2, <2>1, <3>1, <3>2, <3>3, AppendQueue DEF Stream
    <3>5. Stage(s)'
      <4>1. Stage(s) BY <1>2 DEF Stream
      <4>2. st'[s] = "live" BY <2>1, <3>1
      <4>3. RegBlock[owner'[s]] <= head' BY <2>1, <3>1, <4>1 DEF Stage
      <4>4. QED BY <4>2, <4>3 DEF Stage
    <3>6. ReplayPrefix(s)'
      <4>1. \A e \in U(owner[s])' : e[1] <= latest[s] => InQueue(s, e)'
        BY <1>1, <1>2, <2>1, <3>1, <3>4 DEF Stream, ReplayPrefix
      <4>2. QED BY <2>1, <3>1, <4>1 DEF ReplayPrefix
    <3>7. LiveSuffix(s)'
      <4>1. ASSUME NEW e \in U(owner[s])', Passed(e)', latest[s] < e[1] PROVE InQueue(s, e)'
        <5>1. e \in U(owner[s]) BY <1>1, <2>1, <4>1
        <5>2. Passed(e) BY <2>1, <4>1 DEF Passed
        <5>3. InQueue(s, e) \/ e = wPos
          BY <1>2, <3>1, <4>1, <5>1, <5>2 DEF Stream, LiveSuffix
        <5>4. QED BY <2>1, <3>4, <5>3 DEF InQueue, Waiting
      <4>2. QED BY <2>1, <4>1 DEF LiveSuffix
    <3>8. QED BY <2>2, <3>4, <3>5, <3>6, <3>7 DEF Stream
  <2>5. QED BY <2>3, <2>4
<1>7. QED BY <1>3, <1>5, <1>6 DEF Kept

\* Subscribe: the new session's replay will reach the watermark it has read.
LEMMA SubscribeKept ==
    ASSUME IInv, TypeOK', NEW m \in Members, NEW s \in Sessions, Subscribe(m, s) PROVE Kept'
<1>1. Evolves /\ \A c \in Members : U(c)' \subseteq U(c) BY Quiet DEF IInv, Subscribe
<1>2. /\ TypeOK /\ Bounds /\ \A t \in Sessions : Stream(t)
      /\ \A c \in Members : Client(c)
      /\ head \in Nat /\ ingested \in Nat /\ RegBlock[m] \in Nat
  BY DeliveryAssumption DEF IInv, TypeOK
<1>3. /\ st[s] = "free" /\ st' = [st EXCEPT ![s] = "read"]
      /\ owner' = [owner EXCEPT ![s] = m] /\ req' = [req EXCEPT ![s] = prog[m][1]]
      /\ latest' = [latest EXCEPT ![s] = lastIndexed] /\ cur' = [cur EXCEPT ![m] = s]
      /\ RegBlock[m] <= ingested /\ cur[m] = NoSession
      /\ UNCHANGED <<chainVars, storeVars, watchVars, rpos, queue, ovf, acks,
                     hand, last, prog, saved>>
  BY DEF Subscribe
<1>4. ASSUME NEW c \in Members, cur'[c] # NoSession
      PROVE  owner'[cur'[c]] = c /\ st'[cur'[c]] # "free"
  <2>1. CASE c = m BY <1>2, <1>3, <2>1 DEF TypeOK
  <2>2. CASE c # m
    <3>1. cur'[c] = cur[c] /\ cur[c] \in Sessions BY <1>2, <1>3, <1>4, <2>2 DEF TypeOK
    <3>2. owner[cur[c]] = c /\ st[cur[c]] # "free" BY <1>2, <1>4, <3>1 DEF Client
    <3>3. cur[c] # s BY <1>3, <3>2
    <3>4. QED BY <1>2, <1>3, <3>1, <3>2, <3>3 DEF TypeOK
  <2>3. QED BY <2>1, <2>2
<1>5. \A c \in Members : Client(c)'
  BY <1>1, <1>2, <1>3, <1>4, SameClients
<1>6. \A e \in Log : Passed(e)' => Passed(e) BY <1>3 DEF Passed
<1>7. ASSUME NEW t \in Sessions, t # s PROVE Stream(t)'
  <2>1. /\ st'[t] = st[t] /\ owner'[t] = owner[t] /\ req'[t] = req[t]
        /\ latest'[t] = latest[t] /\ rpos'[t] = rpos[t] /\ queue'[t] = queue[t]
        /\ acks'[t] = acks[t] /\ (t \in ovf' <=> t \in ovf)
        /\ (t \in wPend' <=> t \in wPend) /\ wPos' = wPos
    BY <1>2, <1>3, <1>7 DEF TypeOK
  <2>2. QED BY <1>1, <1>2, <1>6, <2>1, FrameStream
<1>8. Stream(s)'
  <2>1. /\ st'[s] = "read" /\ owner'[s] = m /\ req'[s] = prog[m][1]
        /\ latest'[s] = lastIndexed /\ queue'[s] = <<>> /\ acks'[s] = acks[s]
        /\ s \notin wPend' /\ lastIndexed \in Nat /\ prog[m] \in Position
    BY <1>2, <1>3 DEF TypeOK, Stream, Stage
  <2>2. Stage(s)' BY <1>2, <1>3, <2>1 DEF Stage, Bounds
  <2>3. QueueOrder(s)' BY <2>1 DEF QueueOrder
  <2>4. ReplayPrefix(s)' BY <2>1 DEF ReplayPrefix
  <2>5. LiveSuffix(s)'
    <3>1. ASSUME NEW e \in U(m)', Passed(e)', lastIndexed < e[1] PROVE FALSE
      <4>1. e \in Log BY <1>1, <1>2, <3>1, Owed
      <4>2. Passed(e) BY <1>6, <3>1, <4>1
      <4>3. QED BY <1>2, <2>1, <3>1, <4>1, <4>2, PassedMined, LogParts
    <3>2. QED BY <2>1, <3>1 DEF LiveSuffix
  <2>6. Requests(s)'
    <3>1. acks'[s] = <<>> BY <1>2, <1>3, <2>1 DEF Stream, Stage
    <3>2. Clear(m, prog[m]) BY <1>2 DEF Client
    <3>3. ASSUME NEW e \in U(m)' PROVE prog[m][1] <= e[1]
      <4>1. e \in U(m) /\ e \in Log BY <1>1, <1>2, <3>3, Owed
      <4>2. ~Leq(e, prog[m]) BY <3>2, <4>1 DEF Clear
      <4>3. Lt(prog[m], e) BY <2>1, <4>1, <4>2, PosOrder, LogParts
      <4>4. QED BY <2>1, <4>1, <4>3, PosOrder, LogParts
    <3>4. prog[m][1] <= head' BY <1>3, <3>2 DEF Clear
    <3>5. QED BY <2>1, <3>1, <3>3, <3>4 DEF Requests
  <2>7. QED BY <2>2, <2>3, <2>4, <2>5, <2>6 DEF Stream
<1>9. QED BY <1>5, <1>7, <1>8 DEF Kept

\* Resolve: the replay starts behind everything owed.
LEMMA ResolveKept ==
    ASSUME IInv, TypeOK', NEW s \in Sessions, Resolve(s) PROVE Kept'
<1>1. /\ TypeOK /\ Bounds /\ \A t \in Sessions : Stream(t)
      /\ \A c \in Members : Client(c)
  BY DEF IInv
<1>a. PICK m \in Members : m = owner[s] BY <1>1 DEF TypeOK
<1>b. PICK base : base = BlockEnd(Max2(latest[s], RegBlock[m])) OBVIOUS
<1>c. PICK first : first = IF req[s] = 0 THEN RegBlock[m] ELSE Max2(req[s], RegBlock[m])
  OBVIOUS
<1> DEFINE init == InitializeAtHead(req[s], cursor[m])
<1>2. /\ m \in Members /\ head \in Nat /\ latest[s] \in Nat /\ req[s] \in Nat
      /\ RegBlock[m] \in Nat /\ cursor[m] \in Position /\ floor[m] \in Position
      /\ RegBlock[m] <= head /\ latest[s] <= head /\ req[s] <= head /\ st[s] = "read"
  BY <1>1, <1>a, DeliveryAssumption DEF Resolve, TypeOK, Stream, Stage, Requests, Bounds
<1>3. Max2(latest[s], RegBlock[m]) \in Nat /\ Max2(latest[s], RegBlock[m]) <= head
      /\ first \in Nat /\ first <= head
  BY <1>2, <1>c DEF Max2
<1>4. base \in Position /\ base[1] <= head /\ BeforeBlock(first) \in Position
      /\ BeforeBlock(first)[1] <= head
  <2>1. base \in Position BY <1>3, <1>b, BlockEndType
  <2>2. base[1] <= head BY <1>3, <1>b DEF BlockEnd
  <2>3. CASE first = 0 BY <1>2, <2>1, <2>2, <2>3, NoPosType DEF BeforeBlock, NoPos
  <2>4. CASE first # 0
    <3>1. first - 1 \in Nat /\ first - 1 <= head /\ BeforeBlock(first) = BlockEnd(first - 1)
      BY <1>2, <1>3, <2>4 DEF BeforeBlock
    <3>2. BlockEnd(first - 1)[1] = first - 1 BY DEF BlockEnd
    <3>3. QED BY <2>1, <2>2, <3>1, <3>2, BlockEndType
  <2>5. QED BY <2>3, <2>4
<1>5. /\ st' = [st EXCEPT ![s] = "resolved"] /\ req' = [req EXCEPT ![s] = 0]
      /\ UNCHANGED <<chainVars, watchVars, owner, latest, queue, ovf, acks, clientVars, missed>>
  BY DEF Resolve
<1>6. \/ /\ ~init /\ UNCHANGED <<cursor, durable, floor>>
         /\ rpos' = [rpos EXCEPT ![s] = MaxPos(BeforeBlock(first), cursor[m])]
      \/ /\ init
         /\ cursor' = [cursor EXCEPT ![m] = base] /\ durable' = cursor'
         /\ floor' = [floor EXCEPT ![m] = MaxPos(floor[m], base)]
         /\ rpos' = [rpos EXCEPT ![s] = MaxPos(BeforeBlock(first), base)]
  BY <1>a, <1>b, <1>c DEF Resolve, ReplayFrom
<1> HIDE DEF init
<1>7. Evolves /\ \A c \in Members : U(c)' \subseteq U(c)
  <2>1. ASSUME NEW c \in Members PROVE Leq(floor[c], floor'[c])
    <3>1. CASE floor'[c] = floor[c] BY <3>1 DEF Leq
    <3>2. CASE floor'[c] # floor[c]
      <4>1. c = m /\ floor'[m] = MaxPos(floor[m], base) BY <1>1, <1>2, <1>6, <3>2 DEF TypeOK
      <4>2. QED BY <1>2, <1>4, <4>1, PosOrder
    <3>3. QED BY <3>1, <3>2
  <2>2. QED BY <1>1, <1>5, <2>1, Settles
<1>8. init => \A e \in U(m)' : ~Leq(e, base)
  <2>1. SUFFICES ASSUME init, NEW e \in U(m)', Leq(e, base) PROVE FALSE OBVIOUS
  <2>2. floor'[m] = MaxPos(floor[m], base) BY <1>1, <1>2, <1>6, <2>1 DEF TypeOK
  <2>3. e \in Position BY <1>1, <1>2, <1>7, <2>1, Owed, LogParts
  <2>4. Leq(base, floor'[m]) /\ floor'[m] \in Position
    <3>1. floor'[m] \in Position BY <1>2 DEF TypeOK
    <3>2. QED BY <1>2, <1>4, <2>2, <3>1, PosOrder
  <2>5. Leq(e, floor'[m]) BY <1>4, <2>1, <2>3, <2>4, PosTrans
  <2>6. QED BY <2>1, <2>5 DEF U, Settled
<1>9. ASSUME NEW c \in Members PROVE Client(c)'
  <2>1. Client(c) BY <1>1
  <2>2. cur'[c] # NoSession => owner'[cur'[c]] = c /\ st'[cur'[c]] # "free"
    BY <1>1, <1>2, <1>5, <2>1 DEF Client, TypeOK
  <2>3. CASE ~init \/ c # m
    <3>3. cursor \in [Members -> Position] /\ durable \in [Members -> Position]
      BY <1>1 DEF TypeOK
    <3>1. /\ cursor'[c] = cursor[c]
          /\ durable'[c] \in {durable[c], cursor[c]}
      BY <1>2, <1>6, <2>3, <3>3
    <3>2. QED BY <1>1, <1>5, <1>7, <2>1, <2>2, <3>1, FrameClient DEF Client
  <2>4. CASE init /\ c = m
    <3>1. cursor'[m] = base /\ durable'[m] = base BY <1>1, <1>2, <1>6, <2>4 DEF TypeOK
    <3>2. Clear(m, cursor[m])' /\ Clear(m, durable[m])'
      BY <1>4, <1>5, <1>8, <2>4, <3>1 DEF Clear
    <3>3. /\ prog[m] \in Position /\ saved[m] \in Position
          /\ last[m] \in Position /\ hand[m] \in Position
      BY <1>1, <1>2 DEF TypeOK
    <3>a. Clear(m, prog[m])' BY <1>1, <1>2, <1>5, <1>7, <2>1, <2>4, <3>3, FrameClear DEF Client, Clear
    <3>b. Clear(m, saved[m])' BY <1>1, <1>2, <1>5, <1>7, <2>1, <2>4, <3>3, FrameClear DEF Client, Clear
    <3>c. Clear(m, last[m])' BY <1>1, <1>2, <1>5, <1>7, <2>1, <2>4, <3>3, FrameClear DEF Client, Clear
    <3>d. Clear(m, hand[m])' BY <1>1, <1>2, <1>5, <1>7, <2>1, <2>4, <3>3, FrameClear DEF Client, Clear
    <3>4. /\ Clear(m, prog[m])' /\ Clear(m, saved[m])'
          /\ Clear(m, last[m])' /\ Clear(m, hand[m])'
      BY <3>a, <3>b, <3>c, <3>d
    <3>5. QED BY <2>2, <2>4, <3>2, <3>4 DEF Client
  <2>5. QED BY <2>3, <2>4
<1>10. \A e \in Log : Passed(e)' => Passed(e) BY <1>5 DEF Passed
<1>11. ASSUME NEW t \in Sessions, t # s PROVE Stream(t)'
  <2>1. /\ st'[t] = st[t] /\ owner'[t] = owner[t] /\ req'[t] = req[t]
        /\ latest'[t] = latest[t] /\ rpos'[t] = rpos[t] /\ queue'[t] = queue[t]
        /\ acks'[t] = acks[t] /\ (t \in ovf' <=> t \in ovf)
        /\ (t \in wPend' <=> t \in wPend) /\ wPos' = wPos
    BY <1>1, <1>5, <1>6, <1>11 DEF TypeOK
  <2>2. QED BY <1>1, <1>7, <1>10, <2>1, FrameStream
<1>12. Stream(s)'
  <2>1. /\ st'[s] = "resolved" /\ owner'[s] = owner[s] /\ queue'[s] = queue[s]
        /\ queue[s] = <<>> /\ s \notin wPend /\ s \notin wPend' /\ latest'[s] = latest[s]
        /\ acks'[s] = acks[s] /\ head' = head /\ ovf' = ovf /\ owner[s] = m
        /\ wPos' = wPos
    BY <1>1, <1>2, <1>5, <1>a DEF TypeOK, Stream, Stage
  <2>2. Stage(s)' BY <1>2, <2>1 DEF Stage
  <2>3. Requests(s)' BY <1>1, <1>7, <2>1, FrameRequests DEF Stream, Requests
  <2>4. QueueOrder(s)' BY <1>1, <1>7, <2>1, FrameQueue DEF Stream
  <2>5. LiveSuffix(s)' BY <1>1, <1>2, <1>7, <1>10, <2>1, FrameLive DEF Stream
  <2>6. \A e \in U(m)' : ~Leq(e, BeforeBlock(first))
    <3>1. SUFFICES ASSUME NEW e \in U(m)', Leq(e, BeforeBlock(first)) PROVE FALSE OBVIOUS
    <3>2. e \in U(m) /\ e \in relevant[m] /\ e \in Log BY <1>1, <1>2, <1>7, <3>1, Owed
    <3>3. e[1] < first BY <1>3, <3>1, <3>2, EndOfBlock
    <3>4. RegBlock[m] <= e[1] BY <1>1, <1>2, <3>2 DEF Bounds
    <3>5. req[s] <= e[1] BY <1>1, <1>2, <2>1, <3>2 DEF Stream, Requests
    <3>6. first \in {req[s], RegBlock[m]} BY <1>c DEF Max2
    <3>7. QED BY <1>2, <1>3, <3>2, <3>3, <3>4, <3>5, <3>6, LogParts
  <2>7. \A e \in U(m)' : ~Leq(e, rpos'[s]) /\ rpos'[s][1] <= head
    <3>1. CASE ~init
      <4>1. rpos'[s] \in {BeforeBlock(first), cursor[m]}
        BY <1>1, <1>2, <1>4, <1>6, <3>1, PosOrder DEF TypeOK
      <4>2. Clear(m, cursor[m]) BY <1>1, <1>2 DEF Client
      <4>3. QED BY <1>4, <1>7, <1>2, <2>6, <4>1, <4>2 DEF Clear
    <3>2. CASE init
      <4>1. rpos'[s] \in {BeforeBlock(first), base}
        BY <1>1, <1>2, <1>4, <1>6, <3>2, PosOrder DEF TypeOK
      <4>2. QED BY <1>4, <1>8, <2>6, <3>2, <4>1
    <3>3. QED BY <3>1, <3>2
  <2>8. rpos'[s][1] <= head
    <3>4. ASSUME ~init PROVE rpos'[s] \in {BeforeBlock(first), cursor[m]}
      BY <1>1, <1>2, <1>4, <1>6, <3>4, PosOrder DEF TypeOK
    <3>5. ASSUME init PROVE rpos'[s] \in {BeforeBlock(first), base}
      BY <1>1, <1>2, <1>4, <1>6, <3>5, PosOrder DEF TypeOK
    <3>1. rpos'[s] \in {BeforeBlock(first), cursor[m], base} BY <3>4, <3>5
    <3>2. cursor[m][1] <= head BY <1>1, <1>2 DEF Client, Clear
    <3>3. QED BY <1>4, <3>1, <3>2
  <2>9. ReplayPrefix(s)' BY <2>1, <2>7, <2>8 DEF ReplayPrefix
  <2>10. QED BY <2>2, <2>3, <2>4, <2>5, <2>9 DEF Stream
<1>13. QED BY <1>9, <1>11, <1>12 DEF Kept

\* Registration, a failed replay and the reaper only move the session's stage.
LEMMA StageKept ==
    ASSUME IInv, TypeOK', NEW s \in Sessions, Register(s) \/ Reap(s) \/ ReplayFails(s)
    PROVE  Kept'
<1>1. Evolves /\ \A c \in Members : U(c)' \subseteq U(c)
  BY Quiet DEF IInv, Register, Reap, ReplayFails
<1>2. /\ TypeOK /\ Bounds /\ \A t \in Sessions : Stream(t)
      /\ \A c \in Members : Client(c)
  BY DEF IInv
<1>3. /\ UNCHANGED <<chainVars, storeVars, watchVars, owner, req, latest, queue, acks, clientVars>>
      /\ \/ /\ st[s] = "resolved" /\ st' = [st EXCEPT ![s] = "replay"]
            /\ rpos' = rpos /\ ovf' = ovf
         \/ /\ s \in ovf' /\ ovf \subseteq ovf' /\ ovf' \subseteq ovf \cup {s}
            /\ st[s] \in {"replay", "live"}
            /\ st' = [st EXCEPT ![s] = "live"] \/ st' = [st EXCEPT ![s] = "reaped"]
            /\ rpos' = rpos \/ rpos' = [rpos EXCEPT ![s] = NoPos]
  BY DEF Register, Reap, ReplayFails
<1>4. st'[s] \in {"replay", "live", "reaped"} /\ st[s] \notin {"free", "read"}
  BY <1>2, <1>3 DEF TypeOK
<1>5. ASSUME NEW t \in Sessions, t # s
      PROVE  /\ st'[t] = st[t] /\ owner'[t] = owner[t] /\ req'[t] = req[t]
             /\ latest'[t] = latest[t] /\ rpos'[t] = rpos[t] /\ queue'[t] = queue[t]
             /\ acks'[t] = acks[t] /\ (t \in ovf' <=> t \in ovf)
             /\ (t \in wPend' <=> t \in wPend) /\ wPos' = wPos
  BY <1>2, <1>3, <1>5 DEF TypeOK
<1>6. \A c \in Members : Client(c)'
  <2>1. ASSUME NEW c \in Members, cur'[c] # NoSession
        PROVE  owner'[cur'[c]] = c /\ st'[cur'[c]] # "free"
    <3>1. cur'[c] = cur[c] /\ cur[c] \in Sessions /\ owner' = owner
      BY <1>2, <1>3, <2>1 DEF TypeOK
    <3>2. owner[cur[c]] = c /\ st[cur[c]] # "free" BY <1>2, <2>1, <3>1 DEF Client
    <3>3. QED BY <1>4, <1>5, <3>1, <3>2
  <2>2. QED BY <1>1, <1>2, <1>3, <2>1, SameClients
<1>7. \A e \in Log : Passed(e)' => Passed(e) BY <1>3 DEF Passed
<1>8. ASSUME NEW t \in Sessions, t # s PROVE Stream(t)'
  BY <1>1, <1>2, <1>5, <1>7, <1>8, FrameStream
<1>9. Stream(s)'
  <2>1. /\ owner' = owner /\ queue' = queue /\ latest' = latest /\ acks' = acks
        /\ wPend' = wPend /\ wPos' = wPos /\ head' = head
    BY <1>3
  <2>2. Stage(s)'
    <3>1. Stage(s) BY <1>2 DEF Stream
    <3>2. st'[s] = "reaped" => s \in ovf' BY <1>2, <1>3 DEF TypeOK
    <3>3. QED BY <1>4, <2>1, <3>1, <3>2 DEF Stage
  <2>3. Requests(s)' BY <1>1, <1>2, <1>4, <2>1, FrameRequests DEF Stream, Requests
  <2>4. QueueOrder(s)' BY <1>1, <1>2, <2>1, FrameQueue DEF Stream
  <2>5. CASE s \in ovf' /\ st'[s] \in {"live", "reaped"}
    <3>1. ReplayPrefix(s)' /\ LiveSuffix(s)' BY <2>5 DEF ReplayPrefix, LiveSuffix
    <3>2. QED BY <2>2, <2>3, <2>4, <3>1 DEF Stream
  <2>6. CASE st[s] = "resolved" /\ st'[s] = "replay" /\ rpos' = rpos /\ ovf' = ovf
    <3>1. LiveSuffix(s)' BY <1>1, <1>2, <1>7, <2>1, <2>6, FrameLive DEF Stream
    <3>2. owner[s] \in Members BY <1>2 DEF TypeOK
    <3>3. PICK m \in Members : m = owner[s] BY <3>2
    <3>a. rpos[s][1] <= head /\ \A e \in U(m) : Leq(e, rpos[s]) => InQueue(s, e)
      BY <1>2, <2>6, <3>3 DEF Stream, ReplayPrefix
    <3>b. \A e \in U(m)' : Leq(e, rpos[s]) => InQueue(s, e) BY <1>1, <3>a
    <3>4. ReplayPrefix(s)' BY <2>1, <2>6, <3>3, <3>a, <3>b DEF ReplayPrefix, InQueue, Waiting
    <3>5. QED BY <2>2, <2>3, <2>4, <3>1, <3>4 DEF Stream
  <2>7. QED BY <1>2, <1>3, <2>5, <2>6 DEF TypeOK
<1>10. QED BY <1>6, <1>8, <1>9 DEF Kept

\* The replay task queues the next owed log, or closes its range.
LEMMA ReplaySendKept ==
    ASSUME IInv, TypeOK', NEW s \in Sessions, ReplaySend(s) PROVE Kept'
<1>1. Evolves /\ \A c \in Members : U(c)' \subseteq U(c) BY Quiet DEF IInv, ReplaySend
<1>2. /\ TypeOK /\ Bounds /\ \A t \in Sessions : Stream(t)
      /\ \A c \in Members : Client(c)
  BY DEF IInv
<1>3. PICK m \in Members : m = owner[s] BY <1>2 DEF TypeOK
<1>4. PICK n \in relevant[m] \cup {BlockEnd(latest[s])} :
         /\ IsNext(relevant[m], rpos[s], latest[s], n)
         /\ queue' = [queue EXCEPT ![s] = Append(@, n)]
         /\ IF n = BlockEnd(latest[s])
            THEN st' = [st EXCEPT ![s] = "live"] /\ rpos' = [rpos EXCEPT ![s] = NoPos]
            ELSE rpos' = [rpos EXCEPT ![s] = n] /\ st' = st
  BY <1>3 DEF ReplaySend
<1>5. /\ st[s] = "replay"
      /\ UNCHANGED <<chainVars, storeVars, watchVars, owner, req, latest, ovf, acks, clientVars>>
  BY DEF ReplaySend
<1>6. /\ latest[s] \in Nat /\ rpos[s] \in Position /\ head \in Nat /\ latest[s] <= head
      /\ queue'[s] = Append(queue[s], n)
      /\ n = BlockEnd(latest[s]) => st'[s] = "live"
      /\ n # BlockEnd(latest[s]) => st'[s] = "replay" /\ rpos'[s] = n
  BY <1>2, <1>4, <1>5 DEF TypeOK, Bounds
<1>7. n \in Position /\ n[1] <= head
  <2>1. CASE n = BlockEnd(latest[s])
    BY <1>6, <2>1, BlockEndType DEF BlockEnd
  <2>2. CASE n \in relevant[m]
    BY <1>2, <2>2, Owed, LogParts DEF Bounds
  <2>3. QED BY <1>4, <2>1, <2>2
<1>8. ASSUME NEW t \in Sessions, t # s
      PROVE  /\ st'[t] = st[t] /\ owner'[t] = owner[t] /\ req'[t] = req[t]
             /\ latest'[t] = latest[t] /\ rpos'[t] = rpos[t] /\ queue'[t] = queue[t]
             /\ acks'[t] = acks[t] /\ (t \in ovf' <=> t \in ovf)
             /\ (t \in wPend' <=> t \in wPend) /\ wPos' = wPos
  BY <1>2, <1>4, <1>5, <1>8 DEF TypeOK
<1>9. \A c \in Members : Client(c)'
  <2>1. ASSUME NEW c \in Members, cur'[c] # NoSession
        PROVE  owner'[cur'[c]] = c /\ st'[cur'[c]] # "free"
    <3>1. cur'[c] = cur[c] /\ cur[c] \in Sessions /\ owner' = owner
      BY <1>2, <1>5, <2>1 DEF TypeOK
    <3>2. owner[cur[c]] = c /\ st[cur[c]] # "free" BY <1>2, <2>1, <3>1 DEF Client
    <3>3. QED BY <1>6, <1>8, <3>1, <3>2
  <2>2. QED BY <1>1, <1>2, <1>5, <2>1, SameClients
<1>10. \A e \in Log : Passed(e)' => Passed(e) BY <1>5 DEF Passed
<1>11. ASSUME NEW t \in Sessions, t # s PROVE Stream(t)'
  BY <1>1, <1>2, <1>8, <1>10, <1>11, FrameStream
<1>12. ASSUME NEW e \in U(m), Leq(e, n) PROVE InQueue(s, e) \/ e = n
  <2>1. e \in Log /\ e \in relevant[m] /\ e \in Position BY <1>2, <1>12, Owed, LogParts
  <2>2. Leq(e, rpos[s]) \/ e = n
    <3>1. CASE n = BlockEnd(latest[s]) /\ \A d \in relevant[m] : ~(Lt(rpos[s], d) /\ d[1] <= latest[s])
      <4>1. e[1] <= latest[s] BY <1>6, <1>12, <2>1, <3>1, EndOfBlock
      <4>2. QED BY <1>6, <2>1, <3>1, <4>1, PosOrder
    <3>2. CASE \A d \in relevant[m] : ~(Lt(rpos[s], d) /\ Lt(d, n))
      BY <1>6, <1>7, <1>12, <2>1, <3>2, PosOrder DEF Leq
    <3>3. QED BY <1>4, <3>1, <3>2 DEF IsNext
  <2>3. Leq(e, rpos[s]) => InQueue(s, e)
    BY <1>2, <1>3, <1>5, <1>12 DEF Stream, ReplayPrefix
  <2>4. QED BY <2>2, <2>3
<1>13. /\ QueueOrder(s)' /\ InQueue(s, n)'
       /\ \A e : InQueue(s, e) => InQueue(s, e)'
  <2>1. QueueOrder(s) /\ owner'[s] = owner[s] /\ head' = head BY <1>2, <1>5 DEF Stream
  <2>2. QED BY <1>1, <1>2, <1>3, <1>6, <1>7, <1>12, <2>1, AppendQueue
<1>14. Stream(s)'
  <2>1. /\ owner'[s] = m /\ latest' = latest /\ acks' = acks /\ wPend' = wPend
        /\ wPos' = wPos /\ head' = head /\ ovf' = ovf /\ st'[s] \in {"replay", "live"}
    BY <1>3, <1>5, <1>6
  <2>2. Stage(s)'
    <3>1. Stage(s) BY <1>2 DEF Stream
    <3>2. QED BY <1>3, <1>5, <2>1, <3>1 DEF Stage
  <2>3. Requests(s)' BY <1>1, <1>2, <1>3, <2>1, FrameRequests DEF Stream, Requests
  <2>4. ASSUME NEW e \in U(m)', Leq(e, n) PROVE InQueue(s, e)'
    BY <1>1, <1>12, <1>13, <2>4 DEF InQueue, Waiting
  <2>5. ReplayPrefix(s)'
    <3>1. CASE n # BlockEnd(latest[s])
      <4>1. rpos'[s][1] <= head' BY <1>6, <1>7, <2>1, <3>1
      <4>2. \A e \in U(m)' : Leq(e, rpos'[s]) => InQueue(s, e)' BY <1>6, <2>4, <3>1
      <4>3. QED BY <1>6, <2>1, <3>1, <4>1, <4>2 DEF ReplayPrefix
    <3>2. CASE n = BlockEnd(latest[s])
      <4>1. ASSUME NEW e \in U(m)', e[1] <= latest[s] PROVE InQueue(s, e)'
        <5>1. e \in Log BY <1>1, <1>2, <4>1, Owed
        <5>2. Leq(e, n) BY <1>6, <3>2, <4>1, <5>1, EndOfBlock
        <5>3. QED BY <2>4, <4>1, <5>2
      <4>2. QED BY <1>6, <2>1, <3>2, <4>1 DEF ReplayPrefix
    <3>3. QED BY <3>1, <3>2
  <2>6. LiveSuffix(s)'
    <3>1. ASSUME s \notin ovf, NEW e \in U(m)', Passed(e)', latest[s] < e[1]
          PROVE  InQueue(s, e)' \/ (s \in wPend /\ e = wPos)
      <4>1. e \in U(m) /\ e \in Log BY <1>1, <1>2, <3>1, Owed
      <4>2. Passed(e) BY <1>10, <3>1, <4>1
      <4>3. InQueue(s, e) \/ (s \in wPend /\ e = wPos)
        BY <1>2, <1>3, <1>5, <3>1, <4>1, <4>2 DEF Stream, LiveSuffix
      <4>4. QED BY <1>13, <4>3
    <3>2. QED BY <2>1, <3>1 DEF LiveSuffix
  <2>7. QED BY <1>13, <2>2, <2>3, <2>5, <2>6 DEF Stream
<1>15. QED BY <1>9, <1>11, <1>14 DEF Kept

\* The items of a channel after its first one is taken.
LEMMA TailParts ==
    ASSUME NEW q \in Seq(Position), q # <<>>
    PROVE  /\ Head(q) = q[1] /\ Head(q) \in Position /\ Len(q) \in Nat /\ Len(q) > 0
           /\ Len(Tail(q)) = Len(q) - 1
           /\ \A k \in 1 .. Len(Tail(q)) : k + 1 \in 1 .. Len(q) /\ Tail(q)[k] = q[k + 1]
<1>1. /\ Head(q) = q[1] /\ Head(q) \in Position /\ Len(q) \in Nat /\ Len(q) > 0 OBVIOUS
<1>2. /\ Len(Tail(q)) = Len(q) - 1
      /\ \A k \in 1 .. Len(Tail(q)) : Tail(q)[k] = q[k + 1]
  BY HeadTailProperties
<1>3. QED BY <1>1, <1>2

\* The Ack task: an Ack in flight, however late, passes no log owed.
LEMMA ServerAckKept ==
    ASSUME IInv, TypeOK', NEW s \in Sessions, ServerAck(s) PROVE Kept'
<1>1. Evolves /\ \A c \in Members : U(c)' \subseteq U(c) BY Quiet DEF IInv, ServerAck
<1>2. /\ TypeOK /\ Bounds /\ \A t \in Sessions : Stream(t)
      /\ \A c \in Members : Client(c)
  BY DEF IInv
<1>3. PICK m \in Members : m = owner[s] BY <1>2 DEF TypeOK
<1>4. PICK p : p = Head(acks[s]) OBVIOUS
<1>5. /\ acks[s] # <<>> /\ acks' = [acks EXCEPT ![s] = Tail(@)]
      /\ cursor' = [cursor EXCEPT ![m] = MaxPos(@, p)]
      /\ durable' = cursor' \/ durable' = durable
      /\ UNCHANGED <<chainVars, watchVars, st, owner, req, latest, rpos, queue, ovf, clientVars>>
  BY <1>3, <1>4 DEF ServerAck
<1>6. acks[s] \in Seq(Position) /\ cursor[m] \in Position /\ acks'[s] = Tail(acks[s])
  BY <1>2, <1>5 DEF TypeOK
<1>7. p = acks[s][1] /\ p \in Position /\ 1 \in 1 .. Len(acks[s])
  BY <1>4, <1>5, <1>6
<1>8. Clear(m, p) BY <1>2, <1>3, <1>7 DEF Stream, Requests
<1>9. ASSUME NEW c \in Members PROVE Client(c)'
  <2>1. Client(c) BY <1>2
  <2>2. cursor'[c] \in {cursor[c]} \cup (IF c = m THEN {p} ELSE {})
    <3>1. CASE c = m
      <4>1. cursor'[m] = MaxPos(cursor[m], p) BY <1>2, <1>5 DEF TypeOK
      <4>2. QED BY <1>6, <1>7, <3>1, <4>1, PosOrder
    <3>2. CASE c # m BY <1>2, <1>5, <3>2 DEF TypeOK
    <3>3. QED BY <3>1, <3>2
  <2>3. Clear(c, cursor'[c]) BY <1>8, <2>1, <2>2 DEF Client
  <2>4. Clear(c, durable'[c]) BY <1>5, <2>1, <2>3 DEF Client
  <2>5. QED BY <1>1, <1>2, <1>5, <2>1, <2>3, <2>4, FrameClient DEF Client
<1>10. \A e \in Log : Passed(e)' => Passed(e) BY <1>5 DEF Passed
<1>11. ASSUME NEW t \in Sessions, t # s PROVE Stream(t)'
  <2>1. /\ st'[t] = st[t] /\ owner'[t] = owner[t] /\ req'[t] = req[t]
        /\ latest'[t] = latest[t] /\ rpos'[t] = rpos[t] /\ queue'[t] = queue[t]
        /\ acks'[t] = acks[t] /\ (t \in ovf' <=> t \in ovf)
        /\ (t \in wPend' <=> t \in wPend) /\ wPos' = wPos
    BY <1>2, <1>5, <1>11 DEF TypeOK
  <2>2. QED BY <1>1, <1>2, <1>10, <2>1, FrameStream
<1>12. Stream(s)'
  <2>1. /\ owner' = owner /\ queue' = queue /\ latest' = latest /\ rpos' = rpos
        /\ st' = st /\ req' = req /\ ovf' = ovf
        /\ wPend' = wPend /\ wPos' = wPos /\ head' = head
    BY <1>5
  <2>2. Stage(s)'
    <3>1. st[s] # "free" BY DEF ServerAck
    <3>2. QED BY <1>2, <2>1, <3>1 DEF Stream, Stage
  <2>3. Requests(s)'
    <3>1. ASSUME NEW k \in 1 .. Len(acks'[s]) PROVE Clear(owner[s], acks'[s][k])
      <4>1. k + 1 \in 1 .. Len(acks[s]) /\ acks'[s][k] = acks[s][k + 1]
        BY <1>5, <1>6, <3>1, TailParts
      <4>2. QED BY <1>2, <4>1 DEF Stream, Requests
    <3>2. QED BY <1>1, <1>2, <2>1, <3>1, FrameRequests DEF Stream
  <2>4. QueueOrder(s)' BY <1>1, <1>2, <2>1, FrameQueue DEF Stream
  <2>5. ReplayPrefix(s)' BY <1>1, <1>2, <2>1, FrameReplay DEF Stream
  <2>6. LiveSuffix(s)' BY <1>1, <1>2, <1>10, <2>1, FrameLive DEF Stream
  <2>7. QED BY <2>2, <2>3, <2>4, <2>5, <2>6 DEF Stream
<1>13. QED BY <1>9, <1>11, <1>12 DEF Kept

\* A free session constrains nothing.
LEMMA FreeStream ==
    ASSUME NEW s \in Sessions, st'[s] = "free", queue'[s] = <<>>, acks'[s] = <<>>,
           s \notin wPend'
    PROVE  Stream(s)'
<1>1. Stage(s)' BY DEF Stage
<1>2. Requests(s)' BY DEF Requests
<1>3. QueueOrder(s)' BY DEF QueueOrder
<1>4. ReplayPrefix(s)' /\ LiveSuffix(s)' BY DEF ReplayPrefix, LiveSuffix
<1>5. QED BY <1>1, <1>2, <1>3, <1>4 DEF Stream

\* The session ends: no client is on it any more.
LEMMA EndSessionKept ==
    ASSUME IInv, TypeOK', NEW s \in Sessions, EndSession(s) PROVE Kept'
<1>1. Evolves BY Quiet DEF IInv, EndSession
<1>2. /\ TypeOK /\ Bounds /\ \A t \in Sessions : Stream(t)
      /\ \A c \in Members : Client(c)
  BY DEF IInv
<1>3. ASSUME NEW t \in Sessions, t # s
      PROVE  /\ st'[t] = st[t] /\ owner'[t] = owner[t] /\ req'[t] = req[t]
             /\ latest'[t] = latest[t] /\ rpos'[t] = rpos[t] /\ queue'[t] = queue[t]
             /\ acks'[t] = acks[t] /\ (t \in ovf' <=> t \in ovf)
             /\ (t \in wPend' <=> t \in wPend) /\ wPos' = wPos
  BY <1>2, <1>3 DEF TypeOK, EndSession
<1>4. ASSUME NEW c \in Members PROVE Client(c)'
  <2>1. /\ cursor' = cursor /\ durable' \in {durable, cursor} /\ prog' = prog /\ saved' = saved
        /\ last' = last /\ hand' = hand /\ cur' = cur /\ owner' = owner /\ cur[c] # s
    BY DEF EndSession
  <2>2. cur'[c] # NoSession => owner'[cur'[c]] = c /\ st'[cur'[c]] # "free"
    BY <1>2, <1>3, <2>1 DEF Client, TypeOK
  <2>3. Clear(c, durable'[c]) BY <1>2, <2>1 DEF Client
  <2>4. QED BY <1>1, <1>2, <2>1, <2>2, <2>3, FrameClient DEF Client
<1>5. \A e \in Log : Passed(e)' => Passed(e) BY DEF EndSession, Passed
<1>6. ASSUME NEW t \in Sessions, t # s PROVE Stream(t)'
  BY <1>1, <1>2, <1>3, <1>5, <1>6, FrameStream
<1>7. Stream(s)'
  BY <1>2, FreeStream DEF EndSession, TypeOK
<1>8. QED BY <1>4, <1>6, <1>7 DEF Kept

\* The crash keeps what was flushed; the boot finds every session gone.
LEMMA CrashKept ==
    ASSUME IInv, TypeOK', IndexerCrash PROVE Kept'
<1>1. Evolves BY Quiet DEF IInv, IndexerCrash
<1>2. ASSUME NEW c \in Members PROVE Client(c)'
  <2>1. Client(c) /\ Clear(c, NoPos) BY ClearNoPos DEF IInv
  <2>2. /\ cursor' = durable /\ durable' = durable /\ prog' = prog /\ saved' = saved
        /\ last'[c] = NoPos /\ hand'[c] \in {hand[c], NoPos} /\ cur'[c] = NoSession
    BY DEF IndexerCrash, Dropped
  <2>3. QED BY <1>1, <2>1, <2>2, FrameClient DEF IInv, Client
<1>3. ASSUME NEW s \in Sessions PROVE Stream(s)'
  BY FreeStream DEF IndexerCrash
<1>4. QED BY <1>2, <1>3 DEF Kept

LEMMA BootKept ==
    ASSUME IInv, TypeOK', Boot PROVE Kept'
<1>1. Evolves BY Quiet DEF IInv, Boot
<1>2. \A m \in Members : Client(m)'
  BY <1>1, SameClients DEF IInv, Boot, Client
<1>3. ASSUME NEW s \in Sessions PROVE Stream(s)'
  <2>1. st[s] = "free" BY DEF IInv, Bounds, Boot
  <2>2. queue[s] = <<>> /\ acks[s] = <<>> /\ s \notin wPend BY <2>1 DEF IInv, Stream, Stage
  <2>3. QED BY <2>1, <2>2, FreeStream DEF Boot
<1>4. QED BY <1>2, <1>3 DEF Kept

\* The client takes the channel's first item: a log owed can only be that item,
\* and handling it settles it.
LEMMA HandleKept ==
    ASSUME IInv, TypeOK', NEW m \in Members, Handle(m) PROVE Kept'
<1>1. /\ TypeOK /\ Bounds /\ \A t \in Sessions : Stream(t)
      /\ \A c \in Members : Client(c)
  BY DEF IInv
<1>2. PICK s \in Sessions : s = cur[m] BY <1>1 DEF Handle, TypeOK
<1>3. owner[s] = m BY <1>1, <1>2 DEF Handle, Client
<1>4. PICK p : p = Head(queue[s]) OBVIOUS
<1>5. /\ queue[s] # <<>> /\ queue' = [queue EXCEPT ![s] = Tail(@)]
      /\ hand' = [hand EXCEPT ![m] = p]
      /\ handled' = IF IsCheckpoint(p) \/ Leq(p, last[m]) THEN handled
                    ELSE [handled EXCEPT ![m] = @ \cup {p}]
      /\ UNCHANGED <<chainVars, storeVars, watchVars, st, owner, req, latest,
                     rpos, ovf, acks, cur, last, prog, saved, floor, missed>>
  BY <1>2, <1>4 DEF Handle
<1>6. /\ queue[s] \in Seq(Position) /\ queue'[s] = Tail(queue[s]) /\ hand'[m] = p
      /\ last[m] \in Position
  BY <1>1, <1>5 DEF TypeOK
<1>7. p = queue[s][1] /\ p \in Position /\ Len(queue[s]) \in Nat /\ 1 \in 1 .. Len(queue[s])
  BY <1>4, <1>5, <1>6, TailParts
<1>8. Evolves /\ \A c \in Members : U(c)' \subseteq U(c)
  <2>1. ASSUME NEW c \in Members PROVE handled[c] \subseteq handled'[c]
    BY <1>1, <1>5 DEF TypeOK
  <2>2. \A c \in Members : Leq(floor[c], floor'[c]) /\ missed[c] \subseteq missed'[c]
    BY <1>5 DEF Leq
  <2>3. QED BY <1>1, <1>5, <2>1, <2>2, Settles
<1>9. ASSUME NEW e \in U(m)', Leq(e, p) PROVE FALSE
  <2>1. e \in U(m) /\ e \in Log BY <1>1, <1>8, <1>9, Owed
  <2>2. e = p
    <3>1. Waiting(s, 1, e) BY <1>1, <1>3, <1>7, <1>9, <2>1 DEF Stream, QueueOrder
    <3>2. QED BY <1>7, <3>1 DEF Waiting
  <2>3. ~IsCheckpoint(p) BY <1>1, <2>1, <2>2, EndOfBlock DEF TypeOK
  <2>4. ~Leq(p, last[m]) BY <1>1, <2>1, <2>2 DEF Client, Clear
  <2>5. e \in handled'[m] BY <1>1, <1>5, <2>2, <2>3, <2>4 DEF TypeOK
  <2>6. QED BY <1>9, <2>5 DEF U, Settled
<1>10. p[1] <= head BY <1>1, <1>7 DEF Stream, QueueOrder
<1>11. ASSUME NEW c \in Members PROVE Client(c)'
  <2>1. Client(c) BY <1>1
  <2>2. cur'[c] # NoSession => owner'[cur'[c]] = c /\ st'[cur'[c]] # "free"
    BY <1>5, <2>1 DEF Client
  <2>3. CASE c # m
    <3>1. hand'[c] = hand[c] BY <1>1, <1>5, <2>3 DEF TypeOK
    <3>2. QED BY <1>1, <1>5, <1>8, <2>1, <2>2, <3>1, FrameClient DEF Client
  <2>4. CASE c = m
    <3>1. Clear(m, hand[m])' BY <1>5, <1>6, <1>9, <1>10 DEF Clear
    <3>2. /\ cursor[m] \in Position /\ durable[m] \in Position
          /\ prog[m] \in Position /\ saved[m] \in Position
      BY <1>1 DEF TypeOK
    <3>3. Clear(m, cursor[m])' BY <1>1, <1>5, <1>8, <3>2, FrameClear DEF Client, Clear
    <3>4. Clear(m, durable[m])' BY <1>1, <1>5, <1>8, <3>2, FrameClear DEF Client, Clear
    <3>5. Clear(m, prog[m])' BY <1>1, <1>5, <1>8, <3>2, FrameClear DEF Client, Clear
    <3>6. Clear(m, saved[m])' BY <1>1, <1>5, <1>8, <3>2, FrameClear DEF Client, Clear
    <3>7. Clear(m, last[m])' BY <1>1, <1>5, <1>6, <1>8, FrameClear DEF Client, Clear
    <3>8. QED BY <2>2, <2>4, <3>1, <3>3, <3>4, <3>5, <3>6, <3>7 DEF Client
  <2>5. QED BY <2>3, <2>4
<1>12. \A e \in Log : Passed(e)' => Passed(e) BY <1>5 DEF Passed
<1>13. ASSUME NEW t \in Sessions, t # s PROVE Stream(t)'
  <2>1. queue'[t] = queue[t] BY <1>1, <1>5, <1>13 DEF TypeOK
  <2>2. QED BY <1>1, <1>5, <1>8, <1>12, <2>1, FrameStream
<1>14. ASSUME NEW k \in 1 .. Len(queue[s]), NEW e \in U(m)', Waiting(s, k, e)
       PROVE  \E j \in 1 .. k - 1 : queue'[s][j] = e
  <2>1. PICK i \in 1 .. k : queue[s][i] = e BY <1>14 DEF Waiting
  <2>2. e # p BY <1>7, <1>9, <1>14 DEF Leq
  <2>3. i # 1 BY <1>7, <2>1, <2>2
  <2>4. i - 1 \in 1 .. Len(queue'[s]) /\ i - 1 \in 1 .. k - 1
    BY <1>5, <1>6, <1>7, <2>1, <2>3, TailParts
  <2>5. queue'[s][i - 1] = queue[s][(i - 1) + 1] BY <1>5, <1>6, <2>4, TailParts
  <2>6. QED BY <2>1, <2>4, <2>5
<1>15. ASSUME NEW e \in U(m)', InQueue(s, e) PROVE InQueue(s, e)'
  <2>1. Len(queue'[s]) = Len(queue[s]) - 1 BY <1>5, <1>6, TailParts
  <2>2. Len(queue[s]) \in 1 .. Len(queue[s]) BY <1>7
  <2>3. \E j \in 1 .. Len(queue[s]) - 1 : queue'[s][j] = e
    BY <1>14, <1>15, <2>2 DEF InQueue
  <2>4. QED BY <2>1, <2>3 DEF InQueue, Waiting
<1>16. Stream(s)'
  <2>1. /\ owner'[s] = m /\ latest' = latest /\ acks' = acks /\ wPend' = wPend /\ rpos' = rpos
        /\ wPos' = wPos /\ head' = head /\ ovf' = ovf /\ st' = st /\ req' = req
        /\ owner'[s] = owner[s]
    BY <1>3, <1>5
  <2>2. Stage(s)'
    <3>1. Stage(s) /\ st[s] \notin {"free", "read", "resolved"}
      BY <1>1, <1>5 DEF Stream, Stage
    <3>2. QED BY <2>1, <3>1 DEF Stage
  <2>3. Requests(s)' BY <1>1, <1>8, <2>1, FrameRequests DEF Stream, Requests
  <2>4. QueueOrder(s)'
    <3>1. ASSUME NEW k \in 1 .. Len(queue'[s])
          PROVE  /\ queue'[s][k][1] <= head'
                 /\ \A e \in U(m)' : Leq(e, queue'[s][k]) => \E j \in 1 .. k : queue'[s][j] = e
      <4>1. k + 1 \in 1 .. Len(queue[s]) /\ queue'[s][k] = queue[s][k + 1]
        BY <1>5, <1>6, <3>1, TailParts
      <4>2. /\ queue[s][k + 1][1] <= head
            /\ \A e \in U(m) : Leq(e, queue[s][k + 1]) => Waiting(s, k + 1, e)
        BY <1>1, <1>3, <4>1 DEF Stream, QueueOrder
      <4>3. ASSUME NEW e \in U(m)', Leq(e, queue'[s][k]) PROVE \E j \in 1 .. k : queue'[s][j] = e
        <5>1. Waiting(s, k + 1, e) BY <1>8, <4>1, <4>2, <4>3
        <5>2. \E j \in 1 .. (k + 1) - 1 : queue'[s][j] = e BY <1>14, <4>1, <4>3, <5>1
        <5>3. (k + 1) - 1 = k BY <1>6, <3>1
        <5>4. QED BY <5>2, <5>3
      <4>4. QED BY <2>1, <4>1, <4>2, <4>3
    <3>2. QED BY <2>1, <3>1 DEF QueueOrder, Waiting
  <2>5. ReplayPrefix(s)'
    <3>1. ASSUME st[s] \in {"resolved", "replay"}
          PROVE  rpos[s][1] <= head /\ \A e \in U(m)' : Leq(e, rpos[s]) => InQueue(s, e)'
      BY <1>1, <1>3, <1>8, <1>15, <3>1 DEF Stream, ReplayPrefix
    <3>2. ASSUME st[s] = "live" /\ s \notin ovf
          PROVE  \A e \in U(m)' : e[1] <= latest[s] => InQueue(s, e)'
      BY <1>1, <1>3, <1>8, <1>15, <3>2 DEF Stream, ReplayPrefix
    <3>3. QED BY <2>1, <3>1, <3>2 DEF ReplayPrefix
  <2>6. LiveSuffix(s)'
    <3>1. ASSUME st[s] \in {"read", "resolved", "replay", "live"}, s \notin ovf,
                 NEW e \in U(m)', Passed(e)', latest[s] < e[1]
          PROVE  InQueue(s, e)' \/ (s \in wPend /\ e = wPos)
      <4>1. e \in U(m) /\ e \in Log BY <1>1, <1>8, <3>1, Owed
      <4>2. Passed(e) BY <1>12, <3>1, <4>1
      <4>3. InQueue(s, e) \/ (s \in wPend /\ e = wPos)
        BY <1>1, <1>3, <3>1, <4>1, <4>2 DEF Stream, LiveSuffix
      <4>4. QED BY <1>15, <3>1, <4>3
    <3>2. QED BY <2>1, <3>1 DEF LiveSuffix
  <2>7. QED BY <2>2, <2>3, <2>4, <2>5, <2>6 DEF Stream
<1>17. QED BY <1>11, <1>13, <1>16 DEF Kept

\* The client Acks what it handled.
LEMMA AckKept ==
    ASSUME IInv, TypeOK', NEW m \in Members, Ack(m) PROVE Kept'
<1>1. Evolves /\ \A c \in Members : U(c)' \subseteq U(c) BY Quiet DEF IInv, Ack
<1>2. /\ TypeOK /\ Bounds /\ \A t \in Sessions : Stream(t)
      /\ \A c \in Members : Client(c)
  BY DEF IInv
<1>3. PICK s \in Sessions : s = cur[m] BY <1>2 DEF Ack, TypeOK
<1>4. owner[s] = m /\ st[s] # "free" BY <1>2, <1>3 DEF Ack, Client
<1>5. /\ acks' = [acks EXCEPT ![s] = Append(@, hand[m])]
      /\ last' = [last EXCEPT ![m] = MaxPos(@, hand[m])]
      /\ UNCHANGED <<chainVars, storeVars, watchVars, st, owner, req, latest,
                     rpos, queue, ovf, cur, hand, prog, saved, handled, floor, missed>>
  BY <1>3 DEF Ack
<1>6. /\ acks[s] \in Seq(Position) /\ hand[m] \in Position /\ last[m] \in Position
      /\ acks'[s] = Append(acks[s], hand[m])
      /\ last'[m] = MaxPos(last[m], hand[m])
  BY <1>2, <1>5 DEF TypeOK
<1>7. last'[m] \in {last[m], hand[m]} BY <1>6, PosOrder
<1>8. Clear(m, hand[m]) BY <1>2 DEF Client
<1>9. ASSUME NEW c \in Members PROVE Client(c)'
  <2>1. Client(c) /\ Clear(c, NoPos) BY <1>2, ClearNoPos
  <2>2. CASE c # m
    <3>1. last'[c] = last[c] BY <1>2, <1>5, <2>2 DEF TypeOK
    <3>2. QED BY <1>1, <1>2, <1>5, <2>1, <3>1, FrameClient DEF Client
  <2>3. CASE c = m
    <3>1. Clear(m, last'[m]) BY <1>7, <1>8, <2>1, <2>3 DEF Client
    <3>2. QED BY <1>1, <1>2, <1>5, <2>1, <2>3, <3>1, FrameClient DEF Client
  <2>4. QED BY <2>2, <2>3
<1>10. \A e \in Log : Passed(e)' => Passed(e) BY <1>5 DEF Passed
<1>11. ASSUME NEW t \in Sessions, t # s PROVE Stream(t)'
  <2>1. acks'[t] = acks[t] BY <1>2, <1>5, <1>11 DEF TypeOK
  <2>2. QED BY <1>1, <1>2, <1>5, <1>10, <2>1, FrameStream
<1>12. Stream(s)'
  <2>1. /\ owner' = owner /\ queue' = queue /\ latest' = latest /\ rpos' = rpos
        /\ st' = st /\ req' = req /\ ovf' = ovf
        /\ wPend' = wPend /\ wPos' = wPos /\ head' = head
    BY <1>5
  <2>2. Stage(s)' BY <1>2, <1>4, <2>1 DEF Stream, Stage
  <2>3. Requests(s)'
    <3>1. ASSUME NEW k \in 1 .. Len(acks'[s]) PROVE Clear(owner[s], acks'[s][k])
      <4>1. CASE k \in 1 .. Len(acks[s])
        <5>1. acks'[s][k] = acks[s][k] BY <1>6, <4>1
        <5>2. QED BY <1>2, <4>1, <5>1 DEF Stream, Requests
      <4>2. CASE k \notin 1 .. Len(acks[s])
        <5>1. acks'[s][k] = hand[m] BY <1>6, <3>1, <4>2
        <5>2. QED BY <1>4, <1>8, <5>1
      <4>3. QED BY <4>1, <4>2
    <3>2. QED BY <1>1, <1>2, <2>1, <3>1, FrameRequests DEF Stream
  <2>4. QueueOrder(s)' BY <1>1, <1>2, <2>1, FrameQueue DEF Stream
  <2>5. ReplayPrefix(s)' BY <1>1, <1>2, <2>1, FrameReplay DEF Stream
  <2>6. LiveSuffix(s)' BY <1>1, <1>2, <1>10, <2>1, FrameLive DEF Stream
  <2>7. QED BY <2>2, <2>3, <2>4, <2>5, <2>6 DEF Stream
<1>13. QED BY <1>9, <1>11, <1>12 DEF Kept

\* The client moves its own cursor to what it Ack'd, and then persists it.
LEMMA ProgressKept ==
    ASSUME IInv, TypeOK', NEW m \in Members, Progress(m) \/ Persist(m) PROVE Kept'
<1>1. Evolves BY Quiet DEF IInv, Progress, Persist
<1>2. ASSUME NEW c \in Members PROVE Client(c)'
  <2>1. TypeOK /\ Client(c) /\ Clear(c, NoPos) BY ClearNoPos DEF IInv
  <2>2. /\ prog'[c] \in {prog[c], hand[c]} /\ saved'[c] \in {saved[c], prog[c]}
        /\ hand'[c] \in {hand[c], NoPos}
    <3>1. prog[c] \in Position /\ hand[c] \in Position BY <2>1 DEF TypeOK
    <3>2. CASE Progress(m)
      <4>1. prog'[c] \in {prog[c], MaxPos(prog[c], hand[c])}
        BY <2>1, <3>2 DEF Progress, TypeOK
      <4>2. prog'[c] \in {prog[c], hand[c]} BY <3>1, <4>1, PosOrder
      <4>3. saved' = saved /\ hand'[c] \in {hand[c], NoPos}
        BY <2>1, <3>2 DEF Progress, TypeOK
      <4>4. QED BY <4>2, <4>3
    <3>3. CASE Persist(m) BY <2>1, <3>3 DEF Persist, TypeOK
    <3>4. QED BY <3>2, <3>3
  <2>3. /\ cursor' = cursor /\ durable' = durable /\ last' = last /\ cur' = cur
        /\ owner' = owner /\ st' = st
    BY DEF Progress, Persist
  <2>4. QED BY <1>1, <2>1, <2>2, <2>3, FrameClient DEF Client
<1>3. \A s \in Sessions : Stream(s)'
  BY <1>1, SameStreams DEF IInv, Progress, Persist
<1>4. QED BY <1>2, <1>3 DEF Kept

-----------------------------------------------------------------------------
(* The invariant holds, and the delivery guarantees follow.                 *)

LEMMA InitIInv == Init => IInv
<1> SUFFICES ASSUME Init PROVE IInv OBVIOUS
<1>2. TypeOK BY InitTypes
<1>3. Bounds BY DeliveryAssumption DEF Init, Bounds
<1>4. ASSUME NEW m \in Members PROVE Client(m)
  <2>1. Clear(m, NoPos) BY <1>2, ClearNoPos
  <2>2. QED BY <2>1 DEF Init, Client
<1>5. ASSUME NEW s \in Sessions PROVE Stream(s)
  BY DEF Init, Stream, Stage, Requests, QueueOrder, ReplayPrefix, LiveSuffix
<1>6. QED BY <1>2, <1>3, <1>4, <1>5 DEF IInv

LEMMA NextIInv ==
    ASSUME IInv, [Next]_vars PROVE IInv'
<1>1. TypeOK' BY NextTypes DEF IInv
<1>2. Bounds' BY <1>1, BoundsStep DEF IInv
<1>3. Kept'
  <2>1. CASE Mine BY <1>1, <2>1, MineKept
  <2>2. CASE WatchTick \/ Publish \/ PageDone \/ PollFails BY <1>1, <2>2, TickKept
  <2>3. CASE DispatchItem BY <1>1, <2>3, DispatchKept
  <2>4. CASE Flush BY <1>1, <2>4, FlushKept
  <2>5. CASE Boot BY <1>1, <2>5, BootKept
  <2>6. CASE IndexerCrash BY <1>1, <2>6, CrashKept
  <2>7. ASSUME NEW s \in Sessions, Register(s) \/ Reap(s) \/ ReplayFails(s) PROVE Kept'
    BY <1>1, <2>7, StageKept
  <2>8. ASSUME NEW s \in Sessions, SendLive(s) PROVE Kept' BY <1>1, <2>8, SendLiveKept
  <2>9. ASSUME NEW s \in Sessions, Resolve(s) PROVE Kept' BY <1>1, <2>9, ResolveKept
  <2>10. ASSUME NEW s \in Sessions, ReplaySend(s) PROVE Kept' BY <1>1, <2>10, ReplaySendKept
  <2>11. ASSUME NEW s \in Sessions, ServerAck(s) PROVE Kept' BY <1>1, <2>11, ServerAckKept
  <2>12. ASSUME NEW s \in Sessions, EndSession(s) PROVE Kept' BY <1>1, <2>12, EndSessionKept
  <2>13. ASSUME NEW m \in Members, NEW s \in Sessions, Subscribe(m, s) PROVE Kept'
    BY <1>1, <2>13, SubscribeKept
  <2>14. ASSUME NEW m \in Members, Handle(m) PROVE Kept' BY <1>1, <2>14, HandleKept
  <2>15. ASSUME NEW m \in Members, Ack(m) PROVE Kept' BY <1>1, <2>15, AckKept
  <2>16. ASSUME NEW m \in Members, Disconnect(m) \/ SidecarRestart(m) \/ SeeOverflow(m)
         PROVE  Kept'
    BY <1>1, <2>16, LeaveKept
  <2>19. ASSUME NEW m \in Members, Progress(m) \/ Persist(m) PROVE Kept'
    BY <1>1, <2>19, ProgressKept
  <2>17. CASE UNCHANGED vars
    <3>1. Evolves BY <1>1, <2>17, Quiet DEF IInv, vars
    <3>2. \A m \in Members : Client(m)'
      BY <1>1, <2>17, <3>1, SameClients DEF IInv, vars, Client
    <3>3. \A s \in Sessions : Stream(s)'
      BY <1>1, <2>17, <3>1, SameStreams DEF IInv, vars
    <3>4. QED BY <3>2, <3>3 DEF Kept
  <2>18. QED
    BY <2>1, <2>2, <2>3, <2>4, <2>5, <2>6, <2>7, <2>8, <2>9, <2>10, <2>11, <2>12,
       <2>13, <2>14, <2>15, <2>16, <2>17, <2>19
    DEF Next, WatcherStep, Fault, ServerStep, ClientStep, Quiescent
<1>4. QED BY <1>1, <1>2, <1>3 DEF IInv, Kept

LEMMA ClearCovers ==
    ASSUME NEW m \in Members, NEW p, Clear(m, p) PROVE Covered(m, p)
BY DEF Clear, Covered, U

\* No cursor the Indexer keeps, in memory or on disk, passes a log its member
\* has not settled, for any number of members, sessions, blocks and faults.
THEOREM CursorSafety == Spec => []CursorPassesOnlyHandled
<1>1. IInv => CursorPassesOnlyHandled
  BY ClearCovers DEF IInv, Client, CursorPassesOnlyHandled
<1>2. IInv /\ [Next]_vars => IInv' BY NextIInv
<1>3. QED BY InitIInv, <1>1, <1>2, PTL DEF Spec

\* The same of the sidecar's cursor and of its persisted checkpoint.
THEOREM ClientCursorSafety == Spec => []ClientCursorPassesOnlyHandled
<1>1. IInv => ClientCursorPassesOnlyHandled
  BY ClearCovers DEF IInv, Client, ClientCursorPassesOnlyHandled
<1>2. IInv /\ [Next]_vars => IInv' BY NextIInv
<1>3. QED BY InitIInv, <1>1, <1>2, PTL DEF Spec

\* Only Handle completes a dispatch, of the item it takes.
LEMMA HandledByHandle ==
    ASSUME TypeOK, [Next]_vars, NEW m \in Members, NEW e \in handled'[m] \ handled[m]
    PROVE  relevant' = relevant /\ hand'[m] = e
<1>1. ASSUME NEW c \in Members, Handle(c) PROVE relevant' = relevant /\ hand'[m] = e
  <2>1. PICK p : p = Head(queue[cur[c]]) OBVIOUS
  <2>2. handled' = handled \/ handled' = [handled EXCEPT ![c] = @ \cup {p}]
    BY <1>1, <2>1 DEF Handle
  <2>3. c = m /\ e = p
    <3>1. handled \in [Members -> SUBSET Position] BY DEF TypeOK
    <3>2. QED BY <2>2, <3>1
  <2>4. hand'[m] = p BY <1>1, <2>1, <2>3 DEF Handle, TypeOK
  <2>5. QED BY <1>1, <2>3, <2>4 DEF Handle
<1>2. ASSUME handled' = handled PROVE FALSE BY <1>2
<1>3. CASE Mine \/ WatcherStep \/ Flush \/ Boot \/ PollFails \/ IndexerCrash
  BY <1>2, <1>3 DEF Mine, WatcherStep, WatchTick, Publish, DispatchItem, PageDone,
                    Flush, Boot, PollFails, IndexerCrash
<1>4. ASSUME NEW s \in Sessions, ServerStep(s) \/ ReplayFails(s) PROVE FALSE
  BY <1>2, <1>4 DEF ServerStep, SendLive, Resolve, Register, ReplaySend, ServerAck,
                    EndSession, Reap, ReplayFails
<1>5. ASSUME NEW c \in Members, NEW s \in Sessions, Subscribe(c, s) PROVE FALSE
  BY <1>2, <1>5 DEF Subscribe
<1>6. ASSUME NEW c \in Members,
             \/ Ack(c) \/ Progress(c) \/ Persist(c) \/ SeeOverflow(c)
             \/ Disconnect(c) \/ SidecarRestart(c)
      PROVE  FALSE
  BY <1>2, <1>6 DEF Ack, Progress, Persist, SeeOverflow, Disconnect, SidecarRestart
<1>7. CASE UNCHANGED vars BY <1>2, <1>7 DEF vars
<1>8. QED BY <1>1, <1>3, <1>4, <1>5, <1>6, <1>7 DEF Next, Fault, ClientStep, Quiescent

\* A sidecar handles a log only once every earlier log relevant to it is settled.
THEOREM ChainOrder == Spec => HandledInChainOrder
<1> DEFINE Ordered == \A m \in Members : \A e \in handled'[m] \ handled[m] :
                        \A d \in relevant[m] : Lt(d, e) => Settled(m, d)'
<1>1. IInv /\ [Next]_vars => IInv' BY NextIInv
<1>2. IInv /\ [Next]_vars => Ordered
  <2>1. SUFFICES ASSUME IInv, [Next]_vars, NEW m \in Members, NEW e \in handled'[m] \ handled[m],
                        NEW d \in relevant[m], Lt(d, e), ~Settled(m, d)'
                 PROVE  FALSE
    OBVIOUS
  <2>2. relevant' = relevant /\ hand'[m] = e BY <2>1, HandledByHandle DEF IInv
  <2>3. d \in U(m)' BY <2>1, <2>2 DEF U
  <2>4. Clear(m, hand[m])' BY <1>1, <2>1 DEF IInv, Client
  <2>5. ~Leq(d, e) BY <2>2, <2>3, <2>4 DEF Clear
  <2>6. QED BY <2>1, <2>5 DEF Leq
<1>3. IInv /\ [Next]_vars => [Ordered]_vars BY <1>2
<1>4. QED BY InitIInv, <1>1, <1>3, PTL DEF Spec, HandledInChainOrder

-----------------------------------------------------------------------------
(* The flushed cursor trails the one in memory, and neither is rewound.      *)

StoreOrder == \A m \in Members : Leq(durable[m], cursor[m])

LEMMA StoreStep ==
    ASSUME TypeOK, TypeOK', StoreOrder, [Next]_vars
    PROVE  StoreOrder' /\ \A m \in Members : Leq(durable[m], durable'[m])
<1>0. \A p : Leq(p, p) BY DEF Leq
<1>a. cursor \in [Members -> Position] /\ durable \in [Members -> Position]
      /\ cursor' \in [Members -> Position]
  BY DEF TypeOK
\* A step of the store: memory moves up, the flush copies memory or does nothing.
<1>b. ASSUME \A m \in Members : Leq(cursor[m], cursor'[m]),
             durable' = durable \/ durable' = cursor'
      PROVE  StoreOrder' /\ \A m \in Members : Leq(durable[m], durable'[m])
  <2>1. ASSUME NEW m \in Members PROVE Leq(durable[m], cursor'[m])
    <3>1. Leq(durable[m], cursor[m]) /\ Leq(cursor[m], cursor'[m]) BY <1>b DEF StoreOrder
    <3>2. QED BY <1>a, <3>1, PosTrans
  <2>2. QED BY <1>0, <1>b, <2>1 DEF StoreOrder
<1>1. CASE UNCHANGED storeVars
  BY <1>0, <1>1 DEF StoreOrder
<1>2. CASE Flush
  BY <1>0, <1>2, <1>b DEF Flush
<1>3. CASE IndexerCrash
  BY <1>0, <1>3 DEF IndexerCrash, StoreOrder
<1>4. ASSUME NEW s \in Sessions, EndSession(s)
      PROVE  StoreOrder' /\ \A m \in Members : Leq(durable[m], durable'[m])
  BY <1>0, <1>4, <1>b DEF EndSession
<1>5. ASSUME NEW s \in Sessions, ServerAck(s)
      PROVE  StoreOrder' /\ \A m \in Members : Leq(durable[m], durable'[m])
  <2>1. acks[s] \in Seq(Position) /\ acks[s] # <<>> BY <1>5 DEF ServerAck, TypeOK
  <2>2. PICK p \in Position : p = Head(acks[s]) BY <2>1, TailParts
  <2>3. /\ cursor' = [cursor EXCEPT ![owner[s]] = MaxPos(@, p)]
        /\ durable' = durable \/ durable' = cursor'
    BY <1>5, <2>2 DEF ServerAck
  <2>4. ASSUME NEW m \in Members PROVE Leq(cursor[m], cursor'[m])
    <3>1. cursor'[m] = cursor[m] \/ cursor'[m] = MaxPos(cursor[m], p) BY <1>a, <2>3
    <3>2. QED BY <1>0, <1>a, <2>2, <3>1, PosOrder
  <2>5. QED BY <1>b, <2>3, <2>4
<1>6. ASSUME NEW s \in Sessions, Resolve(s)
      PROVE  StoreOrder' /\ \A m \in Members : Leq(durable[m], durable'[m])
  <2>1. CASE UNCHANGED storeVars BY <1>1, <2>1
  <2>2. CASE ~UNCHANGED storeVars
    <3>1. PICK c, b : /\ cursor[c] = NoPos /\ cursor' = [cursor EXCEPT ![c] = b]
                      /\ durable' = cursor'
      BY <1>6, <2>2 DEF Resolve, InitializeAtHead
    <3>2. ASSUME NEW m \in Members PROVE Leq(cursor[m], cursor'[m])
      <4>1. CASE m # c BY <1>0, <1>a, <3>1, <4>1
      <4>2. CASE m = c
        <5>1. cursor[m] = NoPos /\ cursor'[m] \in Position BY <1>a, <3>1, <4>2
        <5>2. Leq(NoPos, cursor'[m]) BY <5>1, PosParts, PosEqual, NoPosType DEF Leq, Lt, NoPos
        <5>3. QED BY <5>1, <5>2
      <4>3. QED BY <4>1, <4>2
    <3>3. QED BY <1>b, <3>1, <3>2
  <2>3. QED BY <2>1, <2>2
<1>7. CASE Mine \/ WatcherStep \/ Boot \/ PollFails
  BY <1>1, <1>7 DEF Mine, WatcherStep, WatchTick, Publish, DispatchItem, PageDone, Boot, PollFails
<1>8. ASSUME NEW s \in Sessions, SendLive(s) \/ Register(s) \/ ReplaySend(s) \/ Reap(s) \/ ReplayFails(s)
      PROVE  StoreOrder' /\ \A m \in Members : Leq(durable[m], durable'[m])
  BY <1>1, <1>8 DEF SendLive, Register, ReplaySend, Reap, ReplayFails
<1>9. ASSUME NEW c \in Members, ClientStep(c) \/ Disconnect(c) \/ SidecarRestart(c)
      PROVE  StoreOrder' /\ \A m \in Members : Leq(durable[m], durable'[m])
  BY <1>1, <1>9 DEF ClientStep, Subscribe, Handle, Ack, Progress, Persist,
     SeeOverflow, Disconnect, SidecarRestart
<1>10. CASE UNCHANGED vars BY <1>1, <1>10 DEF vars
<1>11. QED
  BY <1>2, <1>3, <1>4, <1>5, <1>6, <1>7, <1>8, <1>9, <1>10
  DEF Next, Fault, ServerStep, Quiescent

\* A late Ack, an overlapping session or a crash never rewinds a flushed cursor.
THEOREM DurableMonotone == Spec => DurableCursorMonotone
<1> DEFINE Up == \A m \in Members : Leq(durable[m], durable'[m])
<1>1. Init => StoreOrder BY DEF Init, StoreOrder, Leq
<1>2. TypeOK /\ [Next]_vars => TypeOK' BY NextTypes
<1>3. TypeOK /\ TypeOK' /\ StoreOrder /\ [Next]_vars => StoreOrder' /\ [Up]_vars
  BY StoreStep
<1>4. QED BY InitTypes, <1>1, <1>2, <1>3, PTL DEF Spec, DurableCursorMonotone
=============================================================================
