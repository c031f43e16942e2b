---------------------- MODULE HindsightRecoveryProofs -----------------------
(***************************************************************************)
(* For any batch, cap and number of faults: however guard, watchdog,       *)
(* worker and interrupted operator commands interleave, Hindsight retains  *)
(* a document at most once, and a stage that was announced as settled      *)
(* stays as announced.                                                     *)
(***************************************************************************)
EXTENDS HindsightRecovery, FiniteSetTheorems, TLAPS

(* Where a document stands in the outbox, in Hindsight and in its history: *)
(* a row is free to be claimed only while Hindsight does not hold it.      *)
Traced(d) ==
    /\ outbox[d] \in {"queued", "submitting"} =>
          remote[d] \in {"none", "failed"} /\ retained[d] = 0
    /\ outbox[d] = "submitted" =>
          \/ remote[d] \in {"pending", "failed"} /\ retained[d] = 0
          \/ remote[d] = "completed" /\ retained[d] = 1
    /\ outbox[d] = "succeeded" => remote[d] = "completed" /\ retained[d] = 1
    /\ outbox[d] = "failed" => remote[d] = "failed" /\ retained[d] = 0

Tables ==
    /\ outbox \in [Docs -> {"queued", "submitting", "submitted", "succeeded", "failed"}]
    /\ remote \in [Docs -> {"none", "pending", "completed", "failed"}]
    /\ retained \in [Docs -> Nat]

Trace == Tables /\ \A d \in Docs : Traced(d)

(* What a step does to the outbox and to Hindsight.                        *)
AgentStep ==
    \/ UNCHANGED <<outbox, remote, retained>>
    \/ \E d \in Docs : \/ Claim(d) \/ Submit(d) \/ OperationEnds(d)
    \/ outbox' = Refreshed(outbox) /\ UNCHANGED <<remote, retained>>
    \/ /\ \E d \in In({"failed"}) : outbox' = [outbox EXCEPT ![d] = "queued"]
       /\ UNCHANGED <<remote, retained>>

LEMMA StepIsAgentStep ==
    ASSUME [Next]_vars
    PROVE  AgentStep
<1> USE DEF AgentStep, agent
<1>1. CASE Guard
  BY <1>1 DEF Guard, GuardLoad, GuardSnap, GuardCapOpen, GuardCapSave, GuardAudit,
     GuardBeat, GuardFailed, GuardRestarts, SettleProve, SettleRefresh,
     SettleSave, SettleAudit
<1>2. CASE Command
  BY <1>2 DEF Command, ReleaseCheck, ReleaseClose, ReleaseSave, ReleaseWait,
     ResumeLocked, HeldLocked, RecoverLocked, RecoverRetry, SaveReady,
     CmdSettleRefresh, CmdSettleSave, CmdSettleAudit, PhaseSave
<1>3. CASE \/ Drift \/ GuardDies \/ HeartbeatAges \/ Watchdog \/ WatchdogDies
           \/ ReleaseStart \/ ResumeProve \/ RecoverProve \/ CmdInterrupted
           \/ SettleLockTaken \/ CmdSettleProve \/ PhaseLoad \/ OperatorOpens
           \/ Reconfigure \/ \E d \in Docs : HeldProve(d)
  BY <1>3 DEF Drift, GuardDies, HeartbeatAges, Watchdog, WatchdogStarts,
     WatchdogTick, WatchdogDies, ReleaseStart, ResumeProve, RecoverProve,
     CmdInterrupted, SettleLockTaken, CmdSettleProve, PhaseLoad, OperatorOpens,
     Reconfigure, HeldProve
<1>4. CASE WorkerRefresh \/ \E d \in Docs : Claim(d) \/ Submit(d) \/ OperationEnds(d)
  BY <1>4 DEF WorkerRefresh
<1>5. CASE UNCHANGED vars
  BY <1>5 DEF vars
<1> QED
  BY <1>1, <1>2, <1>3, <1>4, <1>5 DEF Next

LEMMA TraceStep ==
    ASSUME Trace, AgentStep
    PROVE  Trace'
<1> USE DEF Trace, Tables
<1>1. CASE UNCHANGED <<outbox, remote, retained>>
  BY <1>1 DEF Traced
<1>2. ASSUME NEW d \in Docs, Claim(d) PROVE Trace'
  BY <1>2 DEF Claim, Traced
<1>3. ASSUME NEW d \in Docs, Submit(d) PROVE Trace'
  BY <1>3 DEF Submit, Traced
<1>4. ASSUME NEW d \in Docs, OperationEnds(d) PROVE Trace'
  BY <1>4 DEF OperationEnds, Traced
<1>5. CASE outbox' = Refreshed(outbox) /\ UNCHANGED <<remote, retained>>
  BY <1>5 DEF Refreshed, Traced
<1>6. CASE /\ \E d \in In({"failed"}) : outbox' = [outbox EXCEPT ![d] = "queued"]
           /\ UNCHANGED <<remote, retained>>
  BY <1>6 DEF In, Traced
<1> QED
  BY <1>1, <1>2, <1>3, <1>4, <1>5, <1>6 DEF AgentStep

LEMMA TraceHolds == Spec => []Trace
<1>1. Init => Trace
  BY DEF Init, Trace, Tables, Traced
<1>2. Trace /\ [Next]_vars => Trace'
  BY StepIsAgentStep, TraceStep
<1> QED
  BY <1>1, <1>2, PTL DEF Spec

(* No document is retained twice, whatever is interrupted and repeated.    *)
THEOREM RetainsOnce == Spec => []RetainedOnce
<1>1. Trace => RetainedOnce
  BY DEF Trace, Tables, Traced, RetainedOnce
<1> QED
  BY <1>1, TraceHolds, PTL

-----------------------------------------------------------------------------
(* The settlement: with every row queued or succeeded and the cap reached  *)
(* nothing can be claimed, refreshed or retried.                           *)

SettledRows == Succeeded = Cap /\ In({"queued", "succeeded"}) = Docs

LEMMA SettledRowsKept ==
    ASSUME Trace, SettledRows, AgentStep
    PROVE  UNCHANGED outbox
<1>1. \A d \in Docs : outbox[d] \in {"queued", "succeeded"}
  BY DEF SettledRows, In
<1>2. In({"submitting", "submitted", "succeeded", "failed"}) = In({"succeeded"})
  BY <1>1 DEF In
<1>3. ~(Attempted < Cap)
  BY <1>2, RecoveryAssumption DEF Attempted, Succeeded, SettledRows
<1>4. ASSUME NEW d \in Docs, Claim(d) \/ Submit(d) PROVE FALSE
  BY <1>1, <1>3, <1>4 DEF Claim, Submit
<1>5. ASSUME NEW d \in Docs, OperationEnds(d) PROVE UNCHANGED outbox
  BY <1>5 DEF OperationEnds
<1>6. Refreshed(outbox) = outbox
  BY <1>1 DEF Refreshed, Trace, Tables
<1>7. In({"failed"}) = {}
  BY <1>1 DEF In
<1> QED
  BY <1>4, <1>5, <1>6, <1>7 DEF AgentStep

LEMMA AnnouncedStep ==
    ASSUME [Next]_vars, announced' # announced
    PROVE  (\E ph : ExactlySettled(ph)) /\ UNCHANGED outbox
<1>1. SettleAudit \/ CmdSettleAudit
  BY DEF Next, vars, Guard, GuardLoad, GuardSnap, GuardCapOpen, GuardCapSave,
     GuardAudit, GuardBeat, GuardFailed, GuardRestarts, SettleProve,
     SettleRefresh, SettleSave, Command, ReleaseCheck, ReleaseClose,
     ReleaseSave, ReleaseWait, ResumeLocked, HeldLocked, RecoverLocked,
     RecoverRetry, SaveReady, Drift, GuardDies, HeartbeatAges, Watchdog,
     WatchdogStarts, WatchdogTick, WatchdogDies, ReleaseStart, ResumeProve,
     RecoverProve, CmdInterrupted, HeldProve, WorkerRefresh, Claim, Submit,
     OperationEnds, SettleLockTaken, CmdSettleProve, CmdSettleRefresh,
     CmdSettleSave, PhaseLoad, PhaseSave, OperatorOpens, Reconfigure
<1> QED
  BY <1>1 DEF SettleAudit, CmdSettleAudit, agent

(* What stage_settled announces stays true.                                *)
THEOREM SettlementStays == Spec => []SettlementFinal
<1>1. Init => SettlementFinal
  BY DEF Init, SettlementFinal
<1>2. ASSUME Trace, SettlementFinal, [Next]_vars PROVE SettlementFinal'
  <2>1. CASE announced' # announced
    <3>1. SettledRows /\ UNCHANGED outbox
      BY <1>2, <2>1, AnnouncedStep DEF ExactlySettled, SettledRows
    <3> QED
      BY <3>1 DEF SettledRows, SettlementFinal, In, Succeeded
  <2>2. CASE announced' = announced /\ announced
    <3>1. SettledRows
      BY <1>2, <2>2 DEF SettlementFinal, SettledRows
    <3>2. UNCHANGED outbox
      BY <1>2, <3>1, StepIsAgentStep, SettledRowsKept
    <3> QED
      BY <3>1, <3>2 DEF SettledRows, SettlementFinal, In, Succeeded
  <2>3. CASE announced' = announced /\ ~announced
    BY <2>3 DEF SettlementFinal
  <2> QED
    BY <2>1, <2>2, <2>3
<1> QED
  BY <1>1, <1>2, TraceHolds, PTL DEF Spec

-----------------------------------------------------------------------------
(* Types.  The two records of the guard and of the command are written     *)
(* field by field, so their effects come first.                            *)

Loops == [phase : Phases, bad : BOOLEAN, act : {"continue", "open", "violation"}]
Commands == [phase : Phases, docs : SUBSET Docs, base : Nat]

LEMMA Counts ==
    ASSUME NEW S \in SUBSET Docs
    PROVE  Cardinality(S) \in Nat
BY FS_Subset, FS_CardinalityType, RecoveryAssumption

LEMMA PhaseFields ==
    ASSUME NEW p \in Phases, NEW n \in Names, NEW b \in BOOLEAN, NEW k \in Nat
    PROVE  /\ [p EXCEPT !.name = n] \in Phases
           /\ [p EXCEPT !.name = n, !.armed = b] \in Phases
           /\ [p EXCEPT !.name = n, !.retry = k] \in Phases
           /\ p.retry \in Nat
BY DEF Phases

LEMMA LoopFields ==
    ASSUME NEW l \in Loops, NEW p \in Phases, NEW b \in BOOLEAN,
           NEW a \in {"continue", "open", "violation"}
    PROVE  /\ [l EXCEPT !.phase = p] \in Loops
           /\ [l EXCEPT !.bad = b] \in Loops
           /\ [phase |-> p, bad |-> b, act |-> a] \in Loops
           /\ l.phase \in Phases
BY DEF Loops

LEMMA CommandFields ==
    ASSUME NEW h \in Commands, NEW p \in Phases, NEW D \in SUBSET Docs, NEW k \in Nat
    PROVE  /\ [h EXCEPT !.phase = p] \in Commands
           /\ [h EXCEPT !.phase = p, !.docs = D] \in Commands
           /\ [h EXCEPT !.base = k] \in Commands
           /\ [h EXCEPT !.docs = D] \in Commands
           /\ [h EXCEPT !.docs = D, !.phase = p] \in Commands
           /\ h.phase \in Phases
BY DEF Commands

LEMMA Constants ==
    Phase0 \in Phases /\ NoLoop \in Loops /\ NoCommand \in Commands
BY DEF Phase0, NoLoop, NoCommand, Phases, Names, Loops, Commands

(* The parts of the state that the type invariant speaks of.               *)
Flags ==
    /\ retries \subseteq Docs
    /\ open \in BOOLEAN /\ fresh \in BOOLEAN /\ announced \in BOOLEAN
    /\ drift \in {"none", "quick", "full"} /\ expected \in Nat /\ byHand \in BOOLEAN
    /\ failures \in Nat
    /\ guard \in GuardSteps \cup {"dead", "hung"}
    /\ watchdog \in {"starting", "running"}
    /\ cmd \in CmdSteps
Records == phase \in Phases /\ seen \in Loops /\ held \in Commands

LEMMA FlagsStep ==
    ASSUME Flags, [Next]_vars
    PROVE  Flags'
<1> USE DEF Flags, GuardSteps, CmdSteps, agent, env, bounds, Fault,
        EmergencyOpens, TunnelFails, Continue, Return
<1>1. CASE Guard
  <2>1. CASE GuardLoad \/ GuardSnap \/ GuardCapSave \/ GuardBeat \/ GuardRestarts
    BY <2>1 DEF GuardLoad, GuardSnap, GuardCapSave, GuardBeat, GuardRestarts
  <2>2. CASE GuardCapOpen \/ GuardFailed
    BY <2>2 DEF GuardCapOpen, GuardFailed
  <2>3. ASSUME NEW full \in BOOLEAN, GuardAudit(full) PROVE Flags'
    <3>1. fresh' \in BOOLEAN
      BY <2>3 DEF GuardAudit
    <3> QED
      BY <2>3, <3>1 DEF GuardAudit
  <2>4. CASE SettleProve \/ SettleRefresh \/ SettleSave \/ SettleAudit
    <3>1. CASE SettleProve \/ SettleRefresh
      BY <3>1 DEF SettleProve, SettleRefresh
    <3>2. CASE SettleSave
      BY <3>2 DEF SettleSave
    <3>3. CASE SettleAudit
      <4>1. announced' \in BOOLEAN /\ guard' \in {"beat", "failed"}
        BY <3>3 DEF SettleAudit
      <4> QED
        BY <3>3, <4>1 DEF SettleAudit
    <3> QED BY <2>4, <3>1, <3>2, <3>3
  <2> QED
    BY <1>1, <2>1, <2>2, <2>3, <2>4 DEF Guard
<1>2. CASE Command
  <2>1. CASE ReleaseCheck \/ ReleaseClose \/ ReleaseSave \/ ReleaseWait
    BY <2>1 DEF ReleaseCheck, ReleaseClose, ReleaseSave, ReleaseWait
  <2>2. CASE ResumeLocked \/ HeldLocked \/ RecoverLocked \/ SaveReady
    BY <2>2 DEF ResumeLocked, HeldLocked, RecoverLocked, SaveReady
  <2>3. CASE RecoverRetry
    BY <2>3 DEF RecoverRetry, In
  <2>4. CASE CmdSettleRefresh \/ CmdSettleSave \/ PhaseSave
    BY <2>4 DEF CmdSettleRefresh, CmdSettleSave, PhaseSave
  <2>5. CASE CmdSettleAudit
    <3>1. announced' \in BOOLEAN
      BY <2>5 DEF CmdSettleAudit
    <3> QED
      BY <2>5, <3>1 DEF CmdSettleAudit
  <2> QED
    BY <1>2, <2>1, <2>2, <2>3, <2>4, <2>5 DEF Command
<1>3. CASE \/ Drift \/ GuardDies \/ HeartbeatAges \/ Watchdog \/ WatchdogDies
  BY <1>3 DEF Drift, GuardDies, HeartbeatAges, Watchdog, WatchdogStarts,
     WatchdogTick, WatchdogDies
<1>4. CASE \/ ReleaseStart \/ ResumeProve \/ RecoverProve \/ CmdInterrupted
           \/ \E d \in Docs : HeldProve(d)
  BY <1>4 DEF ReleaseStart, ResumeProve, RecoverProve, CmdInterrupted, HeldProve
<1>8. CASE \/ SettleLockTaken \/ CmdSettleProve \/ PhaseLoad \/ OperatorOpens
           \/ Reconfigure
  BY <1>8 DEF SettleLockTaken, CmdSettleProve, PhaseLoad, OperatorOpens, Reconfigure
<1>5. CASE WorkerRefresh
  BY <1>5 DEF WorkerRefresh
<1>6. CASE \E d \in Docs : Claim(d) \/ Submit(d) \/ OperationEnds(d)
  BY <1>6 DEF Claim, Submit, OperationEnds
<1>7. CASE UNCHANGED vars
  BY <1>7 DEF vars
<1> QED
  BY <1>1, <1>2, <1>3, <1>4, <1>5, <1>6, <1>7, <1>8 DEF Next

LEMMA RecordsStep ==
    ASSUME Flags, Records, [Next]_vars
    PROVE  Records'
<1> USE DEF Records
<1>n. {"cap_hold", "settled", "ready", "running"} \subseteq Names
  BY DEF Names
<1>f. seen.phase \in Phases /\ held.phase \in Phases
  BY LoopFields, CommandFields, Constants, Counts DEF Loops, Commands
<1>1. CASE UNCHANGED <<phase, seen, held>>
  BY <1>1
<1>2. CASE GuardLoad \/ GuardBeat \/ GuardFailed \/ GuardDies
  <2>1. seen' \in Loops
    <3>1. CASE GuardLoad
      BY <3>1 DEF GuardLoad, Loops
    <3>2. CASE GuardBeat \/ GuardFailed \/ GuardDies
      BY <3>2, Constants DEF GuardBeat, GuardFailed, GuardDies
    <3> QED
      BY <1>2, <3>1, <3>2
  <2> QED
    BY <1>2, <2>1 DEF GuardLoad, GuardBeat, GuardFailed, GuardDies
<1>3. CASE GuardSnap
  <2>1. StageAction(seen.phase.name) \in {"continue", "open", "violation"}
    BY DEF StageAction
  <2>2. QuickFailures(seen.phase) \in BOOLEAN
    BY DEF QuickFailures
  <2>3. \E p \in Phases : seen' = [phase |-> p, bad |-> QuickFailures(seen.phase),
                                    act |-> StageAction(seen.phase.name)]
    BY <1>3, <1>f, Constants DEF GuardSnap
  <2>4. seen' \in Loops
    BY <2>1, <2>2, <2>3, LoopFields
  <2> QED
    BY <1>3, <2>4 DEF GuardSnap
<1>4. CASE GuardCapSave \/ SettleSave \/ CmdSettleSave
  <2>1. phase' \in Phases
    <3>1. PICK p \in Phases, n \in Names : phase' = [p EXCEPT !.name = n]
      BY <1>4, <1>n, <1>f DEF GuardCapSave, SettleSave, CmdSettleSave, SettledPhase
    <3> QED
      BY <3>1, PhaseFields
  <2>2. CASE GuardCapSave
    <3>1. seen' \in Loops
      BY <2>2, <1>f, Constants, LoopFields DEF GuardCapSave, Loops
    <3> QED
      BY <2>1, <2>2, <3>1 DEF GuardCapSave
  <2> QED
    BY <1>4, <2>1, <2>2 DEF SettleSave, CmdSettleSave, Continue
<1>5. CASE SettleProve
  <2>1. seen' \in Loops
    BY <1>5, LoopFields, Constants DEF SettleProve
  <2> QED
    BY <1>5, <2>1 DEF SettleProve
<1>6. CASE ReleaseStart
  BY <1>6, Constants, CommandFields DEF ReleaseStart
<1>7. CASE ReleaseCheck
  <2>1. Succeeded \in Nat
    BY Counts DEF Succeeded, In
  <2>2. held' \in Commands
    BY <1>7, <2>1, Constants, CommandFields DEF ReleaseCheck, Return
  <2> QED
    BY <1>7, <2>2 DEF ReleaseCheck
<1>8. CASE ReleaseSave
  <2>1. phase' \in Phases
    BY <1>8, <1>f, <1>n, PhaseFields DEF ReleaseSave
  <2>2. held' \in Commands
    BY <1>8, Constants, CommandFields DEF ReleaseSave
  <2> QED
    BY <1>8, <2>1, <2>2 DEF ReleaseSave
<1>9. CASE \/ ReleaseClose \/ ReleaseWait \/ HeldLocked \/ RecoverLocked
           \/ CmdSettleRefresh \/ CmdSettleAudit \/ CmdInterrupted
  BY <1>9, Constants DEF ReleaseClose, ReleaseWait, HeldLocked, RecoverLocked,
     CmdSettleRefresh, CmdSettleAudit, CmdInterrupted, Return, Continue
<1>13. CASE ResumeLocked
  <2>1. held' \in Commands
    BY <1>13, Constants, CommandFields DEF ResumeLocked, Return
  <2> QED
    BY <1>13, <2>1 DEF ResumeLocked
<1>14. CASE RecoverRetry
  <2>1. held' \in Commands
    <3>1. CASE held' = held
      BY <3>1
    <3>2. ASSUME NEW p \in Phases, held' = [held EXCEPT !.docs = {}, !.phase = p]
          PROVE  held' \in Commands
      BY <3>2 DEF Commands
    <3> QED
      BY <1>14, <1>f, <3>1, <3>2 DEF RecoverRetry
  <2> QED
    BY <1>14, <2>1 DEF RecoverRetry
<1>15. CASE CmdSettleProve
  <2>1. held' \in Commands
    BY <1>15, CommandFields DEF CmdSettleProve
  <2> QED
    BY <1>15, <2>1 DEF CmdSettleProve
<1>16. CASE PhaseLoad
  <2>1. Cardinality(retries) \in Nat
    BY Counts DEF Flags
  <2>2. PICK new \in Hands :
          held' = [held EXCEPT !.phase = [name |-> new.name, armed |-> new.armed,
                                          retry |-> Cardinality(retries)]]
    BY <1>16 DEF PhaseLoad
  <2>3. [name |-> new.name, armed |-> new.armed, retry |-> Cardinality(retries)] \in Phases
    BY <2>1, RecoveryAssumption DEF Phases, Names
  <2>4. held' \in Commands
    BY <2>2, <2>3, CommandFields
  <2> QED
    BY <1>16, <2>4 DEF PhaseLoad
<1>17. CASE PhaseSave
  <2>1. phase' \in Phases /\ held' \in Commands
    BY <1>17, <1>f, Constants DEF PhaseSave, Return
  <2> QED
    BY <1>17, <2>1 DEF PhaseSave
<1>18. CASE Reconfigure \/ GuardAudit(TRUE) \/ GuardAudit(FALSE)
  BY <1>18, Constants DEF Reconfigure, GuardAudit
<1>10. CASE ResumeProve \/ RecoverProve \/ \E d \in Docs : HeldProve(d)
  <2>1. PICK D \in SUBSET Docs : held' = [held EXCEPT !.phase = phase, !.docs = D]
    BY <1>10 DEF ResumeProve, RecoverProve, HeldProve, In
  <2>2. held' \in Commands
    BY <2>1 DEF Commands
  <2> QED
    BY <1>10, <2>2 DEF ResumeProve, RecoverProve, HeldProve
<1>11. CASE SaveReady
  <2>1. Cardinality(retries) \in Nat
    BY Counts DEF Flags
  <2>2. held.phase.retry \in Nat
    BY <1>f, <1>n, PhaseFields DEF Phases
  <2>3. PICK k \in Nat : phase' = [held.phase EXCEPT !.name = "ready", !.retry = k]
    BY <1>11, <2>1, <2>2 DEF SaveReady
  <2>4. phase' \in Phases
    BY <1>f, <1>n, <2>3, PhaseFields
  <2> QED
    BY <1>11, <2>4, Constants DEF SaveReady, Return
<1>12. CASE \/ GuardCapOpen \/ GuardRestarts \/ SettleRefresh \/ SettleAudit
            \/ HeartbeatAges \/ Watchdog \/ SettleLockTaken \/ OperatorOpens
            \/ WatchdogDies \/ Drift \/ WorkerRefresh
            \/ \E d \in Docs : Claim(d) \/ Submit(d) \/ OperationEnds(d)
            \/ UNCHANGED vars
  BY <1>1, <1>12 DEF GuardCapOpen, GuardRestarts, SettleRefresh, SettleAudit,
     HeartbeatAges, Watchdog, WatchdogStarts, WatchdogTick, SettleLockTaken,
     OperatorOpens, WatchdogDies, Drift, WorkerRefresh, Claim, Submit,
     OperationEnds, vars
<1> QED
  BY <1>2, <1>3, <1>4, <1>5, <1>6, <1>7, <1>8, <1>9, <1>10, <1>11, <1>12,
     <1>13, <1>14, <1>15, <1>16, <1>17, <1>18
     DEF Next, Guard, Command

(* Outbox, circuit, phase file and the programs stay in known states.      *)
THEOREM TypeCorrect == Spec => []TypeOK
<1>1. Init => Flags /\ Records
  <2>0. Init => expected \in Nat /\ failures \in Nat /\ retries \subseteq Docs
    BY DEF Init
  <2>1. Init => Flags
    BY <2>0, Zenon DEF Init, Flags, GuardSteps, CmdSteps
  <2>2. Init => Records
    BY Constants DEF Init, Records
  <2> QED
    BY <2>1, <2>2
<1>2. Flags /\ Records /\ [Next]_vars => (Flags /\ Records)'
  BY FlagsStep, RecordsStep
<1>3. Trace /\ Flags /\ Records => TypeOK
  BY DEF Trace, Tables, Flags, Records, Loops, Commands, TypeOK
<1> QED
  BY <1>1, <1>2, <1>3, TraceHolds, PTL DEF Spec
=============================================================================
