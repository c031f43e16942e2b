---------------------- MODULE SandboxReplacementProofs ----------------------
(***************************************************************************)
(* For every set of VMs and compose hashes and any number of faults: the   *)
(* commands of sandboxd-node.sh implement ExclusiveApp, whose promise is   *)
(* off from a start run during an open replacement until a new replacement *)
(* finds one VM up alone; no VM is lost; the cutover records the compose   *)
(* that was verified, and leaves the old VM down unless start intervened.  *)
(***************************************************************************)
EXTENDS SandboxReplacement, TLAPS

Existing == {v \in VMs: status[v] # "absent"}

UpdateSteps ==
    {"updateStop", "updateWait", "updateUpgrade", "updateStart", "updateSave"}
RollbackSteps ==
    {"stopNew", "waitNew", "rollbackCheck", "startOld", "rollbackWait"}
StopSteps == {"stopOld", "waitOld", "quiesced"}

(* Which phase each step of the driver runs in.                            *)
StepPhase ==
    /\ driver.pc \in UpdateSteps => journal.phase = "none"
    /\ driver.pc \in {"deployCreate", "deploySave"} =>
          journal.deploying /\ journal.phase = "none"
    /\ driver.pc \in {"replaceCreate", "replaceSave"} =>
          journal.phase = "creating"
    /\ driver.pc \in {"upgrade", "upgraded"} => journal.phase = "rebasing"
    /\ driver.pc \in StopSteps => journal.phase = "created"
    /\ driver.pc \in {"startNew", "startedNew"} => journal.phase = "old-stopped"
    /\ driver.pc \in {"health", "confirm"} =>
          journal.phase = "replacement-started"
    /\ driver.pc \in RollbackSteps => journal.phase = "rolling-back"
    /\ driver.pc = "resume" => journal.phase \notin {"none", "creating"}

(* The phases in which the ids and the compose hashes are filled in.       *)
JournalShape ==
    /\ journal.phase \in {"none", "creating"} <=> journal.new = NoVm
    /\ journal.phase # "none" => journal.old = journal.vm /\ journal.vm # NoVm
    /\ journal.deploying => journal.vm = NoVm
    /\ driver.pc \in UpdateSteps \cup {"startVm"} => journal.vm # NoVm
    /\ driver.pc \in {"deploySave", "replaceSave"} => driver.vm \in VMs

-----------------------------------------------------------------------------
(* What the steps that write several fields at once leave behind.          *)
LEMMA CreateVmEffect ==
    ASSUME NEW pc, CreateVm(pc)
    PROVE  /\ UNCHANGED <<journal, retired>>
           /\ \E v \in VMs:
                /\ status[v] = "absent"
                /\ \/ /\ status' = [status EXCEPT ![v] = "stopped"]
                      /\ \E h: compose' = [compose EXCEPT ![v] = h]
                   \/ driver' = Idle /\ UNCHANGED <<status, compose>>
                /\ \/ /\ driver' = [pc |-> pc, hash |-> driver.hash, vm |-> v]
                      /\ status' = [status EXCEPT ![v] = "stopped"]
                   \/ driver' = Idle
BY DEF CreateVm, Die, history

LEMMA StartEffect ==
    ASSUME TypeOK, Start
    PROVE  /\ UNCHANGED <<journal, status, compose, retired, faults>>
           /\ journal.vm # NoVm /\ stray' \in BOOLEAN
           /\ driver' = [driver EXCEPT !.pc = "startVm"]
BY DEF Start, Go, TypeOK

LEMMA UpgradeEffect ==
    ASSUME TypeOK, NEW v, NEW h, NEW pc \in Steps, Upgrade(v, h, pc)
    PROVE  /\ UNCHANGED <<journal, status, retired, stray>>
           /\ driver'.pc \in {"idle", pc}
           /\ driver' \in [pc: Steps, hash: Hashes \cup {NoHash},
                           vm: VMs \cup {NoVm}]
           /\ \/ UNCHANGED compose
              \/ \E x \in Hashes \cup {h}: compose' = [compose EXCEPT ![v] = x]
<1>1. /\ UNCHANGED <<journal, status, retired, stray>>
      /\ \/ UNCHANGED compose
         \/ \E x \in Hashes \cup {h}: compose' = [compose EXCEPT ![v] = x]
  BY DEF Upgrade, history
<1>2. \/ driver' = [driver EXCEPT !.pc = pc]
      \/ driver' = Idle
      \/ \E x \in Hashes: driver' = [driver EXCEPT !.pc = pc, !.hash = x]
  BY DEF Upgrade, Go, Die
<1>3. CASE driver' = [driver EXCEPT !.pc = pc]
  BY <1>1, <1>3 DEF TypeOK
<1>4. CASE driver' = Idle
  BY <1>1, <1>4 DEF Idle, Steps
<1>5. ASSUME NEW x \in Hashes,
             driver' = [driver EXCEPT !.pc = pc, !.hash = x]
      PROVE  /\ driver'.pc \in {"idle", pc}
             /\ driver' \in [pc: Steps, hash: Hashes \cup {NoHash},
                             vm: VMs \cup {NoVm}]
  BY <1>5 DEF TypeOK
<1> QED
  BY <1>1, <1>2, <1>3, <1>4, <1>5

(* The two uses of UpgradeApp, by the VM they are for.                     *)
LEMMA UpgradesEffect ==
    ASSUME TypeOK, UpdateUpgrade \/ RebaseUpgrade
    PROVE  /\ UNCHANGED <<journal, status, retired, stray>>
           /\ \/ /\ driver.pc = "updateUpgrade"
                 /\ driver'.pc \in {"idle", "updateStart"}
              \/ /\ driver.pc = "upgrade"
                 /\ driver'.pc \in {"idle", "upgraded"}
           /\ driver' \in [pc: Steps, hash: Hashes \cup {NoHash},
                           vm: VMs \cup {NoVm}]
           /\ compose' \in [VMs -> Hashes \cup {NoHash}]
           /\ faults' = faults \/ Fault
<1>1. CASE UpdateUpgrade
  <2>1. driver.pc = "updateUpgrade"
        /\ Upgrade(journal.vm, driver.hash, "updateStart")
    BY <1>1 DEF UpdateUpgrade, At
  <2>2. "updateStart" \in Steps
    BY DEF Steps
  <2>3. driver.hash \in Hashes \cup {NoHash}
    BY DEF TypeOK
  <2>4. compose' \in [VMs -> Hashes \cup {NoHash}]
    BY <2>1, <2>2, <2>3, UpgradeEffect DEF TypeOK
  <2>5. faults' = faults \/ Fault
    BY <2>1 DEF Upgrade
  <2> QED
    BY <2>1, <2>2, <2>4, <2>5, UpgradeEffect
<1>2. CASE RebaseUpgrade
  <2>1. driver.pc = "upgrade" /\ Upgrade(journal.new, journal.target, "upgraded")
    BY <1>2 DEF RebaseUpgrade, At
  <2>2. "upgraded" \in Steps
    BY DEF Steps
  <2>3. journal.target \in Hashes \cup {NoHash}
    BY DEF TypeOK
  <2>4. compose' \in [VMs -> Hashes \cup {NoHash}]
    BY <2>1, <2>2, <2>3, UpgradeEffect DEF TypeOK
  <2>5. faults' = faults \/ Fault
    BY <2>1 DEF Upgrade
  <2> QED
    BY <2>1, <2>2, <2>4, <2>5, UpgradeEffect
<1> QED
  BY <1>1, <1>2

LEMMA RebasedEffect ==
    ASSUME TypeOK, journal' = [journal EXCEPT !.phase = "created",
                                              !.previous = NoHash]
    PROVE  /\ journal'.phase = "created" /\ journal'.previous = NoHash
           /\ journal'.vm = journal.vm /\ journal'.h = journal.h
           /\ journal'.new = journal.new /\ journal'.old = journal.old
           /\ journal'.target = journal.target
           /\ journal'.deploying = journal.deploying
BY DEF TypeOK

LEMMA RebaseEffect ==
    ASSUME TypeOK, ResumeRebasing \/ RebaseReadback
    PROVE  /\ Reads
           /\ \/ journal' = journal /\ driver' = Idle
              \/ /\ journal' = journal
                 /\ driver' = [driver EXCEPT !.pc = "upgrade"]
                 /\ journal.phase = "rebasing"
              \/ /\ journal' = [journal EXCEPT !.phase = "created",
                                              !.previous = NoHash]
                 /\ driver' = [driver EXCEPT !.pc = "resume"]
                 /\ driver.pc \in {"resume", "upgraded"}
                 /\ driver.pc = "resume" => journal.phase = "rebasing"
BY DEF ResumeRebasing, RebaseReadback, Gate, Rebased, Abort, Die, Go, Resume, At

-----------------------------------------------------------------------------
(* The type invariant of the state file, the driver and the VMM.           *)
LEMMA TypeStep ==
    ASSUME TypeOK, JournalShape, [Next]_vars
    PROVE  TypeOK'
<1> USE DEF TypeOK, Statuses, Phases, Steps, Gate, At, Go, Run, Die, Abort,
        Reads, history, Resume, Phase, Fault, Idle, RollBack, Rebased, RollbackFailed,
        EndRollback, NoJournal
<1> USE FaultsAssumption, NoneAssumption
<1>1. CASE Command
  <2>1. CASE Deploy
    <3>1. PICK h \in Hashes:
            driver' = [pc |-> "deployCreate", hash |-> h, vm |-> NoVm]
      BY <2>1 DEF Deploy
    <3> QED
      BY <2>1, <3>1 DEF Deploy
  <2>2. CASE Start
    BY <2>2 DEF Start
  <2>3. CASE Update
    BY <2>3 DEF Update
  <2>4. CASE Rollback
    BY <2>4 DEF Rollback
  <2>5. ASSUME NEW h \in Hashes, ReplaceNew(h) PROVE TypeOK'
    BY <2>5 DEF ReplaceNew, Allocate
  <2>6. ASSUME NEW h \in Hashes, ReplaceResume(h) PROVE TypeOK'
    <3>1. \/ UNCHANGED journal
          \/ journal' = [journal EXCEPT !.phase = "rebasing"]
          \/ journal' = [journal EXCEPT !.phase = "rebasing", !.target = h,
                                        !.previous = journal.target]
      BY <2>6 DEF ReplaceResume, RebaseTo
    <3>2. journal' \in [vm: VMs \cup {NoVm}, h: Hashes \cup {NoHash},
                        deploying: BOOLEAN, phase: Phases,
                        new: VMs \cup {NoVm}, old: VMs \cup {NoVm},
                        target: Hashes \cup {NoHash},
                        previous: Hashes \cup {NoHash}]
      <4>1. CASE UNCHANGED journal
        BY <4>1
      <4>2. CASE journal' = [journal EXCEPT !.phase = "rebasing"]
        BY <4>2
      <4>3. CASE journal' = [journal EXCEPT !.phase = "rebasing", !.target = h,
                                            !.previous = journal.target]
        BY <4>3
      <4> QED BY <3>1, <4>1, <4>2, <4>3
    <3> QED BY <2>6, <3>2 DEF ReplaceResume, Resuming
  <2> QED
    BY <1>1, <2>1, <2>2, <2>3, <2>4, <2>5, <2>6 DEF Command
<1>2. ASSUME NEW pc \in {"deploySave", "replaceSave"}, CreateVm(pc)
      PROVE  TypeOK'
  <2>1. PICK v \in VMs:
          \/ /\ status' = [status EXCEPT ![v] = "stopped"]
             /\ compose' = [compose EXCEPT ![v] = driver.hash]
             /\ driver' = [pc |-> pc, hash |-> driver.hash, vm |-> v]
             /\ UNCHANGED faults
          \/ /\ Fault /\ Die
             /\ \/ UNCHANGED <<status, compose>>
                \/ /\ status' = [status EXCEPT ![v] = "stopped"]
                   /\ \E h \in Hashes: compose' = [compose EXCEPT ![v] = h]
    BY <1>2 DEF CreateVm
  <2>2. journal' \in [vm: VMs \cup {NoVm}, h: Hashes \cup {NoHash},
                      deploying: BOOLEAN, phase: Phases,
                      new: VMs \cup {NoVm}, old: VMs \cup {NoVm},
                      target: Hashes \cup {NoHash},
                      previous: Hashes \cup {NoHash}]
    BY <1>2 DEF CreateVm
  <2>3. driver' \in [pc: Steps, hash: Hashes \cup {NoHash},
                     vm: VMs \cup {NoVm}]
    <3>1. CASE driver' = Idle
      BY <3>1
    <3>2. CASE driver' = [pc |-> pc, hash |-> driver.hash, vm |-> v]
      BY <3>2
    <3> QED
      BY <2>1, <3>1, <3>2
  <2>4. status' \in [VMs -> Statuses]
    BY <2>1
  <2>5. compose' \in [VMs -> Hashes \cup {NoHash}]
    BY <2>1
  <2>6. faults' \in 0..MaxFaults
    BY <2>1
  <2> QED
    BY <1>2, <2>2, <2>3, <2>4, <2>5, <2>6 DEF CreateVm
<1>3. CASE DeploySave
  BY <1>3 DEF DeploySave
<1>15. CASE UpdateSave
  BY <1>15 DEF UpdateSave
<1>16. CASE ReplaceSave
  BY <1>16 DEF ReplaceSave
<1>4. CASE UpdateStop \/ StopOld \/ StopNew
  BY <1>4 DEF UpdateStop, StopOld, StopNew, RequestStop, Stopping
<1>5. CASE UpdateWait \/ WaitOld \/ WaitNew
  BY <1>5 DEF UpdateWait, WaitOld, WaitNew, AwaitStop
<1>6. CASE StartCvm \/ UpdateStart \/ StartNew \/ StartOld
  BY <1>6 DEF StartCvm, UpdateStart, StartNew, StartOld, StartVm, Starting
<1>7. CASE UpdateUpgrade \/ RebaseUpgrade
  BY <1>7, UpgradesEffect
<1>8. CASE ResumeRolledBack \/ ResumeCreated
  BY <1>8 DEF ResumeRolledBack, ResumeCreated
<1>17. CASE ResumeRebasing
  <2>1. /\ \/ journal' = journal
           \/ journal' = [journal EXCEPT !.phase = "created",
                                         !.previous = NoHash]
        /\ \E pc \in Steps: driver' \in {Idle, [driver EXCEPT !.pc = pc]}
        /\ UNCHANGED <<status, compose, retired, stray>>
    BY <1>17 DEF ResumeRebasing
  <2>2. faults' \in 0..MaxFaults
    BY <1>17 DEF ResumeRebasing
  <2>3. journal' \in [vm: VMs \cup {NoVm}, h: Hashes \cup {NoHash},
                      deploying: BOOLEAN, phase: Phases,
                      new: VMs \cup {NoVm}, old: VMs \cup {NoVm},
                      target: Hashes \cup {NoHash},
                      previous: Hashes \cup {NoHash}]
    <3>1. CASE journal' = journal
      BY <3>1
    <3>2. CASE journal' = [journal EXCEPT !.phase = "created",
                                          !.previous = NoHash]
      BY <3>2
    <3> QED BY <2>1, <3>1, <3>2
  <2>4. driver' \in [pc: Steps, hash: Hashes \cup {NoHash},
                     vm: VMs \cup {NoVm}]
    BY <2>1
  <2> QED
    BY <2>1, <2>2, <2>3, <2>4
<1>18. CASE RebaseReadback
  <2>1. /\ \/ journal' = journal
           \/ journal' = [journal EXCEPT !.phase = "created",
                                         !.previous = NoHash]
        /\ \E pc \in Steps: driver' \in {Idle, [driver EXCEPT !.pc = pc]}
        /\ UNCHANGED <<status, compose, retired, stray>>
    BY <1>18 DEF RebaseReadback
  <2>2. faults' \in 0..MaxFaults
    BY <1>18 DEF RebaseReadback
  <2>3. journal' \in [vm: VMs \cup {NoVm}, h: Hashes \cup {NoHash},
                      deploying: BOOLEAN, phase: Phases,
                      new: VMs \cup {NoVm}, old: VMs \cup {NoVm},
                      target: Hashes \cup {NoHash},
                      previous: Hashes \cup {NoHash}]
    <3>1. CASE journal' = journal
      BY <3>1
    <3>2. CASE journal' = [journal EXCEPT !.phase = "created",
                                          !.previous = NoHash]
      BY <3>2
    <3> QED BY <2>1, <3>1, <3>2
  <2>4. driver' \in [pc: Steps, hash: Hashes \cup {NoHash},
                     vm: VMs \cup {NoVm}]
    BY <2>1
  <2> QED
    BY <2>1, <2>2, <2>3, <2>4
<1>9. CASE Quiesced \/ ResumeOldStopped \/ StartedNew \/ ResumeStarted
  BY <1>9 DEF Quiesced, ResumeOldStopped, StartedNew, ResumeStarted
<1>10. CASE WaitHealth \/ Confirm \/ ResumeRollback
  BY <1>10 DEF WaitHealth, Confirm, ResumeRollback
<1>11. CASE RollbackCheck \/ RollbackWait
  BY <1>11 DEF RollbackCheck, RollbackWait
<1>12. CASE Finish
  <2>1. journal' = [vm |-> journal.new, h |-> journal.target,
                    deploying |-> FALSE, phase |-> "none",
                    new |-> NoVm, old |-> NoVm, target |-> NoHash,
                    previous |-> NoHash]
    BY <1>12 DEF Finish
  <2>2. journal.old \in VMs
    BY <1>12 DEF Finish, JournalShape
  <2> QED
    BY <1>12, <2>1, <2>2 DEF Finish
<1>13. CASE VmStep \/ Crash \/ \E v \in VMs: VmExit(v)
  BY <1>13 DEF VmStep, Settle, Crash, VmExit
<1>14. CASE UNCHANGED vars
  BY <1>14 DEF vars, history, history
<1> QED
  BY <1>1, <1>2, <1>3, <1>4, <1>5, <1>6, <1>7, <1>8, <1>9, <1>10, <1>11,
     <1>12, <1>13, <1>14, <1>15, <1>16, <1>17,
     <1>18
  DEF Next, DriverStep, DeployCreate, ReplaceCreate

-----------------------------------------------------------------------------
(* Every command keeps its steps inside the phases they belong to.         *)
LEMMA StepPhaseStep ==
    ASSUME TypeOK, StepPhase, JournalShape, [Next]_vars
    PROVE  StepPhase'
<1> USE DEF TypeOK, StepPhase, UpdateSteps, RollbackSteps, StopSteps, Gate, At,
        Go, Run, Die, Abort, Reads, history, Resume, Phase, Idle,
        RollBack, Rebased, RollbackFailed, EndRollback, NoJournal, JournalShape
<1>1. CASE Deploy \/ Start \/ Update
  BY <1>1, StartEffect DEF Deploy, Update
<1>2. CASE Rollback
  BY <1>2 DEF Rollback
<1>3. ASSUME NEW h \in Hashes, ReplaceNew(h) PROVE StepPhase'
  BY <1>3 DEF ReplaceNew, Allocate
<1>4. ASSUME NEW h \in Hashes, ReplaceResume(h) PROVE StepPhase'
  BY <1>4 DEF ReplaceResume, Resuming, RebaseTo
<1>5. CASE DeployCreate
  BY <1>5, CreateVmEffect DEF DeployCreate
<1>6. CASE ReplaceCreate
  BY <1>6, CreateVmEffect DEF ReplaceCreate
<1>7. CASE DeploySave \/ UpdateSave
  BY <1>7 DEF DeploySave, UpdateSave
<1>8. CASE ReplaceSave
  BY <1>8 DEF ReplaceSave
<1>9. CASE UpdateStop \/ StopOld \/ StopNew
  BY <1>9 DEF UpdateStop, StopOld, StopNew,
     RequestStop
<1>10. CASE UpdateWait \/ WaitOld \/ WaitNew
  BY <1>10 DEF UpdateWait, WaitOld, WaitNew, AwaitStop
<1>11. CASE StartCvm \/ UpdateStart \/ StartNew \/ StartOld
  BY <1>11 DEF StartCvm, UpdateStart, StartNew, StartOld,
     StartVm
<1>12. CASE UpdateUpgrade \/ RebaseUpgrade
  BY <1>12, UpgradesEffect
<1>13. CASE ResumeRolledBack \/ ResumeCreated \/ Quiesced
  BY <1>13 DEF ResumeRolledBack, ResumeCreated, Quiesced
<1>14. CASE ResumeRebasing \/ RebaseReadback
  BY <1>14, RebaseEffect, RebasedEffect
<1>16. CASE ResumeOldStopped \/ StartedNew \/ ResumeStarted
  BY <1>16 DEF ResumeOldStopped, StartedNew, ResumeStarted
<1>17. CASE WaitHealth \/ Confirm \/ ResumeRollback
  BY <1>17 DEF WaitHealth, Confirm, ResumeRollback
<1>18. CASE Finish
  BY <1>18 DEF Finish
<1>19. CASE RollbackCheck \/ RollbackWait
  BY <1>19 DEF RollbackCheck, RollbackWait
<1>20. CASE VmStep \/ Crash \/ \E v \in VMs: VmExit(v)
  BY <1>20 DEF VmStep, Settle, Crash, VmExit
<1>21. CASE UNCHANGED vars
  BY <1>21 DEF vars, history, history
<1> QED
  BY <1>1, <1>2, <1>3, <1>4, <1>5, <1>6, <1>7, <1>8, <1>9, <1>10,
     <1>11, <1>12, <1>13, <1>14, <1>16, <1>17, <1>18,
     <1>19, <1>20, <1>21
  DEF Next, Command, DriverStep

(* Every command fills in and clears the ids together with the phase.      *)
LEMMA JournalShapeStep ==
    ASSUME TypeOK, StepPhase, JournalShape, [Next]_vars
    PROVE  JournalShape'
<1> USE DEF TypeOK, StepPhase, UpdateSteps, RollbackSteps, StopSteps, Gate, At,
        Go, Run, Die, Abort, Reads, history, Resume, Phase, Idle,
        RollBack, Rebased, RollbackFailed, EndRollback, NoJournal, JournalShape
<1> USE NoneAssumption
<1>1. CASE Deploy \/ Start \/ Update
  BY <1>1, StartEffect DEF Deploy, Update
<1>2. CASE Rollback
  BY <1>2 DEF Rollback
<1>3. ASSUME NEW h \in Hashes, ReplaceNew(h) PROVE JournalShape'
  BY <1>3 DEF ReplaceNew, Allocate
<1>4. ASSUME NEW h \in Hashes, ReplaceResume(h) PROVE JournalShape'
  BY <1>4 DEF ReplaceResume, Resuming, RebaseTo
<1>5. CASE DeployCreate
  BY <1>5, CreateVmEffect DEF DeployCreate
<1>6. CASE ReplaceCreate
  BY <1>6, CreateVmEffect DEF ReplaceCreate
<1>7. CASE DeploySave \/ UpdateSave
  <2>1. CASE DeploySave
    <3>1. /\ journal'.phase = journal.phase /\ journal'.new = journal.new
          /\ journal'.deploying = FALSE /\ journal'.vm = driver.vm
      BY <2>1 DEF DeploySave
    <3> QED
      BY <2>1, <3>1 DEF DeploySave
  <2>2. CASE UpdateSave
    BY <2>2 DEF UpdateSave
  <2> QED
    BY <1>7, <2>1, <2>2
<1>8. CASE ReplaceSave
  BY <1>8 DEF ReplaceSave
<1>9. CASE UpdateStop \/ StopOld \/ StopNew
  BY <1>9 DEF UpdateStop, StopOld, StopNew,
     RequestStop
<1>10. CASE UpdateWait \/ WaitOld \/ WaitNew
  BY <1>10 DEF UpdateWait, WaitOld, WaitNew, AwaitStop
<1>11. CASE StartCvm \/ UpdateStart \/ StartNew \/ StartOld
  BY <1>11 DEF StartCvm, UpdateStart, StartNew, StartOld,
     StartVm
<1>12. CASE UpdateUpgrade \/ RebaseUpgrade
  BY <1>12, UpgradesEffect
<1>13. CASE ResumeRolledBack \/ ResumeCreated \/ Quiesced
  BY <1>13 DEF ResumeRolledBack, ResumeCreated, Quiesced
<1>14. CASE ResumeRebasing \/ RebaseReadback
  BY <1>14, RebaseEffect, RebasedEffect
<1>16. CASE ResumeOldStopped \/ StartedNew \/ ResumeStarted
  BY <1>16 DEF ResumeOldStopped, StartedNew, ResumeStarted
<1>17. CASE WaitHealth \/ Confirm \/ ResumeRollback
  BY <1>17 DEF WaitHealth, Confirm, ResumeRollback
<1>18. CASE Finish
  BY <1>18 DEF Finish
<1>19. CASE RollbackCheck \/ RollbackWait
  BY <1>19 DEF RollbackCheck, RollbackWait
<1>20. CASE VmStep \/ Crash \/ \E v \in VMs: VmExit(v)
  BY <1>20 DEF VmStep, Settle, Crash, VmExit
<1>21. CASE UNCHANGED vars
  BY <1>21 DEF vars, history, history
<1> QED
  BY <1>1, <1>2, <1>3, <1>4, <1>5, <1>6, <1>7, <1>8, <1>9, <1>10,
     <1>11, <1>12, <1>13, <1>14, <1>16, <1>17, <1>18,
     <1>19, <1>20, <1>21
  DEF Next, Command, DriverStep

-----------------------------------------------------------------------------
(* How the set of copies changes: a step takes one VM away, or it is one   *)
(* of the three starts and adds the VM it starts.                          *)
Booted(v) ==
    \/ driver.pc \in {"startVm", "updateStart"} /\ v = journal.vm
    \/ driver.pc = "startNew" /\ v = journal.new
    \/ driver.pc = "startOld" /\ v = journal.old

CopiesChange ==
    \/ Copies' = Copies
    \/ \E v \in Copies: Copies' = Copies \ {v}
    \/ \E v \in VMs: Booted(v) /\ Copies' = Copies \cup {v}

LEMMA StartsAdd ==
    ASSUME TypeOK, NEW v, status' \in {status, Starting(v)}
    PROVE  Copies' = Copies \/ (v \in VMs /\ Copies' = Copies \cup {v})
<1>1. CASE v \in VMs
  BY <1>1 DEF TypeOK, Starting, Copies, Terminal, Statuses
<1>2. CASE v \notin VMs
  <2>1. status' = status
    BY <1>2 DEF TypeOK, Starting
  <2> QED
    BY <2>1 DEF Copies
<1> QED
  BY <1>1, <1>2

LEMMA StopsKeep ==
    ASSUME TypeOK, NEW v, status' \in {status, Stopping(v)}
    PROVE  Copies' = Copies /\ Existing' = Existing
<1>1. CASE v \in VMs
  BY <1>1 DEF TypeOK, Stopping, Copies, Existing, Terminal, Statuses
<1>2. CASE v \notin VMs
  <2>1. status' = status
    BY <1>2 DEF TypeOK, Stopping
  <2> QED
    BY <2>1 DEF Copies, Existing
<1> QED
  BY <1>1, <1>2

LEMMA StatusKept ==
    ASSUME UNCHANGED status
    PROVE  Copies' = Copies /\ Existing' = Existing
BY DEF Copies, Existing

LEMMA CopiesStep ==
    ASSUME TypeOK, [Next]_vars
    PROVE  CopiesChange
<1> USE DEF Gate, At, Go, Run, Die, Abort, Reads, history, Resume, Phase,
        Idle, RollBack, Rebased, RollbackFailed, EndRollback
<1>1. CASE Deploy \/ Start \/ Update \/ Rollback
  BY <1>1, StatusKept DEF Deploy, Start, Update, Rollback, CopiesChange
<1>2. CASE \E h \in Hashes: ReplaceNew(h) \/ ReplaceResume(h)
  BY <1>2, StatusKept DEF ReplaceNew, Allocate, ReplaceResume, Resuming,
     CopiesChange
<1>3. CASE DeploySave \/ UpdateSave \/ ReplaceSave
  BY <1>3, StatusKept DEF DeploySave, UpdateSave, ReplaceSave, CopiesChange
<1>4. CASE DeployCreate \/ ReplaceCreate
  <2>1. Copies' = Copies
    BY <1>4, CreateVmEffect DEF DeployCreate, ReplaceCreate, Copies, TypeOK
  <2> QED
    BY <2>1 DEF CopiesChange
<1>5. CASE UpdateStop \/ StopOld \/ StopNew
  BY <1>5, StopsKeep DEF UpdateStop, StopOld, StopNew, RequestStop, CopiesChange
<1>6. CASE UpdateWait \/ WaitOld \/ WaitNew
  BY <1>6, StatusKept DEF UpdateWait, WaitOld, WaitNew, AwaitStop, CopiesChange
<1>7. CASE StartCvm \/ UpdateStart \/ StartNew \/ StartOld
  BY <1>7, StartsAdd, StatusKept DEF StartCvm, UpdateStart, StartNew, StartOld,
     StartVm, CopiesChange, Booted
<1>8. CASE UpdateUpgrade \/ RebaseUpgrade
  BY <1>8, StatusKept DEF UpdateUpgrade, RebaseUpgrade, Upgrade, CopiesChange
<1>9. CASE ResumeRebasing \/ RebaseReadback
  BY <1>9, StatusKept DEF ResumeRebasing, RebaseReadback, CopiesChange
<1>10. CASE ResumeRolledBack \/ ResumeCreated \/ Quiesced \/ ResumeOldStopped
  BY <1>10, StatusKept DEF ResumeRolledBack, ResumeCreated, Quiesced,
     ResumeOldStopped, CopiesChange
<1>11. CASE StartedNew \/ ResumeStarted \/ WaitHealth \/ Confirm
  BY <1>11, StatusKept DEF StartedNew, ResumeStarted, WaitHealth, Confirm,
     CopiesChange
<1>12. CASE ResumeRollback \/ RollbackCheck \/ RollbackWait \/ Finish
  BY <1>12, StatusKept DEF ResumeRollback, RollbackCheck, RollbackWait, Finish,
     CopiesChange
<1>13. CASE Crash
  BY <1>13, StatusKept DEF Crash, CopiesChange
<1>14. CASE VmStep \/ \E v \in VMs: VmExit(v)
  <2>1. PICK v \in VMs: Settle(v) \/ VmExit(v)
    BY <1>14 DEF VmStep
  <2>2. Copies' = Copies \/ (v \in Copies /\ Copies' = Copies \ {v})
    BY <2>1 DEF Settle, VmExit, Copies, TypeOK
  <2> QED
    BY <2>2 DEF CopiesChange
<1>15. CASE UNCHANGED vars
  BY <1>15, StatusKept DEF vars, history, CopiesChange
<1> QED
  BY <1>1, <1>2, <1>3, <1>4, <1>5, <1>6, <1>7, <1>8, <1>9, <1>10,
     <1>11, <1>12, <1>13, <1>14, <1>15
  DEF Next, Command, DriverStep

-----------------------------------------------------------------------------
(* Whose turn it is: outside a cutover only the recorded VM may be up, a   *)
(* start of either side finds nothing up, and a verified replacement is up *)
(* alone.  All of this holds until start is run during an open             *)
(* replacement, and again once a new replacement found one VM up alone.    *)
Turns ==
    /\ journal.phase \in {"none", "creating"} => Copies \subseteq {journal.vm}
    /\ driver.pc \in {"startNew", "startOld"} => Copies = {}
    /\ journal.phase = "verified" => Copies \subseteq {journal.new}

StartsOutside == driver.pc = "startVm" => journal.phase = "none"

LEMMA ActiveIsCopies == Active = Copies
BY DEF Active, Copies, Terminal

LEMMA StartsOutsideStep ==
    ASSUME TypeOK, ~stray => StartsOutside, ~stray', [Next]_vars
    PROVE  StartsOutside'
<1> USE DEF Gate, At, Go, Run, Die, Abort, Reads, history, Resume, Phase,
        Idle, RollBack, Rebased, RollbackFailed, EndRollback
<1> USE DEF StartsOutside, TypeOK
<1>1. CASE Deploy \/ Start \/ Update \/ Rollback
  BY <1>1 DEF Deploy, Start, Update, Rollback
<1>2. CASE \E h \in Hashes: ReplaceNew(h) \/ ReplaceResume(h)
  BY <1>2 DEF ReplaceNew, Allocate, ReplaceResume, Resuming
<1>3. CASE DeploySave \/ UpdateSave \/ ReplaceSave
  BY <1>3 DEF DeploySave, UpdateSave, ReplaceSave
<1>4. CASE DeployCreate \/ ReplaceCreate
  BY <1>4, CreateVmEffect DEF DeployCreate, ReplaceCreate
<1>5. CASE UpdateStop \/ StopOld \/ StopNew
  BY <1>5 DEF UpdateStop, StopOld, StopNew, RequestStop
<1>6. CASE UpdateWait \/ WaitOld \/ WaitNew
  BY <1>6 DEF UpdateWait, WaitOld, WaitNew, AwaitStop
<1>7. CASE StartCvm \/ UpdateStart \/ StartNew \/ StartOld
  BY <1>7 DEF StartCvm, UpdateStart, StartNew, StartOld, StartVm
<1>8. CASE UpdateUpgrade \/ RebaseUpgrade
  BY <1>8, UpgradesEffect
<1>9. CASE ResumeRebasing \/ RebaseReadback
  BY <1>9, RebaseEffect
<1>10. CASE ResumeRolledBack \/ ResumeCreated \/ Quiesced \/ ResumeOldStopped
  BY <1>10 DEF ResumeRolledBack, ResumeCreated, Quiesced, ResumeOldStopped
<1>11. CASE StartedNew \/ ResumeStarted \/ WaitHealth \/ Confirm
  BY <1>11 DEF StartedNew, ResumeStarted, WaitHealth, Confirm
<1>12. CASE ResumeRollback \/ RollbackCheck \/ RollbackWait \/ Finish
  BY <1>12 DEF ResumeRollback, RollbackCheck, RollbackWait, Finish
<1>13. CASE Crash
  BY <1>13 DEF Crash
<1>14. CASE VmStep \/ \E v \in VMs: VmExit(v)
  BY <1>14 DEF VmStep, Settle, VmExit
<1>15. CASE UNCHANGED vars
  BY <1>15 DEF vars, history, history
<1> QED
  BY <1>1, <1>2, <1>3, <1>4, <1>5, <1>6, <1>7, <1>8, <1>9, <1>10,
     <1>11, <1>12, <1>13, <1>14, <1>15
  DEF Next, Command, DriverStep

(* Only start raises the flag, and only a new replacement lowers it.       *)
LEMMA StrayStep ==
    ASSUME TypeOK, [Next]_vars, ~UNCHANGED stray
    PROVE  /\ UNCHANGED status
           /\ stray' = TRUE \/ \E h \in Hashes: ReplaceNew(h) /\ stray' = FALSE
<1> USE DEF Gate, Reads, history, Abort
<1>1. CASE Deploy \/ Update \/ Rollback
  BY <1>1 DEF Deploy, Update, Rollback
<1>2. CASE Start
  BY <1>2 DEF Start, TypeOK
<1>3. ASSUME NEW h \in Hashes, ReplaceNew(h)
      PROVE  stray' = FALSE /\ UNCHANGED status
  BY <1>3 DEF ReplaceNew, Allocate
<1>4. ASSUME NEW h \in Hashes, ReplaceResume(h) PROVE FALSE
  BY <1>4 DEF ReplaceResume, Resuming
<1>5. CASE DeploySave \/ UpdateSave \/ ReplaceSave \/ Finish
  BY <1>5 DEF DeploySave, UpdateSave, ReplaceSave, Finish
<1>6. CASE DeployCreate \/ ReplaceCreate
  BY <1>6 DEF DeployCreate, ReplaceCreate, CreateVm
<1>7. CASE UpdateStop \/ StopOld \/ StopNew \/ UpdateWait \/ WaitOld \/ WaitNew
  BY <1>7 DEF UpdateStop, StopOld, StopNew, RequestStop, UpdateWait, WaitOld,
     WaitNew, AwaitStop
<1>8. CASE StartCvm \/ UpdateStart \/ StartNew \/ StartOld
  BY <1>8 DEF StartCvm, UpdateStart, StartNew, StartOld, StartVm
<1>9. CASE UpdateUpgrade \/ RebaseUpgrade \/ ResumeRebasing \/ RebaseReadback
  BY <1>9 DEF UpdateUpgrade, RebaseUpgrade, Upgrade, ResumeRebasing,
     RebaseReadback
<1>10. CASE ResumeRolledBack \/ ResumeCreated \/ Quiesced \/ ResumeOldStopped
  BY <1>10 DEF ResumeRolledBack, ResumeCreated, Quiesced, ResumeOldStopped
<1>11. CASE StartedNew \/ ResumeStarted \/ WaitHealth \/ Confirm
  BY <1>11 DEF StartedNew, ResumeStarted, WaitHealth, Confirm
<1>12. CASE ResumeRollback \/ RollbackCheck \/ RollbackWait
  BY <1>12 DEF ResumeRollback, RollbackCheck, RollbackWait
<1>13. CASE Crash \/ VmStep \/ \E v \in VMs: VmExit(v)
  BY <1>13 DEF Crash, VmStep, Settle, VmExit
<1>14. CASE UNCHANGED vars
  BY <1>14 DEF vars, history
<1> QED
  BY <1>1, <1>2, <1>3, <1>4, <1>5, <1>6, <1>7, <1>8, <1>9, <1>10,
     <1>11, <1>12, <1>13, <1>14
  DEF Next, Command, DriverStep

LEMMA TurnsStep ==
    ASSUME TypeOK, StepPhase, JournalShape, StartsOutside, Turns, [Next]_vars
    PROVE  Turns'
<1> USE DEF Gate, At, Go, Run, Die, Abort, Reads, history, Resume, Phase,
        Idle, RollBack, Rebased, RollbackFailed, EndRollback, NoJournal,
        TypeOK, StepPhase, JournalShape, UpdateSteps, RollbackSteps, StopSteps
<1> USE NoneAssumption
<1>0. /\ Copies' \subseteq Copies \/ \E v \in VMs: Booted(v) /\ Copies' = Copies \cup {v}
      /\ Active = Copies
  BY CopiesStep, ActiveIsCopies DEF CopiesChange
<1> USE DEF Booted, Turns, StartsOutside
<1>1. CASE Deploy \/ Start \/ Update \/ Rollback
  BY <1>1, <1>0, StartEffect DEF Deploy, Update, Rollback
<1>2. CASE \E h \in Hashes: ReplaceNew(h) \/ ReplaceResume(h)
  <2>1. ASSUME NEW h \in Hashes, ReplaceNew(h) PROVE Turns'
    <3>1. /\ journal'.vm = journal.vm /\ journal'.phase = "creating"
          /\ journal.phase = "none" /\ driver'.pc = "replaceCreate"
          /\ UNCHANGED status
      BY <2>1 DEF ReplaceNew, Allocate
    <3> QED
      BY <3>1, StatusKept
  <2>2. ASSUME NEW h \in Hashes, ReplaceResume(h) PROVE Turns'
    <3>1. /\ driver'.pc = "resume" /\ UNCHANGED status
          /\ \/ journal' = journal
             \/ journal'.phase = "rebasing"
      BY <2>2 DEF ReplaceResume, Resuming, RebaseTo
    <3> QED
      BY <3>1, StatusKept
  <2> QED
    BY <1>2, <2>1, <2>2
<1>3. CASE DeploySave
  <2>1. journal'.phase = "none" /\ driver'.pc = "idle"
    BY <1>3 DEF DeploySave
  <2>3. Copies \subseteq VMs
    BY DEF Copies
  <2>4. Copies = {}
    BY <1>3, <2>3 DEF DeploySave
  <2>2. Copies' = Copies
    BY <1>3, StatusKept DEF DeploySave
  <2> QED
    BY <2>1, <2>2, <2>4
<1>4. CASE UpdateSave
  BY <1>4, <1>0 DEF UpdateSave
<1>5. CASE ReplaceSave
  BY <1>5, <1>0 DEF ReplaceSave
<1>6. CASE DeployCreate \/ ReplaceCreate
  BY <1>6, <1>0, CreateVmEffect DEF DeployCreate, ReplaceCreate
<1>7. CASE UpdateStop \/ StopOld \/ StopNew
  BY <1>7, <1>0 DEF UpdateStop, StopOld, StopNew, RequestStop
<1>8. CASE UpdateWait \/ WaitOld \/ WaitNew
  BY <1>8, <1>0 DEF UpdateWait, WaitOld, WaitNew, AwaitStop
<1>9. CASE StartCvm \/ UpdateStart \/ StartNew \/ StartOld
  BY <1>9, <1>0 DEF StartCvm, UpdateStart, StartNew, StartOld, StartVm
<1>10. CASE UpdateUpgrade \/ RebaseUpgrade
  BY <1>10, <1>0, UpgradesEffect
<1>11. CASE ResumeRebasing \/ RebaseReadback
  BY <1>11, <1>0, RebaseEffect, RebasedEffect
<1>12. CASE ResumeRolledBack \/ ResumeCreated \/ Quiesced \/ ResumeOldStopped
  BY <1>12, <1>0 DEF ResumeRolledBack, ResumeCreated, Quiesced, ResumeOldStopped
<1>13. CASE StartedNew \/ ResumeStarted \/ WaitHealth \/ Confirm
  BY <1>13, <1>0 DEF StartedNew, ResumeStarted, WaitHealth, Confirm
<1>14. CASE Finish
  BY <1>14, <1>0 DEF Finish
<1>15. CASE ResumeRollback \/ RollbackCheck \/ RollbackWait
  BY <1>15, <1>0 DEF ResumeRollback, RollbackCheck, RollbackWait
<1>16. CASE Crash
  BY <1>16, <1>0 DEF Crash
<1>17. CASE VmStep \/ \E v \in VMs: VmExit(v)
  <2>1. Copies' \subseteq Copies
    BY <1>17 DEF VmStep, Settle, VmExit, Copies
  <2> QED
    BY <1>17, <2>1 DEF VmStep, Settle, VmExit
<1>18. CASE UNCHANGED vars
  BY <1>18, StatusKept DEF vars, history, history
<1> QED
  BY <1>1, <1>2, <1>3, <1>4, <1>5, <1>6, <1>7, <1>8, <1>9, <1>10,
     <1>11, <1>12, <1>13, <1>14, <1>15, <1>16, <1>17, <1>18
  DEF Next, Command, DriverStep

-----------------------------------------------------------------------------
(* Only CreateVm brings a VM into being, and it tells the driver which.    *)
Creating == driver.pc \in {"deployCreate", "replaceCreate"}

ExistingChange ==
    \/ Existing' = Existing
    \/ /\ Creating /\ UNCHANGED <<journal, retired>>
       /\ \E v \in VMs \ Existing:
            /\ Existing' = Existing \cup {v}
            /\ \/ driver' = Idle
               \/ /\ driver'.pc \in {"deploySave", "replaceSave"}
                  /\ driver'.vm = v

LEMMA ExistingStep ==
    ASSUME TypeOK, [Next]_vars
    PROVE  ExistingChange
<1> USE DEF Gate, At, Go, Run, Die, Abort, Reads, history, Resume, Phase,
        Idle, RollBack, Rebased, RollbackFailed, EndRollback
<1>1. CASE Deploy \/ Start \/ Update \/ Rollback
  BY <1>1, StatusKept DEF Deploy, Start, Update, Rollback, ExistingChange
<1>2. CASE \E h \in Hashes: ReplaceNew(h) \/ ReplaceResume(h)
  BY <1>2, StatusKept DEF ReplaceNew, Allocate, ReplaceResume, Resuming,
     ExistingChange
<1>3. CASE DeploySave \/ UpdateSave \/ ReplaceSave
  BY <1>3, StatusKept DEF DeploySave, UpdateSave, ReplaceSave, ExistingChange
<1>4. CASE DeployCreate \/ ReplaceCreate
  <2>1. CASE UNCHANGED status
    BY <2>1, StatusKept DEF ExistingChange
  <2>2. CASE status' # status
    <3>1. PICK v \in VMs:
            /\ status[v] = "absent"
            /\ status' = [status EXCEPT ![v] = "stopped"]
            /\ driver' = Idle \/ \E pc \in {"deploySave", "replaceSave"}:
                 driver' = [pc |-> pc, hash |-> driver.hash, vm |-> v]
            /\ UNCHANGED <<journal, retired>>
      BY <1>4, <2>2, CreateVmEffect DEF DeployCreate, ReplaceCreate
    <3>2. v \notin Existing /\ Existing' = Existing \cup {v}
      BY <3>1 DEF Existing, TypeOK
    <3> QED
      BY <1>4, <3>1, <3>2 DEF ExistingChange, Creating, DeployCreate, ReplaceCreate
  <2> QED
    BY <2>1, <2>2
<1>5. CASE UpdateStop \/ StopOld \/ StopNew
  BY <1>5, StopsKeep DEF UpdateStop, StopOld, StopNew, RequestStop,
     ExistingChange
<1>6. CASE UpdateWait \/ WaitOld \/ WaitNew
  BY <1>6, StatusKept DEF UpdateWait, WaitOld, WaitNew, AwaitStop, ExistingChange
<1>7. CASE StartCvm \/ UpdateStart \/ StartNew \/ StartOld
  <2>1. PICK v: status' \in {status, Starting(v)}
    BY <1>7 DEF StartCvm, UpdateStart, StartNew, StartOld, StartVm
  <2>2. Existing' = Existing
    BY <2>1 DEF Existing, Starting, Terminal, TypeOK
  <2> QED
    BY <2>2 DEF ExistingChange
<1>8. CASE UpdateUpgrade \/ RebaseUpgrade
  BY <1>8, StatusKept DEF UpdateUpgrade, RebaseUpgrade, Upgrade, ExistingChange
<1>9. CASE ResumeRebasing \/ RebaseReadback
  BY <1>9, StatusKept DEF ResumeRebasing, RebaseReadback, ExistingChange
<1>10. CASE ResumeRolledBack \/ ResumeCreated \/ Quiesced \/ ResumeOldStopped
  BY <1>10, StatusKept DEF ResumeRolledBack, ResumeCreated, Quiesced,
     ResumeOldStopped, ExistingChange
<1>11. CASE StartedNew \/ ResumeStarted \/ WaitHealth \/ Confirm
  BY <1>11, StatusKept DEF StartedNew, ResumeStarted, WaitHealth, Confirm,
     ExistingChange
<1>12. CASE ResumeRollback \/ RollbackCheck \/ RollbackWait \/ Finish
  BY <1>12, StatusKept DEF ResumeRollback, RollbackCheck, RollbackWait, Finish,
     ExistingChange
<1>13. CASE Crash
  BY <1>13, StatusKept DEF Crash, ExistingChange
<1>14. CASE VmStep \/ \E v \in VMs: VmExit(v)
  <2>1. Existing' = Existing
    BY <1>14 DEF VmStep, Settle, VmExit, Existing, TypeOK
  <2> QED
    BY <2>1 DEF ExistingChange
<1>15. CASE UNCHANGED vars
  BY <1>15, StatusKept DEF vars, history, ExistingChange
<1> QED
  BY <1>1, <1>2, <1>3, <1>4, <1>5, <1>6, <1>7, <1>8, <1>9, <1>10,
     <1>11, <1>12, <1>13, <1>14, <1>15
  DEF Next, Command, DriverStep

(* Every VM that exists is accounted for.  While a CreateVm is open there  *)
(* is at most the VM it made.                                              *)
Recorded ==
    /\ journal.vm # NoVm => journal.vm \in Existing
    /\ journal.new # NoVm => journal.new \in Existing \ {journal.vm}
    /\ driver.pc \in {"deploySave", "replaceSave"} =>
          driver.vm \in Existing \ {journal.vm} /\ Unrecorded \subseteq {driver.vm}
    /\ Creating => Unrecorded = {}
    /\ ~journal.deploying /\ journal.phase # "creating" => Unrecorded = {}
    /\ \A v, w \in Unrecorded: v = w

LEMMA UnrecordedIs ==
    Unrecorded = Existing \ (retired \cup {journal.vm, journal.new})
BY DEF Unrecorded, Existing

LEMMA UnrecordedIsNext ==
    Unrecorded' = Existing' \ (retired' \cup {journal'.vm, journal'.new})
BY DEF Unrecorded, Existing

(* A step that creates nothing and records the same VMs.                   *)
LEMMA RecordsKept ==
    ASSUME Recorded, JournalShape, Existing' = Existing, UNCHANGED retired,
           journal'.vm = journal.vm, journal'.new = journal.new,
           driver'.pc \in {"deploySave", "replaceSave"} =>
              UNCHANGED <<driver, journal>>,
           (Creating' \/ (~journal'.deploying /\ journal'.phase # "creating")) =>
              Unrecorded = {}
    PROVE  Recorded'
BY UnrecordedIs, UnrecordedIsNext DEF Recorded

LEMMA RecordedStep ==
    ASSUME TypeOK, StepPhase, JournalShape, Recorded, [Next]_vars
    PROVE  Recorded'
<1> USE DEF Gate, At, Go, Run, Die, Abort, Reads, history, Resume, Phase,
        Idle, RollBack, Rebased, RollbackFailed, EndRollback, NoJournal,
        TypeOK, StepPhase, JournalShape, UpdateSteps, RollbackSteps, StopSteps
<1> USE NoneAssumption
<1> USE DEF Creating
<1> HIDE DEF JournalShape
<1>0. \/ Existing' = Existing
      \/ /\ Creating /\ UNCHANGED <<journal, retired>>
         /\ \E v \in VMs \ Existing:
              /\ Existing' = Existing \cup {v}
              /\ \/ driver' = Idle
                 \/ /\ driver'.pc \in {"deploySave", "replaceSave"}
                    /\ driver'.vm = v
  BY ExistingStep DEF ExistingChange
<1>k. ASSUME Existing' = Existing, UNCHANGED retired,
             journal'.vm = journal.vm, journal'.new = journal.new,
             driver'.pc \notin {"deploySave", "replaceSave", "deployCreate",
                               "replaceCreate"},
             ~journal'.deploying /\ journal'.phase # "creating" =>
               ~journal.deploying /\ journal.phase # "creating"
      PROVE  Recorded'
  BY <1>k, RecordsKept DEF Recorded
<1>1. CASE Deploy
  <2>1. /\ Unrecorded = {} /\ UNCHANGED <<retired, status>>
        /\ journal'.vm = journal.vm /\ journal'.new = journal.new
        /\ driver'.pc = "deployCreate"
    BY <1>1 DEF Deploy, Recorded
  <2> QED
    BY <2>1, StatusKept, RecordsKept
<1>2. CASE Start \/ Update
  BY <1>2, <1>k, StatusKept, StartEffect DEF Update
<1>3. CASE Rollback
  BY <1>3, <1>k, StatusKept DEF Rollback, JournalShape
<1>4. ASSUME NEW h \in Hashes, ReplaceNew(h) PROVE Recorded'
  <2>1. /\ UNCHANGED <<retired, status>>
        /\ journal'.vm = journal.vm /\ journal'.new = journal.new
        /\ driver'.pc = "replaceCreate"
    BY <1>4 DEF ReplaceNew, Allocate
  <2>2. Unrecorded = {}
    BY <1>4 DEF ReplaceNew, Allocate, Recorded, JournalShape
  <2> QED
    BY <2>1, <2>2, StatusKept, RecordsKept
<1>5. ASSUME NEW h \in Hashes, ReplaceResume(h) PROVE Recorded'
  <2>1. /\ UNCHANGED <<retired, status>>
        /\ journal'.vm = journal.vm /\ journal'.new = journal.new
        /\ driver'.pc = "resume"
    BY <1>5 DEF ReplaceResume, Resuming, RebaseTo
  <2>2. ~journal.deploying /\ journal.phase # "creating"
    BY <1>5 DEF ReplaceResume, Resuming, JournalShape
  <2> QED
    BY <2>1, <2>2, StatusKept, <1>k
<1>6. CASE DeployCreate \/ ReplaceCreate
  <2>1. PICK v \in VMs:
          /\ status[v] = "absent"
          /\ \/ driver' = Idle /\ status' = status
             \/ /\ status' = [status EXCEPT ![v] = "stopped"]
                /\ \/ driver' = Idle
                   \/ \E pc \in {"deploySave", "replaceSave"}:
                        driver' = [pc |-> pc, hash |-> driver.hash, vm |-> v]
    BY <1>6, CreateVmEffect DEF DeployCreate, ReplaceCreate
  <2>2. UNCHANGED <<journal, retired>>
    BY <1>6, CreateVmEffect DEF DeployCreate, ReplaceCreate
  <2>3. v \in VMs \ Existing
    BY <2>1 DEF Existing
  <2>4. \/ driver'.pc = "idle" /\ Existing' \in {Existing, Existing \cup {v}}
        \/ /\ driver'.pc \in {"deploySave", "replaceSave"} /\ driver'.vm = v
           /\ Existing' = Existing \cup {v}
    BY <2>1 DEF Existing
  <2>5. Unrecorded = {} /\ Unrecorded' \subseteq {v}
    BY <1>6, <2>2, <2>4, UnrecordedIs, UnrecordedIsNext
    DEF Recorded, DeployCreate, ReplaceCreate
  <2>6. journal.deploying \/ journal.phase = "creating"
    BY <1>6 DEF DeployCreate, ReplaceCreate
  <2> QED
    BY <2>2, <2>3, <2>4, <2>5, <2>6 DEF Recorded
<1>7. CASE DeploySave
  <2>1. /\ journal'.vm = driver.vm /\ journal'.new = journal.new
        /\ driver'.pc = "idle" /\ UNCHANGED <<retired, status>>
    BY <1>7 DEF DeploySave
  <2>2. journal.vm = NoVm /\ journal.new = NoVm
    BY <1>7 DEF DeploySave, JournalShape
  <2>3. driver.vm \in Existing /\ Unrecorded \subseteq {driver.vm}
    BY <1>7 DEF DeploySave, Recorded
  <2>4. Unrecorded' = {}
    BY <2>1, <2>2, <2>3, StatusKept, UnrecordedIs, UnrecordedIsNext
  <2> QED
    BY <2>1, <2>2, <2>3, <2>4, StatusKept DEF Recorded
<1>8. CASE ReplaceSave
  <2>1. /\ journal'.vm = journal.vm /\ journal'.new = driver.vm
        /\ driver'.pc = "resume" /\ UNCHANGED <<retired, status>>
    BY <1>8 DEF ReplaceSave
  <2>2. journal.new = NoVm
    BY <1>8 DEF ReplaceSave, JournalShape
  <2>3. driver.vm \in Existing \ {journal.vm} /\ Unrecorded \subseteq {driver.vm}
    BY <1>8 DEF ReplaceSave, Recorded
  <2>4. Unrecorded' = {}
    <3>1. Existing' = Existing /\ Existing \subseteq VMs
      BY <2>1, StatusKept DEF Existing
    <3>2. Unrecorded' = Existing \ (retired \cup {journal.vm, driver.vm})
      BY <2>1, <3>1, UnrecordedIsNext
    <3>3. Unrecorded = Existing \ (retired \cup {journal.vm})
      BY <2>2, <3>1, UnrecordedIs
    <3> QED
      BY <2>3, <3>2, <3>3
  <2> QED
    BY <2>1, <2>2, <2>3, <2>4, StatusKept DEF Recorded
<1>9. CASE UpdateSave
  BY <1>9, <1>k, StatusKept DEF UpdateSave
<1>10. CASE Finish
  <2>1. /\ journal'.vm = journal.new /\ journal'.new = NoVm
        /\ retired' = retired \cup {journal.old}
        /\ driver'.pc = "idle" /\ UNCHANGED status
    BY <1>10 DEF Finish
  <2>2. /\ journal.old = journal.vm /\ ~journal.deploying
        /\ journal.new # NoVm /\ journal.phase = "verified"
    BY <1>10 DEF Finish, JournalShape
  <2>3. Unrecorded = {} /\ journal.new \in Existing
    BY <2>2 DEF Recorded
  <2>4. Unrecorded' = {}
    <3>1. Existing' \subseteq VMs
      BY DEF Existing
    <3> QED
      BY <2>1, <2>2, <2>3, <3>1, StatusKept, UnrecordedIs, UnrecordedIsNext
  <2> QED
    BY <2>1, <2>2, <2>3, <2>4, StatusKept DEF Recorded
<1>11. CASE UpdateStop \/ StopOld \/ StopNew
  BY <1>11, <1>k, StopsKeep DEF UpdateStop, StopOld, StopNew, RequestStop
<1>12. CASE UpdateWait \/ WaitOld \/ WaitNew
  BY <1>12, <1>k, StatusKept DEF UpdateWait, WaitOld, WaitNew, AwaitStop
<1>13. CASE StartCvm \/ UpdateStart \/ StartNew \/ StartOld
  BY <1>13, <1>0, <1>k DEF StartCvm, UpdateStart, StartNew, StartOld, StartVm
<1>14. CASE UpdateUpgrade \/ RebaseUpgrade
  BY <1>14, <1>k, StatusKept, UpgradesEffect
<1>15. CASE ResumeRebasing \/ RebaseReadback
  <2>1. /\ journal'.vm = journal.vm /\ journal'.new = journal.new
        /\ UNCHANGED <<status, retired>>
        /\ driver'.pc \in {"idle", "upgrade", "resume"}
        /\ journal'.deploying = journal.deploying
    BY <1>15, RebaseEffect, RebasedEffect
  <2>2. journal.phase = "creating" => journal'.phase = "creating"
    BY <1>15, RebaseEffect
  <2> QED
    BY <2>1, <2>2, <1>k, StatusKept
<1>16. CASE ResumeRolledBack \/ ResumeCreated \/ Quiesced \/ ResumeOldStopped
  BY <1>16, <1>k, StatusKept DEF ResumeRolledBack, ResumeCreated, Quiesced,
     ResumeOldStopped
<1>17. CASE StartedNew \/ ResumeStarted \/ WaitHealth \/ Confirm
  BY <1>17, <1>k, StatusKept DEF StartedNew, ResumeStarted, WaitHealth, Confirm
<1>18. CASE ResumeRollback \/ RollbackCheck \/ RollbackWait
  BY <1>18, <1>k, StatusKept DEF ResumeRollback, RollbackCheck, RollbackWait
<1>19. CASE Crash
  BY <1>19, <1>k, StatusKept DEF Crash
<1>20. CASE VmStep \/ \E v \in VMs: VmExit(v)
  <2>1. Existing' = Existing /\ UNCHANGED <<journal, driver, retired>>
    BY <1>20 DEF VmStep, Settle, VmExit, Existing
  <2> QED
    BY <2>1, RecordsKept DEF Recorded
<1>21. CASE UNCHANGED vars
  BY <1>21, StatusKept, RecordsKept DEF vars, history, Recorded
<1> QED
  BY <1>1, <1>2, <1>3, <1>4, <1>5, <1>6, <1>7, <1>8, <1>9, <1>10,
     <1>11, <1>12, <1>13, <1>14, <1>15, <1>16, <1>17, <1>18,
     <1>19, <1>20, <1>21
  DEF Next, Command, DriverStep

-----------------------------------------------------------------------------
(* From the validation of a stopped replacement to the end of the cutover, *)
(* it carries the compose the journal names.                               *)
Measured ==
    \/ journal.phase \in {"old-stopped", "replacement-started", "verified"}
    \/ driver.pc \in StopSteps
    => compose[journal.new] = journal.target

LEMMA MeasuredStep ==
    ASSUME TypeOK, StepPhase, JournalShape, Measured, [Next]_vars
    PROVE  Measured'
<1> USE DEF Gate, At, Go, Run, Die, Abort, Reads, history, Resume, Phase,
        Idle, RollBack, Rebased, RollbackFailed, EndRollback, NoJournal,
        TypeOK, StepPhase, JournalShape, UpdateSteps, RollbackSteps, StopSteps
<1> USE NoneAssumption
<1> USE DEF Measured
<1>1. CASE Deploy \/ Start \/ Update \/ Rollback
  BY <1>1, StartEffect DEF Deploy, Update, Rollback
<1>2. ASSUME NEW h \in Hashes, ReplaceNew(h) PROVE Measured'
  <2>1. journal'.phase = "creating" /\ driver'.pc = "replaceCreate"
    BY <1>2 DEF ReplaceNew, Allocate
  <2> QED
    BY <2>1
<1>3. ASSUME NEW h \in Hashes, ReplaceResume(h) PROVE Measured'
  <2>1. /\ driver'.pc = "resume" /\ UNCHANGED compose
        /\ journal' = journal \/ journal'.phase = "rebasing"
    BY <1>3 DEF ReplaceResume, Resuming, RebaseTo
  <2> QED
    BY <2>1
<1>4. CASE DeployCreate \/ ReplaceCreate
  <2>1. /\ UNCHANGED journal
        /\ driver'.pc \in {"idle", "deploySave", "replaceSave"}
    BY <1>4, CreateVmEffect DEF DeployCreate, ReplaceCreate
  <2>2. journal.phase \in {"none", "creating"}
    BY <1>4 DEF DeployCreate, ReplaceCreate
  <2> QED
    BY <2>1, <2>2
<1>5. CASE DeploySave
  <2>1. journal'.phase = "none" /\ driver'.pc = "idle"
    BY <1>5 DEF DeploySave
  <2> QED
    BY <2>1
<1>6. CASE UpdateSave
  BY <1>6 DEF UpdateSave
<1>7. CASE ReplaceSave
  <2>1. journal'.phase = "created" /\ driver'.pc = "resume"
    BY <1>7 DEF ReplaceSave
  <2> QED
    BY <2>1
<1>8. CASE UpdateStop \/ StopOld \/ StopNew
  BY <1>8 DEF UpdateStop, StopOld, StopNew, RequestStop
<1>9. CASE UpdateWait \/ WaitOld \/ WaitNew
  BY <1>9 DEF UpdateWait, WaitOld, WaitNew, AwaitStop
<1>10. CASE StartCvm \/ UpdateStart \/ StartNew \/ StartOld
  BY <1>10 DEF StartCvm, UpdateStart, StartNew, StartOld, StartVm
<1>11. CASE UpdateUpgrade \/ RebaseUpgrade
  BY <1>11, UpgradesEffect
<1>12. CASE ResumeRebasing \/ RebaseReadback
  BY <1>12, RebaseEffect, RebasedEffect
<1>13. CASE ResumeRolledBack \/ ResumeCreated \/ Quiesced \/ ResumeOldStopped
  BY <1>13 DEF ResumeRolledBack, ResumeCreated, Quiesced, ResumeOldStopped,
     Validated
<1>14. CASE StartedNew \/ ResumeStarted \/ WaitHealth \/ Confirm
  BY <1>14 DEF StartedNew, ResumeStarted, WaitHealth, Confirm
<1>15. CASE Finish
  BY <1>15 DEF Finish
<1>16. CASE ResumeRollback \/ RollbackCheck \/ RollbackWait
  BY <1>16 DEF ResumeRollback, RollbackCheck, RollbackWait
<1>17. CASE Crash
  BY <1>17 DEF Crash
<1>18. CASE VmStep \/ \E v \in VMs: VmExit(v)
  BY <1>18 DEF VmStep, Settle, VmExit
<1>19. CASE UNCHANGED vars
  BY <1>19 DEF vars, history, history
<1> QED
  BY <1>1, <1>2, <1>3, <1>4, <1>5, <1>6, <1>7, <1>8, <1>9, <1>10,
     <1>11, <1>12, <1>13, <1>14, <1>15, <1>16, <1>17, <1>18, <1>19
  DEF Next, Command, DriverStep

(* The recorded VM changes only when deploy records the first one and when *)
(* a cutover is finished.                                                  *)
LEMMA OnlyFinishMoves ==
    ASSUME TypeOK, StepPhase, JournalShape, [Next]_vars,
           journal.vm # NoVm, journal'.vm # journal.vm
    PROVE  Finish
<1> USE DEF Gate, At, Go, Run, Die, Abort, Reads, history, Resume, Phase,
        Idle, RollBack, Rebased, RollbackFailed, EndRollback, NoJournal,
        TypeOK, StepPhase, JournalShape, UpdateSteps, RollbackSteps, StopSteps
<1> USE NoneAssumption
<1>1. CASE Deploy \/ Start \/ Update \/ Rollback
  BY <1>1 DEF Deploy, Start, Update, Rollback
<1>2. ASSUME NEW h \in Hashes, ReplaceNew(h) PROVE FALSE
  BY <1>2 DEF ReplaceNew, Allocate
<1>3. ASSUME NEW h \in Hashes, ReplaceResume(h) PROVE FALSE
  BY <1>3 DEF ReplaceResume, Resuming, RebaseTo
<1>4. CASE DeployCreate \/ ReplaceCreate
  BY <1>4, CreateVmEffect DEF DeployCreate, ReplaceCreate
<1>5. CASE DeploySave
  BY <1>5 DEF DeploySave
<1>6. CASE UpdateSave
  BY <1>6 DEF UpdateSave
<1>7. CASE ReplaceSave
  <2>1. journal'.vm = journal.vm
    BY <1>7 DEF ReplaceSave
  <2> QED
    BY <2>1
<1>8. CASE UpdateStop \/ StopOld \/ StopNew
  BY <1>8 DEF UpdateStop, StopOld, StopNew, RequestStop
<1>9. CASE UpdateWait \/ WaitOld \/ WaitNew
  BY <1>9 DEF UpdateWait, WaitOld, WaitNew, AwaitStop
<1>10. CASE StartCvm \/ UpdateStart \/ StartNew \/ StartOld
  BY <1>10 DEF StartCvm, UpdateStart, StartNew, StartOld, StartVm
<1>11. CASE UpdateUpgrade \/ RebaseUpgrade
  BY <1>11, UpgradesEffect
<1>12. CASE ResumeRebasing \/ RebaseReadback
  BY <1>12, RebaseEffect, RebasedEffect
<1>13. CASE ResumeRolledBack \/ ResumeCreated \/ Quiesced \/ ResumeOldStopped
  BY <1>13 DEF ResumeRolledBack, ResumeCreated, Quiesced, ResumeOldStopped
<1>14. CASE StartedNew \/ ResumeStarted \/ WaitHealth \/ Confirm
  BY <1>14 DEF StartedNew, ResumeStarted, WaitHealth, Confirm
<1>15. CASE ResumeRollback \/ RollbackCheck \/ RollbackWait
  BY <1>15 DEF ResumeRollback, RollbackCheck, RollbackWait
<1>16. CASE Crash
  BY <1>16 DEF Crash
<1>17. CASE VmStep \/ \E v \in VMs: VmExit(v)
  BY <1>17 DEF VmStep, Settle, VmExit
<1>18. CASE UNCHANGED vars
  BY <1>18 DEF vars, history, history
<1> QED
  BY <1>1, <1>2, <1>3, <1>4, <1>5, <1>6, <1>7, <1>8, <1>9, <1>10,
     <1>11, <1>12, <1>13, <1>14, <1>15, <1>16, <1>17, <1>18
  DEF Next, Command, DriverStep

-----------------------------------------------------------------------------
(* The inductive invariant, and the part that is off after a start during  *)
(* an open replacement.                                                    *)
Inv == TypeOK /\ StepPhase /\ JournalShape /\ Recorded /\ Measured

TurnInv == ~stray => StartsOutside /\ Turns

LEMMA InitInv == Init => Inv /\ TurnInv
<1> SUFFICES ASSUME Init PROVE Inv /\ TurnInv
  OBVIOUS
<1> USE DEF Init, NoJournal, Idle
<1> USE FaultsAssumption, NoneAssumption
<1>1. TypeOK
  <2>1. retired \subseteq VMs /\ faults \in 0..MaxFaults
    OBVIOUS
  <2>3. stray \in BOOLEAN
    OBVIOUS
  <2>2. /\ status \in [VMs -> Statuses]
        /\ compose \in [VMs -> Hashes \cup {NoHash}]
    BY DEF Statuses
  <2> QED
    BY <2>1, <2>2, <2>3 DEF TypeOK, Phases, Steps
<1>2. StepPhase /\ JournalShape
  BY DEF StepPhase, JournalShape, UpdateSteps, RollbackSteps, StopSteps
<1>3. Existing = {} /\ Copies = {} /\ Unrecorded = {}
  BY DEF Existing, Copies, Unrecorded
<1>4. Recorded /\ Measured
  BY <1>3 DEF Recorded, Measured, Creating, StopSteps
<1>5. TurnInv
  BY <1>3 DEF TurnInv, StartsOutside, Turns
<1> QED
  BY <1>1, <1>2, <1>4, <1>5 DEF Inv

LEMMA InvStep == Inv /\ [Next]_vars => Inv'
BY TypeStep, StepPhaseStep, JournalShapeStep, RecordedStep, MeasuredStep DEF Inv

LEMMA Invariance == Spec => []Inv
BY InitInv, InvStep, PTL DEF Spec

(* The state file, the driver and the VMM's answers keep their types.      *)
THEOREM TypeCorrect == Spec => []TypeOK
BY Invariance, PTL DEF Inv

(* No VM is lost: CreateVm is not repeated over an unknown outcome, and    *)
(* every other VM is in the state file or was retired.                     *)
THEOREM VmsKept == Spec => []NoVmLost
<1>1. Inv => NoVmLost
  BY DEF Inv, Recorded, NoVmLost
<1> QED
  BY <1>1, Invariance, PTL

(* The turns are kept, and a new replacement, which finds the recorded VM  *)
(* up alone, restores them.                                                *)
LEMMA TurnInvStep ==
    ASSUME Inv, TurnInv, [Next]_vars
    PROVE  TurnInv'
<1>1. ASSUME ~stray', stray PROVE TurnInv'
  <2>1. PICK h \in Hashes: ReplaceNew(h)
    BY <1>1, StrayStep DEF Inv, TypeOK
  <2>2. /\ Copies = {journal.vm} /\ UNCHANGED status
        /\ journal'.vm = journal.vm /\ journal'.phase = "creating"
        /\ driver'.pc = "replaceCreate"
    BY <2>1, ActiveIsCopies DEF Inv, TypeOK, ReplaceNew, Allocate, Run
  <2> QED
    BY <2>2, StatusKept DEF TurnInv, StartsOutside, Turns
<1>2. ASSUME ~stray', ~stray PROVE TurnInv'
  BY <1>2, StartsOutsideStep, TurnsStep DEF Inv, TurnInv
<1> QED
  BY <1>1, <1>2 DEF TurnInv

LEMMA TurnInvariance == Spec => []TurnInv
<1>1. Inv /\ TurnInv /\ [Next]_vars => TurnInv'
  BY TurnInvStep
<1> QED
  BY <1>1, InitInv, Invariance, PTL DEF Spec

(* The node's VM changes only to a replacement whose compose the journal   *)
(* then records, and leaves the old VM down unless start was run while the *)
(* replacement was open.                                                   *)
THEOREM HandsOver == Spec => HandOver
<1>1. Inv /\ TurnInv /\ [Next]_vars =>
        [journal.vm # NoVm /\ journal'.vm # journal.vm =>
            /\ journal'.vm \in VMs /\ journal'.h = compose[journal'.vm]
            /\ stray \/ status[journal.vm] \in {"stopped", "exited"}]_vars
  <2> SUFFICES ASSUME Inv, TurnInv, [Next]_vars,
                      journal.vm # NoVm, journal'.vm # journal.vm
               PROVE  /\ journal'.vm \in VMs
                      /\ journal'.h = compose[journal'.vm]
                      /\ stray \/ status[journal.vm] \in {"stopped", "exited"}
    OBVIOUS
  <2>1. Finish
    BY OnlyFinishMoves DEF Inv
  <2>2. journal'.vm = journal.new /\ journal'.h = journal.target
    BY <2>1 DEF Finish, NoJournal
  <2>3. /\ journal.new \in VMs /\ journal.new # journal.vm
        /\ journal.vm \in Existing
    BY <2>1 DEF Inv, TypeOK, JournalShape, Recorded, Finish, Resume
  <2>4. stray \/ journal.vm \notin Copies
    BY <2>1, <2>3 DEF TurnInv, Turns, Finish, Resume
  <2>5. stray \/ status[journal.vm] \in {"stopped", "exited"}
    BY <2>3, <2>4 DEF Existing, Copies
  <2>6. compose[journal.new] = journal.target
    BY <2>1 DEF Inv, Measured, Finish, Resume
  <2> QED
    BY <2>2, <2>3, <2>5, <2>6
<1> QED
  BY <1>1, Invariance, TurnInvariance, PTL DEF Spec, HandOver

(* Refinement: however the commands are used, they implement ExclusiveApp: *)
(* a start during an open replacement is a Force, the allocation of a new  *)
(* replacement finds one VM up Alone, and every other VM comes up in turn. *)
THEOREM Implements == Spec => Exclusive
<1>1. Init => App!Init
  BY DEF Init, App!Init, Copies
<1>2. Inv /\ TurnInv /\ [Next]_vars => [App!Next]_(App!vars)
  <2> SUFFICES ASSUME Inv, TurnInv, [Next]_vars
               PROVE  [App!Next]_(App!vars)
    OBVIOUS
  <2>1. CASE ~UNCHANGED stray
    <3>1. /\ Copies' = Copies
          /\ stray' = TRUE \/ \E h \in Hashes: ReplaceNew(h) /\ stray' = FALSE
      BY <2>1, StrayStep, StatusKept DEF Inv
    <3>2. CASE stray' = TRUE
      BY <3>1, <3>2 DEF App!Next, App!Force
    <3>3. ASSUME NEW h \in Hashes, ReplaceNew(h), stray' = FALSE
          PROVE  App!Next
      <4>1. Copies = {journal.vm} /\ journal.vm \in VMs
        BY <3>3, ActiveIsCopies DEF Inv, TypeOK, ReplaceNew, Allocate
      <4> QED
        BY <3>1, <3>3, <4>1 DEF App!Next, App!Alone
    <3> QED
      BY <3>1, <3>2, <3>3
  <2>2. CASE UNCHANGED stray
    <3>1. CopiesChange
      BY CopiesStep DEF Inv
    <3>2. CASE Copies' = Copies
      BY <2>2, <3>2 DEF App!vars
    <3>3. ASSUME NEW v \in Copies, Copies' = Copies \ {v}
          PROVE  App!Next
      <4>1. v \in VMs
        BY DEF Copies
      <4> QED
        BY <2>2, <3>3, <4>1 DEF App!Next, App!Halt
    <3>4. ASSUME NEW v \in VMs, Booted(v), Copies' = Copies \cup {v}
          PROVE  App!Next
      <4>1. stray \/ Copies \subseteq {v}
        BY <3>4 DEF Booted, Inv, TurnInv, Turns, StartsOutside, StepPhase,
           UpdateSteps
      <4> QED
        BY <2>2, <3>4, <4>1 DEF App!Next, App!Boot
    <3> QED
      BY <3>1, <3>2, <3>3, <3>4 DEF CopiesChange
  <2> QED
    BY <2>1, <2>2
<1> QED
  BY <1>1, <1>2, Invariance, TurnInvariance, PTL DEF Spec, Exclusive, App!Spec

=============================================================================
