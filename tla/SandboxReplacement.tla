------------------------- MODULE SandboxReplacement -------------------------
(***************************************************************************)
(* Replacing the VM of a sandboxd node: the driver deploy/sandboxd-node.sh *)
(* (deploy, start, update, replace, rollback), its state file, and the     *)
(* commands of sandboxd-node-box.py it runs on the VMM host.               *)
(*                                                                         *)
(* One driver at a time holds the lock of the state file.  A step is one   *)
(* box command or one save; an assignment and the _save after it are one   *)
(* step, because a driver that ends in between loses its memory.  The      *)
(* driver may end before every step, and a box command may fail before or  *)
(* after it took effect.  A box command that its driver left behind is     *)
(* taken to be over before the next driver starts.                         *)
(***************************************************************************)
EXTENDS Naturals, FiniteSets

CONSTANTS
    VMs,           \* the ids CreateVm can return
    Hashes,        \* measured compose files
    MaxFaults,     \* bound on failed commands, crashes, VM exits and edits
    NoVm, NoHash

ASSUME FaultsAssumption == MaxFaults \in Nat
ASSUME NoneAssumption == NoVm \notin VMs /\ NoHash \notin Hashes

VARIABLES
    journal,  \* the state file
    driver,   \* the driver that holds the lock
    status,   \* the VMM's status of every VM
    compose,  \* the compose hash installed in every VM
    retired,  \* history: VMs that a finished replacement took out of use
    stray,    \* history: start was run while a replacement was open, and no
              \* new replacement has found a single active VM since
    faults

history == <<retired, stray>>
vars == <<journal, driver, status, compose, history, faults>>

Phases == {"none", "creating", "created", "rebasing", "old-stopped",
           "replacement-started", "verified", "rolling-back",
           "rollback-failed", "rolled-back"}
Statuses == {"absent", "stopped", "exited", "starting", "running", "stopping"}
Steps == {"idle", "deployCreate", "deploySave", "startVm",
          "updateStop", "updateWait", "updateUpgrade", "updateStart",
          "updateSave", "replaceCreate", "replaceSave", "resume", "upgrade",
          "upgraded", "stopOld", "waitOld", "quiesced", "startNew",
          "startedNew", "health", "confirm", "stopNew", "waitNew",
          "rollbackCheck", "startOld", "rollbackWait"}

NoJournal ==
    [vm |-> NoVm, h |-> NoHash, deploying |-> FALSE, phase |-> "none",
     new |-> NoVm, old |-> NoVm, target |-> NoHash, previous |-> NoHash]

(* pc is the next step; hash is nh, the compose this driver measured; vm   *)
(* is the VM id it has been given and not recorded yet.                    *)
Idle == [pc |-> "idle", hash |-> NoHash, vm |-> NoVm]

Init ==
    /\ journal = NoJournal
    /\ driver = Idle
    /\ status = [v \in VMs |-> "absent"]
    /\ compose = [v \in VMs |-> NoHash]
    /\ retired = {} /\ stray = FALSE
    /\ faults = 0

-----------------------------------------------------------------------------
(* The statuses taken for proof that a VM is down.                         *)
TerminalOrStopping == {"stopped", "exited", "stopping"}
Terminal == {"stopped", "exited"}

(* app_inventory and _inventory_matches: every other status is active.     *)
Active == {v \in VMs: status[v] \notin Terminal \cup {"absent"}}

(* _validate_replacement_vm, the resource profile left out.                *)
Validated(v, h) == v # NoVm /\ status[v] \in Terminal /\ compose[v] = h

Fault == faults < MaxFaults /\ faults' = faults + 1

(* A condition read from the box: a failed read counts as a refusal.       *)
Gate(cond, Pass, Refuse) ==
    \/ cond /\ Pass /\ UNCHANGED faults
    \/ ~cond /\ Refuse /\ UNCHANGED faults
    \/ cond /\ Refuse /\ Fault

At(pc) == driver.pc = pc
Go(pc) == driver' = [driver EXCEPT !.pc = pc]
Run(pc, h) == driver' = [pc |-> pc, hash |-> h, vm |-> NoVm]
Die == driver' = Idle

(* CreateVm of deploy and of create-replacement, which leave the VM        *)
(* stopped.  The driver learns the id only from the command's answer; a    *)
(* compose measured anew with another hash is an ambiguous outcome too.    *)
CreateVm(next) ==
    /\ UNCHANGED <<journal, history>>
    /\ \E v \in VMs:
        /\ status[v] = "absent"
        /\ \/ /\ status' = [status EXCEPT ![v] = "stopped"]
              /\ compose' = [compose EXCEPT ![v] = driver.hash]
              /\ driver' = [pc |-> next, hash |-> driver.hash, vm |-> v]
              /\ UNCHANGED faults
           \/ /\ Fault /\ Die
              /\ \/ UNCHANGED <<status, compose>>
                 \/ /\ status' = [status EXCEPT ![v] = "stopped"]
                    /\ \E h \in Hashes: compose' = [compose EXCEPT ![v] = h]

(* stop_vm: an idempotent request, then a poll for a terminal readback.    *)
Stopping(v) ==
    IF status[v] \in Terminal \cup {"absent"} THEN status
    ELSE [status EXCEPT ![v] = "stopping"]

RequestStop(v, next, Refuse) ==
    /\ UNCHANGED <<compose, history>>
    /\ \/ /\ status' = Stopping(v) /\ Go(next)
          /\ UNCHANGED <<journal, faults>>
       \/ /\ status' \in {status, Stopping(v)}
          /\ Fault /\ Refuse

AwaitStop(v, Pass, Refuse) ==
    /\ UNCHANGED <<status, compose, history>>
    /\ \/ status[v] \in Terminal /\ Pass /\ UNCHANGED faults
       \/ status[v] \notin Terminal /\ Refuse /\ Fault

(* start_vm: an idempotent request, not followed by a poll.  The VMM       *)
(* refuses to start a VM that is neither down nor up.                      *)
Starting(v) ==
    IF status[v] \in Terminal THEN [status EXCEPT ![v] = "starting"]
    ELSE status

StartVm(v, Pass, Refuse) ==
    /\ UNCHANGED <<compose, history>>
    /\ \/ /\ status[v] \in Terminal \cup {"starting", "running"}
          /\ status' = Starting(v) /\ Pass /\ UNCHANGED faults
       \/ /\ status[v] \notin Terminal \cup {"starting", "running"}
          /\ Refuse /\ UNCHANGED <<status, faults>>
       \/ /\ status' \in {status, Starting(v)}
          /\ Refuse /\ Fault

(* A die without a save: the journal stays as it is.                       *)
Abort == Die /\ UNCHANGED journal

-----------------------------------------------------------------------------
(* deploy, start and update.                                               *)

(* deploy_cvm: the phase marker is saved before CreateVm.                  *)
Deploy ==
    /\ At("idle") /\ ~journal.deploying
    /\ journal.vm = NoVm /\ journal.phase = "none"
    /\ journal' = [journal EXCEPT !.deploying = TRUE]
    /\ \E h \in Hashes: Run("deployCreate", h)
    /\ UNCHANGED <<status, compose, history, faults>>

DeployCreate == At("deployCreate") /\ CreateVm("deploySave")

DeploySave ==
    /\ At("deploySave")
    /\ journal' = [journal EXCEPT !.vm = driver.vm, !.h = driver.hash,
                                  !.deploying = FALSE]
    /\ Die
    /\ UNCHANGED <<status, compose, history, faults>>

(* start_cvm: neither the phase nor the inventory is looked at.            *)
Start ==
    /\ At("idle") /\ journal.vm # NoVm
    /\ stray' = IF journal.phase # "none" THEN TRUE ELSE stray
    /\ Go("startVm")
    /\ UNCHANGED <<journal, status, compose, retired, faults>>

StartCvm == At("startVm") /\ StartVm(journal.vm, Abort, Abort)

(* update_member, and the update mode of the box helper.                   *)
Update ==
    /\ At("idle") /\ journal.vm # NoVm /\ journal.phase = "none"
    /\ \E h \in Hashes: Run("updateStop", h)
    /\ UNCHANGED <<journal, status, compose, history, faults>>

UpdateStop == At("updateStop") /\ RequestStop(journal.vm, "updateWait", Abort)

UpdateWait ==
    /\ At("updateWait")
    /\ AwaitStop(journal.vm, Go("updateUpgrade") /\ UNCHANGED journal, Abort)

(* UpgradeApp on a stopped VM.  The compose is measured anew: one that was *)
(* edited since has another hash, which the box helper answers with.       *)
Upgrade(v, h, next) ==
    /\ UNCHANGED <<journal, status, history>>
    /\ \/ compose' = [compose EXCEPT ![v] = h] /\ Go(next) /\ UNCHANGED faults
       \/ Fault /\ Die /\ UNCHANGED compose
       \/ /\ Fault
          /\ \E x \in Hashes:
                /\ compose' = [compose EXCEPT ![v] = x]
                /\ Die \/ driver' = [driver EXCEPT !.pc = next, !.hash = x]

UpdateUpgrade ==
    At("updateUpgrade") /\ Upgrade(journal.vm, driver.hash, "updateStart")

UpdateStart ==
    /\ At("updateStart")
    /\ StartVm(journal.vm, Go("updateSave") /\ UNCHANGED journal, Abort)

UpdateSave ==
    /\ At("updateSave")
    /\ journal' = [journal EXCEPT !.h = driver.hash]
    /\ Die
    /\ UNCHANGED <<status, compose, history, faults>>

-----------------------------------------------------------------------------
(* replace_cvm.                                                            *)

(* A new replacement: the recorded VM is the only active one and its API   *)
(* lists no sandboxes; the phase marker is saved before CreateVm.          *)
Allocate(h) ==
    /\ At("idle") /\ journal.vm # NoVm
    /\ Active = {journal.vm}
    /\ \E v \in VMs: status[v] = "absent"
    /\ journal' = [journal EXCEPT !.phase = "creating", !.target = h,
                                  !.old = journal.vm]
    /\ Run("replaceCreate", h) /\ stray' = FALSE
    /\ UNCHANGED <<status, compose, retired, faults>>

ReplaceAgain(h) == journal.phase \in {"none", "creating"} /\ Allocate(h)
ReplaceNew(h) == journal.phase = "none" /\ Allocate(h)

ReplaceCreate == At("replaceCreate") /\ CreateVm("replaceSave")

ReplaceSave ==
    /\ At("replaceSave")
    /\ journal' = [journal EXCEPT !.phase = "created", !.new = driver.vm]
    /\ Run("resume", NoHash)
    /\ UNCHANGED <<status, compose, history, faults>>

(* An open replacement is resumed with the compose it recorded; only a     *)
(* rolled-back one takes another compose, by rebasing the stopped VM.      *)
Resuming ==
    /\ At("idle") /\ journal.phase # "none"
    /\ journal.old = journal.vm /\ journal.new # NoVm
    /\ Go("resume")
    /\ UNCHANGED <<status, compose, history, faults>>

RebaseTo(h) ==
    /\ Active = {journal.vm}
    /\ \/ /\ journal.target = h
          /\ journal' = [journal EXCEPT !.phase = "rebasing"]
       \/ /\ journal.target # h /\ journal.previous = NoHash
          /\ Validated(journal.new, journal.target)
          /\ journal' = [journal EXCEPT !.phase = "rebasing", !.target = h,
                                        !.previous = journal.target]

ReplaceResumeByTarget(h) ==
    /\ Resuming
    /\ \/ /\ journal.phase = "rolled-back" /\ journal.target # h
          /\ RebaseTo(h)
       \/ journal.target = h /\ UNCHANGED journal

ReplaceResume(h) ==
    /\ Resuming
    /\ \/ /\ journal.phase = "rolled-back"
          /\ journal.target # h \/ journal.previous # NoHash
          /\ RebaseTo(h)
       \/ /\ journal.phase # "rolled-back" \/ journal.previous = NoHash
          /\ journal.target = h /\ UNCHANGED journal

(* rollback_cvm.                                                           *)
RollBack ==
    /\ journal' = [journal EXCEPT !.phase = "rolling-back"]
    /\ Go("stopNew")

Rollback ==
    /\ At("idle") /\ journal.phase # "none"
    /\ journal.new # NoVm /\ journal.old # NoVm
    /\ RollBack
    /\ UNCHANGED <<status, compose, history, faults>>

-----------------------------------------------------------------------------
(* _resume_replacement: one step of the loop per phase and box command.    *)
Resume(phase) == At("resume") /\ journal.phase = phase
Phase(phase) == journal' = [journal EXCEPT !.phase = phase] /\ Go("resume")
Reads == UNCHANGED <<status, compose, history>>

ResumeRolledBack ==
    Resume("rolled-back") /\ Phase("created") /\ Reads /\ UNCHANGED faults

(* _resume_replacement_rebase.                                             *)
Rebased ==
    /\ journal' = [journal EXCEPT !.phase = "created", !.previous = NoHash]
    /\ Go("resume")

ResumeRebasing ==
    /\ Resume("rebasing") /\ Reads
    /\ Gate(/\ Active = {journal.old}
            /\ \/ Validated(journal.new, journal.target)
               \/ Validated(journal.new, journal.previous),
            IF Validated(journal.new, journal.target) THEN Rebased
            ELSE Go("upgrade") /\ UNCHANGED journal,
            Abort)

RebaseUpgrade ==
    At("upgrade") /\ Upgrade(journal.new, journal.target, "upgraded")

RebaseReadback ==
    /\ At("upgraded") /\ Reads
    /\ Gate(Validated(journal.new, journal.target), Rebased, Abort)

ResumeCreated ==
    /\ Resume("created") /\ Reads
    /\ Gate(Validated(journal.new, journal.target) /\ Active = {journal.old},
            Go("stopOld") /\ UNCHANGED journal, RollBack)

StopOld == At("stopOld") /\ RequestStop(journal.old, "waitOld", RollBack)

WaitOld ==
    /\ At("waitOld")
    /\ AwaitStop(journal.old, Go("quiesced") /\ UNCHANGED journal, RollBack)

Quiesced ==
    At("quiesced") /\ Reads /\ Gate(Active = {}, Phase("old-stopped"), RollBack)

ResumeOldStopped ==
    /\ Resume("old-stopped") /\ Reads
    /\ Gate(Active = {} /\ Validated(journal.new, journal.target),
            Go("startNew") /\ UNCHANGED journal, RollBack)

StartNew ==
    /\ At("startNew")
    /\ StartVm(journal.new, Go("startedNew") /\ UNCHANGED journal, RollBack)

StartedNew ==
    /\ At("startedNew") /\ Phase("replacement-started")
    /\ Reads /\ UNCHANGED faults

ResumeStarted ==
    /\ Resume("replacement-started") /\ Reads
    /\ Gate(Active = {journal.new}, Go("health") /\ UNCHANGED journal, RollBack)

(* _wait_health: a booting VM is waited for; a dead one never answers.     *)
WaitHealth ==
    /\ At("health") /\ Reads
    /\ \/ /\ status[journal.new] # "starting"
          /\ Gate(status[journal.new] = "running",
                  Go("confirm") /\ UNCHANGED journal, RollBack)
       \/ status[journal.new] = "starting" /\ RollBack /\ Fault

Confirm ==
    /\ At("confirm") /\ Reads
    /\ Gate(Active = {journal.new}, Phase("verified"), RollBack)

FinishKeepsHash ==
    /\ Resume("verified")
    /\ journal' = [NoJournal EXCEPT !.vm = journal.new, !.h = journal.h]
    /\ retired' = retired \cup {journal.old}
    /\ Die
    /\ UNCHANGED <<status, compose, stray, faults>>

Finish ==
    /\ Resume("verified")
    /\ journal' = [NoJournal EXCEPT !.vm = journal.new, !.h = journal.target]
    /\ retired' = retired \cup {journal.old}
    /\ Die
    /\ UNCHANGED <<status, compose, stray, faults>>

ResumeRollback ==
    /\ At("resume") /\ journal.phase \in {"rolling-back", "rollback-failed"}
    /\ RollBack /\ Reads /\ UNCHANGED faults

-----------------------------------------------------------------------------
(* _rollback_replacement.                                                  *)
EndRollback(phase) == journal' = [journal EXCEPT !.phase = phase] /\ Die
RollbackMisspelt == EndRollback("rollback_failed")
RollbackFailed == EndRollback("rollback-failed")

StopNew == At("stopNew") /\ RequestStop(journal.new, "waitNew", RollbackFailed)

WaitNew ==
    /\ At("waitNew")
    /\ AwaitStop(journal.new,
                 Go("rollbackCheck") /\ UNCHANGED journal, RollbackFailed)

RollbackCheck ==
    /\ At("rollbackCheck") /\ Reads
    /\ Gate(Active \in {{}, {journal.old}},
            /\ Go(IF Active = {} THEN "startOld" ELSE "rollbackWait")
            /\ UNCHANGED journal,
            RollbackFailed)

StartOld ==
    /\ At("startOld")
    /\ StartVm(journal.old,
               Go("rollbackWait") /\ UNCHANGED journal, RollbackFailed)

RollbackWait ==
    /\ At("rollbackWait") /\ Reads
    /\ Gate(Active = {journal.old}, EndRollback("rolled-back"), RollbackFailed)

-----------------------------------------------------------------------------
(* The VMM, and the end of a driver.                                       *)

(* A VM that was started boots; one that was stopped goes down.            *)
Settle(v) ==
    /\ \/ status[v] = "starting" /\ status' = [status EXCEPT ![v] = "running"]
       \/ status[v] = "stopping" /\ status' = [status EXCEPT ![v] = "stopped"]
    /\ UNCHANGED <<journal, driver, compose, history, faults>>

(* A guest that fails to boot, or powers itself off.                       *)
VmExit(v) ==
    /\ status[v] \in {"starting", "running"}
    /\ status' = [status EXCEPT ![v] = "exited"]
    /\ Fault
    /\ UNCHANGED <<journal, driver, compose, history>>

(* The driver is killed, its host loses power or its save fails.           *)
Crash ==
    /\ ~At("idle") /\ Die /\ Fault
    /\ UNCHANGED <<journal, status, compose, history>>

Command ==
    \/ Deploy \/ Start \/ Update \/ Rollback
    \/ \E h \in Hashes: ReplaceNew(h) \/ ReplaceResume(h)

DriverStep ==
    \/ DeployCreate \/ DeploySave \/ StartCvm
    \/ UpdateStop \/ UpdateWait \/ UpdateUpgrade \/ UpdateStart \/ UpdateSave
    \/ ReplaceCreate \/ ReplaceSave
    \/ ResumeRolledBack \/ ResumeRebasing \/ RebaseUpgrade \/ RebaseReadback
    \/ ResumeCreated \/ StopOld \/ WaitOld \/ Quiesced
    \/ ResumeOldStopped \/ StartNew \/ StartedNew
    \/ ResumeStarted \/ WaitHealth \/ Confirm \/ Finish
    \/ ResumeRollback \/ StopNew \/ WaitNew \/ RollbackCheck
    \/ StartOld \/ RollbackWait

VmStep == \E v \in VMs: Settle(v)

Next == Command \/ DriverStep \/ VmStep \/ Crash \/ \E v \in VMs: VmExit(v)

Spec == Init /\ [][Next]_vars

(* Scripts and VMM requests go on while they can.  The operator of an open *)
(* replacement keeps running replace, with the compose the journal names,  *)
(* and rollback; each of them is possible again and again, never           *)
(* continuously, because the other holds the lock.                         *)
Retry == \E h \in Hashes: h = journal.target /\ ReplaceResume(h)

Fairness ==
    /\ WF_vars(DriverStep)
    /\ \A v \in VMs: WF_vars(Settle(v))
    /\ SF_vars(Retry)
    /\ SF_vars(Rollback)

FairSpec == Spec /\ Fairness

-----------------------------------------------------------------------------
(* The state file, the driver and the VMM hold known values: every phase a *)
(* command saves is one that _resume_replacement knows.                    *)
TypeOK ==
    /\ journal \in [vm: VMs \cup {NoVm}, h: Hashes \cup {NoHash},
                    deploying: BOOLEAN, phase: Phases,
                    new: VMs \cup {NoVm}, old: VMs \cup {NoVm},
                    target: Hashes \cup {NoHash},
                    previous: Hashes \cup {NoHash}]
    /\ driver \in [pc: Steps, hash: Hashes \cup {NoHash},
                   vm: VMs \cup {NoVm}]
    /\ status \in [VMs -> Statuses]
    /\ compose \in [VMs -> Hashes \cup {NoHash}]
    /\ retired \subseteq VMs /\ stray \in BOOLEAN
    /\ faults \in 0..MaxFaults

(* The VMs that may present the app identity: all that are not exactly     *)
(* stopped or exited, as the comment of _inventory_matches has it.         *)
Copies == {v \in VMs: status[v] \notin {"absent", "stopped", "exited"}}

App == INSTANCE ExclusiveApp WITH up <- Copies, forced <- stray

(* Whatever fails and wherever the driver dies, a VM of the app is started *)
(* only when no other copy is up, unless start was run while a replacement *)
(* was open: deploy, start, update, replace and rollback together          *)
(* implement ExclusiveApp.                                                 *)
Exclusive == App!Spec

(* Two VMs never present one app identity, however start is used           *)
(* (_rollback_replacement: fail closed rather than two CVMs).              *)
OneCopy == \A v, w \in Copies: v = w

(* CreateVm is never repeated over an unknown outcome: every VM there is,  *)
(* but for one whose creation the journal still marks as open, is in the   *)
(* state file or was retired by a finished replacement.                    *)
Unrecorded ==
    {v \in VMs: status[v] # "absent"} \ (retired \cup {journal.vm, journal.new})

NoVmLost ==
    /\ \A v, w \in Unrecorded: v = w
    /\ Unrecorded # {} => journal.deploying \/ journal.phase = "creating"

(* The step that makes the replacement the node's VM records the compose   *)
(* that VM carries, and leaves the old VM down unless start was run while  *)
(* the replacement was open.                                               *)
HandOver ==
    [][journal.vm # NoVm /\ journal'.vm # journal.vm =>
          /\ journal'.vm \in VMs /\ journal'.h = compose[journal'.vm]
          /\ stray \/ status[journal.vm] \in {"stopped", "exited"}]_vars

(* What replace logs of every cutover (previous-stopped): the old VM is    *)
(* down, however start is used.                                            *)
PreviousStopped ==
    [][journal.vm # NoVm /\ journal'.vm # journal.vm =>
          status[journal.vm] \in {"stopped", "exited"}]_vars

(* A stopped replacement with neither of the two hashes of its rebase: its *)
(* compose was edited between hash and upgrade-stopped.                    *)
ThirdHash ==
    journal.new # NoVm /\ compose[journal.new] \notin {journal.target, journal.previous}

(* No phase strands a replacement: once faults end, an operator who goes   *)
(* on with replace and rollback gets the journal closed, save for the two  *)
(* outcomes that the code leaves to manual inspection: an ambiguous        *)
(* CreateVm, and a third hash.                                             *)
JournalSettles == []<>(journal.phase \in {"none", "creating"} \/ ThirdHash)
=============================================================================
