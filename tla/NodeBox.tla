------------------------------- MODULE NodeBox -------------------------------
(***************************************************************************)
(* The box-side deployment helpers, deploy/*-node-box.py, and the driver   *)
(* that calls them (deploy/*-node.sh).  Every helper renders the measured  *)
(* app-compose of one node, and drives the VM lifecycle of the dstack VMM: *)
(* deploy (CreateVm), update (StopVm, poll GetInfo, UpgradeApp, StartVm),  *)
(* update with BOX_FRESH_DISK (a second VM instead of UpgradeApp), stop,   *)
(* start, and the journaled recreate of generic-node-box.py.  The helpers  *)
(* share one shape and differ in how they treat a StopVm that raises, a    *)
(* GetInfo that raises, a VM that is missing, a VM that is only stopping,  *)
(* and a poll that runs out; their drivers differ in whether a second      *)
(* deploy is refused and whether a failed addComposeHash ends the update.  *)
(* One record per helper and driver holds the differences.                 *)
(*                                                                         *)
(* One call to the VMM is one step, so the guest, the VMM and an interrupt *)
(* of the operator come between any two of them.                           *)
(***************************************************************************)
EXTENDS Naturals, FiniteSets

CONSTANTS
    VMs,          \* the VM ids the VMM may hand out
    Sources,      \* the contents the operator's compose file may have
    Scripts,      \* the helpers checked, a subset of AllScripts
    MaxPolls,     \* GetInfo polls before the loop gives up (the code: 40)
    MaxFaults,    \* interrupted helpers, failed calls, VMs removed by hand
                  \* and deploys run again over a state file
    NoVm

ASSUME MaxPollsAssumption == MaxPolls \in Nat \ {0}
ASSUME MaxFaultsAssumption == MaxFaults \in Nat
ASSUME NoVmAssumption == NoVm \notin VMs

VARIABLES
    script,    \* the helper of this node
    source,    \* the operator's compose file
    allowed,   \* the compose hashes the cluster allows
    vms,       \* the VMM: every VM's status, installed and booted compose
    record,    \* the driver's state file: VM_ID and H
    journal,   \* the recreate journal of every old VM
    cmd,       \* the command in progress
    faults,    \* faults so far
    lost,      \* VMs whose id reached neither the state file nor the journal
    unseen,    \* VMs a fresh-disk update replaced without seeing them down
    displaced  \* recorded VMs beside which a second deploy created another

vars == <<script, source, allowed, vms, record, journal, cmd, faults,
          lost, unseen, displaced>>
history == <<lost, unseen, displaced>>

-----------------------------------------------------------------------------
(* The measured app-compose.  Of its fields only the compose file and the  *)
(* names of the sealed variables differ between two renderings of a helper *)
(* (the values are sealed, not measured), so a hash is that pair.          *)

Keys == {"workload", "registry", "APP_ID"}
NoCompose == [source |-> NoVm, envs |-> {}]
Composes == [source : Sources, envs : SUBSET Keys] \cup {NoCompose}

(* How a helper names the sealed variables: ENV_KEYS, what the hash mode   *)
(* appends to it and what build_env adds.                                  *)
Measured(declared, hashAdds, sealAdds) ==
    [hash |-> declared \cup hashAdds, built |-> declared \cup sealAdds]
Listed == Measured({"workload", "registry"}, {"registry"}, {"registry"})
ListedOnce == Measured({"workload", "registry"}, {}, {"registry"})
ListedFixed == Measured({"workload", "registry"}, {}, {})

AgentSessionEnv == Listed
ClickhouseEnv == ListedFixed
DbHaEnv == ListedFixed
FuguLbEnv == ListedOnce
FuguRouterEnv == ListedOnce
GenericEnv == Listed
HermesEnv == ListedOnce
HindsightEnv == Listed
LangfuseEnv == ListedOnce
(* Mutant: the hash mode measures ENV_KEYS alone.                          *)
UnappendedEnv == Measured({"workload"}, {}, {"registry"})
MatrixEnv == Measured({"workload"}, {"registry"}, {"registry"})
PgHaEnv == ListedFixed
PocketEnv == Listed
PostgresEnv == Listed
R2HostEnv == Listed
RedisEnv == ListedFixed
RunyardEnv == Listed
SandboxdEnv == Listed
SshEnv == Listed
SynclaveEnv == Listed
TelegramSyncEnv == ListedOnce
WebhostEnv == Listed

(* What hash mode and what deploy and update measure for a compose file.   *)
HashCompose(s, f) ==
    [source |-> f, envs |-> s.env.hash \cup {"APP_ID"}]
BuiltCompose(s, f) ==
    [source |-> f, envs |-> s.env.built \cup {"APP_ID"}]

-----------------------------------------------------------------------------
(* The VM lifecycle of every helper.                                       *)
(*   born     the status deploy creates the VM in                          *)
(*   stop     "tolerated": an exception of StopVm is dropped; "unchecked": *)
(*            the answer's status is not looked at; "checked": StopVm      *)
(*            raises; "waited": stop_vm, idempotent, of sandboxd           *)
(*   accepts  the statuses the poll takes for stopped                      *)
(*   gone     a missing VM counts as stopped                               *)
(*   blind    a GetInfo that raises counts as stopped                      *)
(*   strict   a poll that runs out, or raises, ends the command            *)
(*   looks    the start mode looks at the VM before it calls StartVm       *)
(*   modes    the VM-changing modes besides deploy                         *)
(* and of its driver:                                                      *)
(*   guarded  deploy is refused, or skipped, while the state file has a VM *)
(*   halts    a failed addComposeHash ends the update                      *)

(* "stopped" stands for "exited" too: every helper takes either for down.  *)
Down == {"stopped"}
StartsWithStop == {"stopped", "stopping"}

Tolerant(env, born, modes) ==
    [env |-> env, born |-> born, stop |-> "tolerated", gone |-> TRUE,
     accepts |-> StartsWithStop, blind |-> TRUE, strict |-> FALSE,
     looks |-> FALSE, modes |-> {"update"} \cup modes,
     guarded |-> FALSE, halts |-> FALSE]
Checked(env, accepts, modes) ==
    [env |-> env, born |-> "running", stop |-> "checked", gone |-> FALSE,
     accepts |-> accepts, blind |-> FALSE, strict |-> FALSE,
     looks |-> FALSE, modes |-> {"update", "fresh"} \cup modes,
     guarded |-> FALSE, halts |-> FALSE]
Guarded(s) == [s EXCEPT !.guarded = TRUE]
Halting(s) == [s EXCEPT !.halts = TRUE]
Looking(s) == [s EXCEPT !.looks = TRUE]

AgentSession ==
    Guarded(Halting(Tolerant(AgentSessionEnv, "stopped", {"stop", "start"})))
Generic == Guarded(Halting(
    Tolerant(GenericEnv, "stopped", {"stop", "start", "recreate"})))
Pocket == Guarded(Halting(Tolerant(PocketEnv, "stopped", {"stop", "start"})))
FuguLb ==
    Halting(Looking(Tolerant(FuguLbEnv, "running", {"fresh", "stop", "start"})))
FuguRouter == Halting(Looking(
    Tolerant(FuguRouterEnv, "running", {"fresh", "stop", "start"})))
Hermes == Tolerant(HermesEnv, "running", {"fresh"})
Langfuse == Tolerant(LangfuseEnv, "running", {"fresh"})
R2Host == Tolerant(R2HostEnv, "running", {"fresh"})
Runyard == Tolerant(RunyardEnv, "running", {"fresh"})
Ssh == Tolerant(SshEnv, "running", {"fresh"})
Synclave == Halting(Tolerant(SynclaveEnv, "running", {"fresh"}))
TelegramSync == Tolerant(TelegramSyncEnv, "running", {"fresh"})
Webhost == Halting(Tolerant(WebhostEnv, "running", {}))
Hindsight == [Tolerant(HindsightEnv, "running", {"fresh"})
                  EXCEPT !.accepts = Down]
Matrix == [Tolerant(MatrixEnv, "running", {"fresh"})
               EXCEPT !.stop = "unchecked", !.blind = FALSE]
Clickhouse == Guarded(Checked(ClickhouseEnv, StartsWithStop, {"stop", "start"}))
Redis == Guarded(Checked(RedisEnv, StartsWithStop, {"stop", "start"}))
Postgres == Checked(PostgresEnv, StartsWithStop, {})
DbHa == Guarded(Checked(DbHaEnv, Down, {"stop", "start"}))
PgHa == Guarded(Halting(Checked(PgHaEnv, Down, {"stop", "start"})))
Sandboxd == [env |-> SandboxdEnv, born |-> "stopped", stop |-> "waited",
             gone |-> FALSE, accepts |-> Down, blind |-> FALSE,
             strict |-> TRUE, looks |-> TRUE,
             modes |-> {"update", "stop", "start"},
             guarded |-> TRUE, halts |-> TRUE]

AllScripts ==
    {AgentSession, Generic, Pocket, FuguLb, FuguRouter, Hermes, Langfuse,
     R2Host, Runyard, Ssh, Synclave, TelegramSync, Webhost, Hindsight, Matrix,
     Clickhouse, Redis, Postgres, DbHa, PgHa, Sandboxd}

ASSUME ScriptsAssumption == Scripts \subseteq AllScripts

-----------------------------------------------------------------------------
(* The VMM (external): the status GetInfo reports, and the compose that is *)
(* installed and the one that the guest booted with.                       *)

Absent == {"none", "removed"}
Statuses == {"running", "stopping"} \cup Down \cup Absent
Found(v) == vms[v].status \notin Absent

NewVm(v, status, c) == [vms EXCEPT ![v] = [status |-> status, installed |-> c,
                                           booted |-> c]]
WithStatus(v, status) == [vms EXCEPT ![v].status = status]
Removed(v) == NewVm(v, "removed", NoCompose)
Stopping(v) ==
    IF vms[v].status = "running" THEN WithStatus(v, "stopping") ELSE vms

(* StopVm and StartVm are not idempotent on every dstack build: a call     *)
(* that has nothing to do may answer or raise.                             *)
StopAnswers(v) ==
    CASE vms[v].status = "running" -> {"ok"}
      [] ~Found(v)                 -> {"raises"}
      [] OTHER                     -> {"ok", "raises"}
StartAnswers(v) ==
    CASE vms[v].status \in Down -> {"ok"}
      [] ~Found(v)              -> {"raises"}
      [] OTHER                  -> {"ok", "raises"}
Started(v) ==
    IF vms[v].status \in Down
      THEN [vms EXCEPT ![v].status = "running", ![v].booted = vms[v].installed]
      ELSE vms

-----------------------------------------------------------------------------
(* The command in progress: its mode, its next call, the VM of the state   *)
(* file, the polls done, what the poll concluded, the VM it created, and   *)
(* whether its addComposeHash failed.  A command that fails just ends.     *)

Idle == [mode |-> "none", pc |-> "idle", vm |-> NoVm, polls |-> 0,
         saw |-> "unseen", made |-> NoVm, denied |-> FALSE]
Quiet == cmd.pc = "idle"
Rolls == {"update", "fresh", "recreate"}

Built == BuiltCompose(script, source)

To(pc) == [cmd EXCEPT !.pc = pc]
Fail == Idle
Fault == faults < MaxFaults /\ faults' = faults + 1

Init ==
    /\ script \in Scripts
    /\ source \in Sources
    /\ allowed = {}
    /\ vms = [v \in VMs |-> [status |-> "none", installed |-> NoCompose,
                             booted |-> NoCompose]]
    /\ record = [vm |-> NoVm, hash |-> NoCompose]
    /\ journal = [v \in VMs |-> [removed |-> FALSE, replacement |-> NoVm]]
    /\ cmd = Idle
    /\ faults = 0
    /\ lost = {} /\ unseen = {} /\ displaced = {}

-----------------------------------------------------------------------------
(* The operator edits the compose file between two commands, approves the  *)
(* recorded hash (prime) and starts a command of the driver.  A guarded    *)
(* driver refuses deploy while the state file names a VM; every other mode *)
(* needs one.                                                              *)

Edit ==
    /\ Quiet
    /\ source' \in Sources \ {source}
    /\ UNCHANGED <<script, allowed, vms, record, journal, cmd, faults, history>>

Prime ==
    /\ Quiet /\ record.vm # NoVm
    /\ allowed' = allowed \cup {record.hash}
    /\ UNCHANGED <<script, source, vms, record, journal, cmd, faults, history>>

FirstCall(mode) ==
    CASE mode = "deploy"             -> "create"
      [] mode \in {"update", "fresh"} -> "approve"
      [] mode = "recreate"           -> "resume"
      [] OTHER                       -> mode

Begin(mode) ==
    /\ Quiet
    /\ IF mode = "deploy" THEN script.guarded => record.vm = NoVm
                          ELSE record.vm # NoVm /\ mode \in script.modes
    /\ mode \in {"deploy", "fresh", "recreate"} =>        \* bound: ids left
          \E v \in VMs : vms[v].status = "none"
    /\ cmd' = [Idle EXCEPT !.mode = mode, !.pc = FirstCall(mode),
                           !.vm = record.vm]
    /\ IF mode = "deploy" /\ record.vm # NoVm THEN Fault ELSE UNCHANGED faults
    /\ UNCHANGED <<script, source, allowed, vms, record, journal, history>>

(* update_member of the driver: hash mode, then addComposeHash.            *)
Approve ==
    /\ cmd.pc = "approve"
    /\ allowed' = allowed \cup {HashCompose(script, source)}
    /\ cmd' = To("stop")
    /\ UNCHANGED <<script, source, vms, record, journal, faults, history>>

(* The transaction, or the wait for its receipt, fails; it may have been   *)
(* mined all the same.                                                     *)
ApproveFails ==
    /\ cmd.pc = "approve"
    /\ Fault
    /\ allowed' \in {allowed, allowed \cup {HashCompose(script, source)}}
    /\ cmd' = IF script.halts THEN Fail
              ELSE [cmd EXCEPT !.pc = "stop", !.denied = TRUE]
    /\ UNCHANGED <<script, source, vms, record, journal, history>>

(* StopVm.  sandboxd's stop_vm does not call it for a VM that is down.     *)
(* matrix does not wait when it is about to create a fresh VM.             *)
AfterStop ==
    CASE cmd.mode = "stop" /\ script.stop # "waited"        -> Idle
      [] cmd.mode = "fresh" /\ script.stop = "unchecked"    ->
            [cmd EXCEPT !.pc = "swap", !.saw = "unwaited"]
      [] OTHER                                              -> To("poll")

StopTolerated ==
    \/ script.stop \in {"tolerated", "unchecked"}
    \/ script.stop = "waited" /\ vms[cmd.vm].status \in Down

StopVm ==
    /\ cmd.pc = "stop"
    /\ \E answer \in StopAnswers(cmd.vm) :
          cmd' = IF answer = "ok" \/ StopTolerated THEN AfterStop ELSE Fail
    /\ vms' = Stopping(cmd.vm)
    /\ UNCHANGED <<script, source, allowed, record, journal, faults, history>>

(* The call to StopVm fails on its way there or back.  matrix drops the    *)
(* exception when it is about to create a fresh VM.                        *)
StopFaultTolerated ==
    \/ script.stop = "tolerated"
    \/ script.stop = "unchecked" /\ cmd.mode = "fresh"

StopVmFault ==
    /\ cmd.pc = "stop"
    /\ Fault
    /\ vms' \in {vms, Stopping(cmd.vm)}
    /\ cmd' = IF StopFaultTolerated THEN AfterStop ELSE Fail
    /\ UNCHANGED <<script, source, allowed, record, journal, history>>

(* One GetInfo of the poll.                                                *)
AfterPoll(saw) ==
    IF cmd.mode = "stop" THEN Idle
    ELSE [cmd EXCEPT !.pc = "swap", !.saw = saw, !.polls = 0]

Poll ==
    /\ cmd.pc = "poll" /\ cmd.polls < MaxPolls
    /\ cmd' = IF vms[cmd.vm].status \in script.accepts
                THEN AfterPoll(vms[cmd.vm].status)
              ELSE IF ~Found(cmd.vm) /\ script.gone THEN AfterPoll("gone")
              ELSE [cmd EXCEPT !.polls = @ + 1]
    /\ UNCHANGED <<script, source, allowed, vms, record, journal, faults, history>>

PollFault ==
    /\ cmd.pc = "poll" /\ cmd.polls < MaxPolls
    /\ Fault
    /\ cmd' = IF script.strict \/ cmd.mode = "recreate" THEN Fail
              ELSE IF script.blind THEN AfterPoll("blind")
              ELSE [cmd EXCEPT !.polls = @ + 1]
    /\ UNCHANGED <<script, source, allowed, vms, record, journal, history>>

PollTimeout ==
    /\ cmd.pc = "poll" /\ cmd.polls = MaxPolls
    /\ cmd' = IF script.strict THEN Fail ELSE AfterPoll("timeout")
    /\ UNCHANGED <<script, source, allowed, vms, record, journal, faults, history>>

(* Mutant: UpgradeApp is taken to restart the VM.                          *)
UpgradeAppOnly ==
    /\ cmd.pc = "swap" /\ cmd.mode = "update" /\ Found(cmd.vm)
    /\ vms' = [vms EXCEPT ![cmd.vm].installed = Built]
    /\ cmd' = To("save")
    /\ UNCHANGED <<script, source, allowed, record, journal, faults, history>>

(* An UpgradeApp that is refused ends the command; matrix starts the VM    *)
(* all the same, and its driver dies on the answer.                        *)
UpgradeRefused ==
    IF script.stop = "unchecked"
      THEN [cmd EXCEPT !.pc = "start", !.saw = "refused"] ELSE Fail

UpgradeApp ==
    /\ cmd.pc = "swap" /\ cmd.mode = "update"
    /\ IF Found(cmd.vm)
         THEN /\ vms' = [vms EXCEPT ![cmd.vm].installed = Built]
              /\ cmd' = To("start")
         ELSE /\ cmd' = UpgradeRefused
              /\ UNCHANGED vms
    /\ UNCHANGED <<script, source, allowed, record, journal, faults, history>>

UpgradeAppFault ==
    /\ cmd.pc = "swap" /\ cmd.mode = "update"
    /\ Fault
    /\ cmd' = UpgradeRefused
    /\ UNCHANGED <<script, source, allowed, vms, record, journal, history>>

AfterStart ==
    CASE cmd.mode = "start"    -> Idle
      [] cmd.saw = "refused"   -> Fail
      [] OTHER                 -> To("save")

(* The start mode of fugu-router, its load balancer and sandboxd looks     *)
(* first: it leaves a running VM alone, and fugu-router's a missing one.   *)
StartTolerated ==
    \/ script.stop = "unchecked"
    \/ /\ cmd.mode = "start" /\ script.looks
       /\ vms[cmd.vm].status = "running" \/ (~Found(cmd.vm) /\ script.gone)

StartVm ==
    /\ cmd.pc = "start"
    /\ \E answer \in StartAnswers(cmd.vm) :
          cmd' = IF answer = "ok" \/ StartTolerated THEN AfterStart ELSE Fail
    /\ vms' = Started(cmd.vm)
    /\ UNCHANGED <<script, source, allowed, record, journal, faults, history>>

(* matrix does not look at the status of StartVm's answer.                 *)
StartVmRefused ==
    /\ cmd.pc = "start" /\ cmd.mode = "update" /\ script.stop = "unchecked"
    /\ Fault
    /\ cmd' = IF cmd.saw = "refused" THEN Fail
              ELSE [cmd EXCEPT !.pc = "save", !.saw = "unstarted"]
    /\ UNCHANGED <<script, source, allowed, vms, record, journal, history>>

(* CreateVm of deploy, and of update with BOX_FRESH_DISK.                  *)
DeployVm ==
    /\ cmd.pc = "create" /\ cmd.mode = "deploy"
    /\ \E v \in VMs :
          /\ vms[v].status = "none"
          /\ vms' = NewVm(v, script.born, Built)
          /\ cmd' = [cmd EXCEPT !.pc = "save", !.made = v]
    /\ displaced' = displaced \cup ({cmd.vm} \ {NoVm})
    /\ UNCHANGED <<script, source, allowed, record, journal, faults, lost,
                   unseen>>

FreshVm ==
    /\ cmd.pc = "swap" /\ cmd.mode = "fresh"
    /\ \E v \in VMs :
          /\ vms[v].status = "none"
          /\ vms' = NewVm(v, "running", Built)
          /\ cmd' = [cmd EXCEPT !.pc = "save", !.made = v]
    /\ unseen' = IF cmd.saw \in Down \cup {"gone"} THEN unseen
                                                  ELSE unseen \cup {cmd.vm}
    /\ UNCHANGED <<script, source, allowed, record, journal, faults, lost,
                   displaced>>

(* Mutants: recreate works on the journaled replacement from here on; it   *)
(* does not look for one.                                                  *)
ResumeAdopts ==
    /\ cmd.pc = "resume"
    /\ cmd' = IF journal[cmd.vm].replacement # NoVm
                THEN [cmd EXCEPT !.pc = "save", !.vm = journal[cmd.vm].replacement]
                ELSE To(IF journal[cmd.vm].removed THEN "create" ELSE "stop")
    /\ UNCHANGED <<script, source, allowed, vms, record, journal, faults, history>>

ResumeForgets ==
    /\ cmd.pc = "resume"
    /\ cmd' = To(IF journal[cmd.vm].removed THEN "create" ELSE "stop")
    /\ UNCHANGED <<script, source, allowed, vms, record, journal, faults, history>>

(* recreate_vm of generic-node-box.py: what the journal of the old VM says *)
(* decides where it resumes.                                               *)
Resume ==
    LET entry == journal[cmd.vm]
    IN  /\ cmd.pc = "resume"
        /\ cmd' = IF entry.replacement # NoVm /\ Found(entry.replacement)
                    THEN [cmd EXCEPT !.pc = "save", !.made = entry.replacement,
                                     !.saw = "resumed"]
                  ELSE IF entry.removed THEN To("create")
                  ELSE IF Found(cmd.vm) THEN To("stop")
                  ELSE To("journal")
        /\ UNCHANGED <<script, source, allowed, vms, record, journal, faults,
                       history>>

(* RemoveVm may refuse a VM that is not down; the exception is dropped     *)
(* when the VM is gone afterwards.                                         *)
RemoveVm ==
    /\ cmd.pc = "swap" /\ cmd.mode = "recreate"
    /\ \/ /\ vms' = IF Found(cmd.vm) THEN Removed(cmd.vm) ELSE vms
          /\ cmd' = To("journal")
       \/ /\ Found(cmd.vm) /\ vms[cmd.vm].status \notin Down
          /\ cmd' = Fail
          /\ UNCHANGED vms
    /\ UNCHANGED <<script, source, allowed, record, journal, faults, history>>

JournalRemoved ==
    /\ cmd.pc = "journal"
    /\ journal' = [journal EXCEPT ![cmd.vm] = [removed |-> TRUE,
                                               replacement |-> NoVm]]
    /\ cmd' = To("create")
    /\ UNCHANGED <<script, source, allowed, vms, record, faults, history>>

RecreateVm ==
    /\ cmd.pc = "create" /\ cmd.mode = "recreate"
    /\ \E v \in VMs :
          /\ vms[v].status = "none"
          /\ vms' = NewVm(v, "running", Built)
          /\ cmd' = [cmd EXCEPT !.pc = "note", !.made = v]
    /\ UNCHANGED <<script, source, allowed, record, journal, faults, history>>

JournalReplacement ==
    /\ cmd.pc = "note"
    /\ journal' = [journal EXCEPT ![cmd.vm].replacement = cmd.made]
    /\ cmd' = To("save")
    /\ UNCHANGED <<script, source, allowed, vms, record, faults, history>>

(* The helper printed its answer; the driver writes VM_ID and H.           *)
Save ==
    /\ cmd.pc = "save"
    /\ record' = [vm |-> IF cmd.made # NoVm THEN cmd.made ELSE cmd.vm,
                  hash |-> Built]
    /\ cmd' = Idle
    /\ UNCHANGED <<script, source, allowed, vms, journal, faults, history>>

(* The ssh session or the operator ends the command, or a call whose       *)
(* exception nobody catches raises, before the next step.                  *)
Crash ==
    /\ ~Quiet
    /\ Fault
    /\ cmd' = Idle
    /\ lost' = IF cmd.made \in {NoVm} \cup {journal[v].replacement : v \in VMs}
                 THEN lost ELSE lost \cup {cmd.made}
    /\ UNCHANGED <<script, source, allowed, vms, record, journal, unseen,
                   displaced>>

VmmStops ==
    /\ \E v \in VMs : /\ vms[v].status = "stopping"
                      /\ vms' = WithStatus(v, "stopped")
    /\ UNCHANGED <<script, source, allowed, record, journal, cmd, faults, history>>

GuestExits ==
    /\ \E v \in VMs : /\ vms[v].status = "running"
                      /\ vms' = WithStatus(v, "stopped")
    /\ UNCHANGED <<script, source, allowed, record, journal, cmd, faults, history>>

RemovedByHand ==
    /\ Fault
    /\ \E v \in VMs : /\ vms[v].status \in Down
                      /\ vms' = Removed(v)
    /\ UNCHANGED <<script, source, allowed, record, journal, cmd, history>>

Next ==
    \/ Edit \/ Prime
    \/ \E mode \in {"deploy", "stop", "start"} \cup Rolls : Begin(mode)
    \/ Approve \/ ApproveFails \/ StopVm \/ StopVmFault
    \/ Poll \/ PollFault \/ PollTimeout
    \/ UpgradeApp \/ UpgradeAppFault \/ StartVm \/ StartVmRefused \/ DeployVm \/ FreshVm
    \/ Resume \/ RemoveVm \/ JournalRemoved \/ RecreateVm \/ JournalReplacement
    \/ Save \/ Crash \/ VmmStops \/ GuestExits \/ RemovedByHand

Spec == Init /\ [][Next]_vars

-----------------------------------------------------------------------------
(* Properties.                                                             *)

(* Every variable has its type; a command in progress works on the VM the  *)
(* state file names.                                                       *)
Calls == {"idle", "approve", "stop", "poll", "swap", "start",
          "create", "resume", "journal", "note", "save"}
TypeOK ==
    /\ script \in Scripts
    /\ source \in Sources
    /\ allowed \subseteq Composes
    /\ vms \in [VMs -> [status : Statuses, installed : Composes,
                        booted : Composes]]
    /\ record \in [vm : VMs \cup {NoVm}, hash : Composes]
    /\ journal \in [VMs -> [removed : BOOLEAN, replacement : VMs \cup {NoVm}]]
    /\ cmd \in [mode : {"none", "deploy", "stop", "start"} \cup Rolls,
                pc : Calls, vm : VMs \cup {NoVm}, polls : 0..MaxPolls,
                saw : Statuses \cup {"unseen", "gone", "blind", "timeout",
                                     "unwaited", "resumed", "refused",
                                     "unstarted"},
                made : VMs \cup {NoVm}, denied : BOOLEAN]
    /\ faults \in 0..MaxFaults
    /\ lost \subseteq VMs /\ unseen \subseteq VMs /\ displaced \subseteq VMs
    /\ ~Quiet => cmd.vm = record.vm

(* A VM that an update boots, in place or fresh, runs a compose the driver *)
(* had the cluster allow: the hash mode and the update mode measure the    *)
(* same variables (matrix lists the registry in its hash mode and in       *)
(* build_env, not in ENV_KEYS).  Under a driver that stops when            *)
(* addComposeHash fails this holds without exception; the twelve others go *)
(* on, and there it holds of the updates whose addComposeHash succeeded.   *)
(* An UpgradeApp that matrix ignores the refusal of boots what was there.  *)
BootsApproved ==
    [][\A v \in VMs :
          /\ cmd.mode \in {"update", "fresh"} /\ cmd.saw # "refused"
          /\ cmd.denied => script.halts
          /\ vms[v].status # "running" /\ vms'[v].status = "running"
          => vms'[v].booted \in allowed]_vars

(* An update that saw its VM down and answered left the VM booted with the *)
(* compose it rendered, whatever an earlier, interrupted run had left.     *)
UpdateTookEffect ==
    /\ cmd.pc = "save" /\ cmd.mode = "update" /\ cmd.saw \in Down
    /\ Found(cmd.vm)
    => vms[cmd.vm].booted = Built

(* Two VMs of the node are up at once only if an interrupted command lost  *)
(* the id of one before any file held it, a fresh-disk update went on      *)
(* without having seen the old VM down, or, under one of the thirteen      *)
(* drivers without the guard, deploy was run again over the state file.    *)
Excused == lost \cup unseen \cup IF script.guarded THEN {} ELSE displaced
NoTwins ==
    \A v, w \in VMs :
        /\ v # w
        /\ {vms[v].status, vms[w].status} \subseteq {"running", "stopping"}
        => {v, w} \cap Excused # {}

(* What the drivers do not have (checked by configurations that fail): the *)
(* guard of generic-node.sh against a second VM, and what the comment at   *)
(* synclave-node.sh:398 warns of, an update that rolls a compose the       *)
(* cluster has not allowed.                                                *)
NoSecondVm == displaced = {}
NoUnapprovedRoll ==
    [][\A v \in VMs :
          /\ cmd.mode \in {"update", "fresh"} /\ cmd.saw # "refused"
          /\ vms[v].status # "running" /\ vms'[v].status = "running"
          => vms'[v].booted \in allowed]_vars

=============================================================================
