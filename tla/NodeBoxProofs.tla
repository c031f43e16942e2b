---------------------------- MODULE NodeBoxProofs ----------------------------
(***************************************************************************)
(* Proofs of NodeBox's properties, for every set of helpers out of the     *)
(* twenty-one, any number of VM ids, polls and faults.  The state file,    *)
(* the journal and the command in progress are three places a VM id may    *)
(* be held; IInv says which of them hold a VM that may be up, and what a   *)
(* command knows of its VM at each call.                                   *)
(***************************************************************************)
EXTENDS NodeBox, TLAPS

Up(v) == vms[v].status \in {"running", "stopping"}
Gone(v) == vms[v].status = "removed"
Settled(v) == vms[v].status \in Down \cup {"removed"}

\* The modes in which each call is made, and the two places that hold a created VM.
Control ==
    /\ cmd.pc = "idle" => cmd.mode = "none"
    /\ cmd.pc = "approve" => cmd.mode \in {"update", "fresh"}
    /\ cmd.pc \in {"stop", "poll"} => cmd.mode \in Rolls \cup {"stop"}
    /\ cmd.pc = "swap" => cmd.mode \in Rolls
    /\ cmd.pc = "start" => cmd.mode \in {"update", "start"}
    /\ cmd.pc = "create" => cmd.mode \in {"deploy", "recreate"}
    /\ cmd.pc \in {"resume", "journal", "note"} => cmd.mode = "recreate"
    /\ cmd.pc = "save" => cmd.mode \in Rolls \cup {"deploy"}
    /\ cmd.mode \in {"none", "deploy"} \cup script.modes
    /\ ~Quiet /\ cmd.mode # "deploy" => cmd.vm # NoVm
    /\ ~Quiet /\ cmd.mode = "deploy" /\ script.guarded => cmd.vm = NoVm
    /\ cmd.denied => ~script.halts
    /\ cmd.made # NoVm <=> cmd.pc = "note" \/ (cmd.pc = "save" /\ cmd.mode # "update")

\* An id is held only after the VMM has handed it out.
HandedOut ==
    /\ \A v \in VMs : v \in {record.vm, cmd.made} => vms[v].status # "none"
    /\ \A v, w \in VMs : v = journal[w].replacement => vms[v].status # "none"

\* Only the helper that recreates writes a journal; it removes before it replaces.
Journaled ==
    \A w \in VMs :
        /\ journal[w].replacement # NoVm => journal[w].removed
        /\ journal[w].removed => Gone(w) /\ "recreate" \in script.modes

\* What a recreate has established by the time of each call.
Recreating ==
    cmd.mode = "recreate" =>
        /\ cmd.pc \in {"stop", "poll", "swap", "journal", "create", "note"} =>
              \A v \in VMs : v = journal[cmd.vm].replacement => Gone(v)
        /\ cmd.pc \in {"journal", "create", "note", "save"} => Gone(cmd.vm)
        /\ cmd.pc \in {"create", "note"} => journal[cmd.vm].removed
        /\ cmd.pc = "save" => journal[cmd.vm].replacement = cmd.made

\* A created VM that is in no file is in no journal entry either.
Unwritten ==
    cmd.pc = "note" \/ (cmd.pc = "save" /\ cmd.mode \in {"deploy", "fresh"}) =>
        \A w \in VMs : journal[w].replacement # cmd.made

\* A VM the poll saw down stays down until the command starts it.
SeenDown ==
    /\ cmd.mode \in {"update", "fresh"} /\ cmd.pc \in {"swap", "start"}
    /\ cmd.saw \in Down \cup {"gone"}
    => Settled(cmd.vm)

\* A VM that a fresh one replaced is down or counted as unseen, one that a second deploy
\* went past is counted as displaced.
FreshReplaced ==
    /\ cmd.mode = "fresh" /\ cmd.pc = "save" => cmd.vm \in unseen \/ Settled(cmd.vm)
    /\ cmd.mode = "deploy" /\ cmd.pc = "save" => cmd.vm \in displaced \cup {NoVm}

\* What an update is about to boot is allowed and, in place, installed.
Approved ==
    cmd.mode \in {"update", "fresh"} /\ ~Quiet /\ cmd.pc # "approve" /\ ~cmd.denied
    => Built \in allowed
Installed ==
    cmd.mode = "update" /\ cmd.pc \in {"start", "save"} /\ cmd.saw # "refused" /\ Found(cmd.vm)
    => vms[cmd.vm].installed = Built

\* A VM that is up and not accounted for is the one of the state file, the one just
\* created or the journaled replacement of the one of the state file.
Whereabouts ==
    \A v \in VMs : Up(v) /\ v \notin Excused =>
        \/ v \in {record.vm, cmd.made}
        \/ record.vm \in VMs /\ v = journal[record.vm].replacement

IInv ==
    /\ TypeOK /\ Control /\ HandedOut /\ Journaled /\ Recreating /\ Unwritten
    /\ SeenDown /\ FreshReplaced /\ Approved /\ Installed /\ UpdateTookEffect
    /\ Whereabouts /\ NoTwins
-----------------------------------------------------------------------------
(* The helpers.                                                            *)

\* What every helper has in common: the hash mode measures what deploy and update
\* measure, and none both recreates and updates with a fresh disk.
Sound(s) ==
    /\ s.env.hash = s.env.built /\ s.env.built \subseteq Keys
    /\ s.born \in {"running", "stopped"}
    /\ s.modes \subseteq {"stop", "start"} \cup Rolls
    /\ "recreate" \in s.modes => "fresh" \notin s.modes /\ s.guarded

Envs == {Listed, ListedOnce, ListedFixed, MatrixEnv}

LEMMA EnvNames == \A e \in Envs : e.hash = e.built /\ e.built \subseteq Keys
<1> DEFINE Named(e) == e.hash = e.built /\ e.built \subseteq Keys
<1>1. Named(Listed)
  BY DEF Listed, Measured, Keys
<1>2. Named(ListedOnce)
  BY DEF ListedOnce, Measured, Keys
<1>3. Named(ListedFixed)
  BY DEF ListedFixed, Measured, Keys
<1>4. Named(MatrixEnv)
  BY DEF MatrixEnv, Measured, Keys
<1> QED BY <1>1, <1>2, <1>3, <1>4 DEF Envs

\* The drivers whose helper recreates nothing.
Plain(s) == Sound(s) /\ "recreate" \notin s.modes

LEMMA TolerantPlain ==
    ASSUME NEW e \in Envs, NEW born \in {"running", "stopped"},
           NEW modes \in SUBSET {"stop", "start", "fresh"}
    PROVE  Plain(Tolerant(e, born, modes))
BY EnvNames DEF Plain, Sound, Tolerant, Rolls

LEMMA CheckedPlain ==
    ASSUME NEW e \in Envs, NEW accepts, NEW modes \in SUBSET {"stop", "start"}
    PROVE  Plain(Checked(e, accepts, modes))
BY EnvNames DEF Plain, Sound, Checked, Rolls

\* What a record says of its driver is no part of what Plain asks of it.
LEMMA DriverPlain ==
    /\ \A e \in Envs, born \in {"running", "stopped"}, modes \in SUBSET {"stop", "start", "fresh"} :
          LET s == Tolerant(e, born, modes)
          IN  Plain(Halting(s)) /\ Plain(Guarded(Halting(s))) /\ Plain(Halting(Looking(s)))
    /\ \A e \in Envs, accepts \in SUBSET Statuses, modes \in SUBSET {"stop", "start"} :
          LET s == Checked(e, accepts, modes)
          IN  Plain(Guarded(s)) /\ Plain(Guarded(Halting(s)))
<1>1. ASSUME NEW e \in Envs, NEW born \in {"running", "stopped"},
             NEW modes \in SUBSET {"stop", "start", "fresh"}
      PROVE  LET s == Tolerant(e, born, modes)
             IN  Plain(Halting(s)) /\ Plain(Guarded(Halting(s))) /\ Plain(Halting(Looking(s)))
  BY TolerantPlain DEF Plain, Sound, Tolerant, Halting, Guarded, Looking
<1>2. ASSUME NEW e \in Envs, NEW accepts \in SUBSET Statuses,
             NEW modes \in SUBSET {"stop", "start"}
      PROVE  LET s == Checked(e, accepts, modes)
             IN  Plain(Guarded(s)) /\ Plain(Guarded(Halting(s)))
  BY CheckedPlain DEF Plain, Sound, Checked, Halting, Guarded
<1> QED BY <1>1, <1>2

LEMMA ScriptsSound == \A s \in AllScripts : Sound(s)
<1>0. /\ Listed \in Envs /\ ListedOnce \in Envs /\ ListedFixed \in Envs /\ MatrixEnv \in Envs
      /\ Down \in SUBSET Statuses /\ StartsWithStop \in SUBSET Statuses
  BY DEF Envs, Down, StartsWithStop, Statuses
<1> HIDE DEF Envs
<1>1. Plain(AgentSession) /\ Plain(Pocket) /\ Plain(FuguLb) /\ Plain(FuguRouter)
  BY <1>0, DriverPlain DEF AgentSession, Pocket, FuguLb, FuguRouter, AgentSessionEnv, PocketEnv,
     FuguLbEnv, FuguRouterEnv
<1>2. Sound(Generic)
  BY <1>0, EnvNames DEF Generic, GenericEnv, Guarded, Halting, Tolerant, Sound, Rolls
<1>3. Plain(Hermes) /\ Plain(Langfuse) /\ Plain(R2Host) /\ Plain(Runyard) /\ Plain(Ssh)
      /\ Plain(TelegramSync)
  BY <1>0, TolerantPlain DEF Hermes, Langfuse, R2Host, Runyard, Ssh, TelegramSync, HermesEnv,
     LangfuseEnv, R2HostEnv, RunyardEnv, SshEnv, TelegramSyncEnv
<1>4. Plain(Synclave) /\ Plain(Webhost)
  BY <1>0, DriverPlain DEF Synclave, Webhost, SynclaveEnv, WebhostEnv
<1>5. Plain(Hindsight) /\ Plain(Matrix)
  <2>1. \A e \in Envs : Plain(Tolerant(e, "running", {"fresh"}))
    BY TolerantPlain
  <2>2. Plain(Hindsight)
    BY <1>0, <2>1 DEF Hindsight, HindsightEnv, Plain, Sound, Tolerant
  <2>3. Plain(Matrix)
    BY <1>0, <2>1 DEF Matrix, Plain, Sound, Tolerant
  <2> QED BY <2>2, <2>3
<1>6. Plain(Clickhouse) /\ Plain(Redis) /\ Plain(DbHa) /\ Plain(PgHa)
  BY <1>0, DriverPlain DEF Clickhouse, Redis, DbHa, PgHa, ClickhouseEnv, RedisEnv, DbHaEnv, PgHaEnv
<1>7. Plain(Postgres)
  BY <1>0, CheckedPlain DEF Postgres, PostgresEnv
<1>8. Sound(Sandboxd)
  BY <1>0, EnvNames DEF Sandboxd, SandboxdEnv, Sound, Rolls
<1> QED
  BY <1>1, <1>2, <1>3, <1>4, <1>5, <1>6, <1>7, <1>8 DEF AllScripts, Plain

LEMMA BuiltType ==
    ASSUME script \in Scripts, source \in Sources
    PROVE  /\ Built \in Composes
           /\ HashCompose(script, source) = Built
<1>1. Sound(script)
  BY ScriptsSound, ScriptsAssumption
<1> QED
  BY <1>1 DEF Sound, Built, BuiltCompose, HashCompose, Composes, Keys
-----------------------------------------------------------------------------
(* What the calls do to a command and to a VM, and the types.              *)

Sights == Statuses \cup {"unseen", "gone", "blind", "timeout", "unwaited", "resumed", "refused",
                       "unstarted"}
Commands ==
    [mode : {"none", "deploy", "stop", "start"} \cup Rolls, pc : Calls,
     vm : VMs \cup {NoVm}, polls : 0..MaxPolls, saw : Sights,
     made : VMs \cup {NoVm}, denied : BOOLEAN]
VmStates == [VMs -> [status : Statuses, installed : Composes, booted : Composes]]

\* The next command is typed and, unless it has ended, goes on with the same VM.
Follows(c) ==
    c \in Commands /\ (c.pc # "idle" => ~Quiet /\ c.vm = cmd.vm)

LEMMA CommandTypes ==
    ASSUME cmd \in Commands
    PROVE  /\ Follows(Idle) /\ Follows(Fail)
           /\ ~Quiet => /\ \A pc \in Calls : Follows(To(pc))
                        /\ Follows(AfterStop) /\ Follows(AfterStart) /\ Follows(UpgradeRefused)
                        /\ \A saw \in Sights : Follows(AfterPoll(saw))
                        /\ cmd.polls < MaxPolls => Follows([cmd EXCEPT !.polls = @ + 1])
                        /\ \A pc \in Calls, saw \in Sights :
                              Follows([cmd EXCEPT !.pc = pc, !.saw = saw])
<1> USE DEF Follows, Commands
<1>0. 0 \in 0..MaxPolls
  BY MaxPollsAssumption
<1>1. Idle \in Commands /\ Idle.pc = "idle"
  BY <1>0, NoVmAssumption DEF Idle, Calls, Sights
<1>2. Follows(Idle) /\ Follows(Fail)
  BY <1>1 DEF Fail
<1> SUFFICES ASSUME ~Quiet
             PROVE  /\ \A pc \in Calls : Follows(To(pc))
                    /\ Follows(AfterStop) /\ Follows(AfterStart) /\ Follows(UpgradeRefused)
                    /\ \A saw \in Sights : Follows(AfterPoll(saw))
                    /\ cmd.polls < MaxPolls => Follows([cmd EXCEPT !.polls = @ + 1])
                    /\ \A pc \in Calls, saw \in Sights : Follows([cmd EXCEPT !.pc = pc, !.saw = saw])
  BY <1>2
<1>3. \A pc \in Calls : Follows(To(pc))
  BY DEF To
<1>4. \A pc \in Calls, saw \in Sights : Follows([cmd EXCEPT !.pc = pc, !.saw = saw])
  OBVIOUS
<1>5. \A saw \in Sights : Follows(AfterPoll(saw))
  <2> SUFFICES ASSUME NEW saw \in Sights PROVE Follows(AfterPoll(saw))
    OBVIOUS
  <2>1. Follows([cmd EXCEPT !.pc = "swap", !.saw = saw, !.polls = 0])
    BY <1>0 DEF Calls
  <2> HIDE DEF Follows, Commands
  <2> QED BY <1>2, <2>1 DEF AfterPoll
<1>6. cmd.polls < MaxPolls => Follows([cmd EXCEPT !.polls = @ + 1])
  BY MaxPollsAssumption
<1>7. {"swap", "poll", "save", "start"} \subseteq Calls /\ {"unwaited", "refused"} \subseteq Sights
  BY DEF Calls, Sights
<1> HIDE DEF Follows, Commands
<1>8. Follows(AfterStop)
  <2>1. \/ AfterStop = Idle
        \/ AfterStop = [cmd EXCEPT !.pc = "swap", !.saw = "unwaited"]
        \/ AfterStop = To("poll")
    BY DEF AfterStop
  <2>2. Follows([cmd EXCEPT !.pc = "swap", !.saw = "unwaited"]) /\ Follows(To("poll"))
    BY <1>3, <1>4, <1>7
  <2> QED BY <1>2, <2>1, <2>2
<1>9. Follows(AfterStart)
  <2>1. AfterStart = Idle \/ AfterStart = Fail \/ AfterStart = To("save")
    BY DEF AfterStart
  <2> QED BY <1>2, <1>3, <1>7, <2>1
<1>10. Follows(UpgradeRefused)
  BY <1>2, <1>4, <1>7 DEF UpgradeRefused
<1> QED BY <1>3, <1>4, <1>5, <1>6, <1>8, <1>9, <1>10

LEMMA VmTypes ==
    ASSUME vms \in VmStates, NEW v \in VMs
    PROVE  /\ \A st \in Statuses : WithStatus(v, st) \in VmStates
           /\ \A st \in Statuses, c \in Composes : NewVm(v, st, c) \in VmStates
           /\ Removed(v) \in VmStates /\ Stopping(v) \in VmStates /\ Started(v) \in VmStates
           /\ \A c \in Composes : [vms EXCEPT ![v].installed = c] \in VmStates
<1> USE DEF VmStates
<1>1. \A st \in Statuses : WithStatus(v, st) \in VmStates
  BY DEF WithStatus
<1>2. \A st \in Statuses, c \in Composes : NewVm(v, st, c) \in VmStates
  BY DEF NewVm
<1>3. NoCompose \in Composes /\ {"removed", "running", "stopping"} \subseteq Statuses
  BY DEF Composes, Statuses, Absent
<1>4. Removed(v) \in VmStates /\ Stopping(v) \in VmStates
  BY <1>1, <1>2, <1>3 DEF Removed, Stopping
<1>5. Started(v) \in VmStates
  BY <1>3 DEF Started
<1>6. \A c \in Composes : [vms EXCEPT ![v].installed = c] \in VmStates
  OBVIOUS
<1> QED BY <1>1, <1>2, <1>4, <1>5, <1>6
\* A step that leaves the helper alone and moves the command along keeps the types.
LEMMA TypeFrame ==
    ASSUME TypeOK, UNCHANGED script, source' \in Sources, allowed' \in SUBSET Composes,
           vms' \in VmStates, cmd' \in Commands, faults' \in 0..MaxFaults,
           record' \in [vm : VMs \cup {NoVm}, hash : Composes],
           journal' \in [VMs -> [removed : BOOLEAN, replacement : VMs \cup {NoVm}]],
           lost' \in SUBSET VMs, unseen' \in SUBSET VMs, displaced' \in SUBSET VMs,
           cmd'.pc # "idle" => cmd'.vm = record'.vm
    PROVE  TypeOK'
BY DEF TypeOK, Quiet, Commands, VmStates, Sights

\* The VM a command works on is one of the VMM's.
LEMMA Target ==
    ASSUME TypeOK, Control, ~Quiet, cmd.mode # "deploy"
    PROVE  cmd.vm \in VMs /\ cmd.vm = record.vm
BY DEF TypeOK, Control

LEMMA TypeStep ==
    ASSUME TypeOK, Control, [Next]_vars
    PROVE  TypeOK'
<1>1. /\ script \in Scripts /\ source \in Sources /\ allowed \in SUBSET Composes
      /\ vms \in VmStates /\ cmd \in Commands /\ faults \in 0..MaxFaults
      /\ record \in [vm : VMs \cup {NoVm}, hash : Composes]
      /\ journal \in [VMs -> [removed : BOOLEAN, replacement : VMs \cup {NoVm}]]
      /\ lost \in SUBSET VMs /\ unseen \in SUBSET VMs /\ displaced \in SUBSET VMs
      /\ cmd.pc # "idle" => cmd.vm = record.vm
  BY DEF TypeOK, Commands, VmStates, Sights, Quiet
<1>2. Built \in Composes /\ HashCompose(script, source) = Built
  BY <1>1, BuiltType
<1>3. Fault => faults' \in 0..MaxFaults
  BY <1>1, MaxFaultsAssumption DEF Fault
<1>4. cmd.pc \in {"approve", "stop", "poll", "swap", "start", "resume", "journal", "note"}
      => cmd.vm \in VMs
  BY Target DEF Control, Quiet, Rolls
<1>5. /\ Follows(Idle) /\ Follows(Fail)
      /\ cmd.pc # "idle" =>
            /\ \A pc \in Calls : Follows(To(pc))
            /\ Follows(AfterStop) /\ Follows(AfterStart) /\ Follows(UpgradeRefused)
            /\ \A saw \in Sights : Follows(AfterPoll(saw))
            /\ cmd.polls < MaxPolls => Follows([cmd EXCEPT !.polls = @ + 1])
            /\ \A pc \in Calls, saw \in Sights : Follows([cmd EXCEPT !.pc = pc, !.saw = saw])
  BY <1>1, CommandTypes DEF Quiet
<1>6. ASSUME Follows(cmd'), UNCHANGED record
      PROVE  cmd' \in Commands /\ (cmd'.pc # "idle" => cmd'.vm = record'.vm)
  BY <1>1, <1>6 DEF Follows, Quiet
<1>7. ASSUME Follows(cmd'), vms' \in VmStates, faults' \in 0..MaxFaults,
             UNCHANGED <<script, source, allowed, record, journal, history>>
      PROVE  TypeOK'
  BY <1>1, <1>6, <1>7, TypeFrame DEF history
<1>8. Calls = Calls \cup {"stop", "start", "save", "journal", "create", "poll", "note"}
  BY DEF Calls
<1>9. CASE Edit
  BY <1>1, <1>9, TypeFrame DEF Edit, history
<1>10. CASE Prime
  BY <1>1, <1>10, TypeFrame DEF Prime, history
<1>11. ASSUME NEW mode \in {"deploy", "stop", "start"} \cup Rolls, Begin(mode)
       PROVE  TypeOK'
  <2>1. FirstCall(mode) \in Calls
    BY <1>11 DEF FirstCall, Calls, Rolls
  <2>0. Idle \in Commands
    BY <1>5 DEF Follows
  <2>2. cmd' \in Commands /\ cmd'.vm = record.vm
    BY <1>1, <1>11, <2>0, <2>1 DEF Begin, Commands
  <2>3. faults' \in 0..MaxFaults
    BY <1>1, <1>3, <1>11 DEF Begin
  <2> QED BY <1>1, <1>11, <2>2, <2>3, TypeFrame DEF Begin, history
<1>12. CASE Approve
  <2>1. Follows(cmd')
    BY <1>5, <1>8, <1>12 DEF Approve
  <2> QED BY <1>1, <1>2, <1>6, <1>12, <2>1, TypeFrame DEF Approve, history
<1>36. CASE ApproveFails
  <2>1. Follows([cmd EXCEPT !.pc = "stop", !.denied = TRUE])
    BY <1>1, <1>8, <1>36 DEF ApproveFails, Follows, Commands, Quiet
  <2>2. Follows(cmd')
    BY <1>5, <1>36, <2>1 DEF ApproveFails
  <2>3. allowed' \in SUBSET Composes
    BY <1>1, <1>2, <1>36 DEF ApproveFails
  <2> QED BY <1>1, <1>3, <1>6, <1>36, <2>2, <2>3, TypeFrame DEF ApproveFails, history
<1>13. CASE StopVm
  <2>1. Follows(cmd')
    BY <1>5, <1>13 DEF StopVm
  <2> QED BY <1>1, <1>4, <1>7, <1>13, <2>1, VmTypes DEF StopVm
<1>14. CASE StopVmFault
  <2>1. Follows(cmd')
    BY <1>5, <1>14 DEF StopVmFault
  <2> QED BY <1>1, <1>3, <1>4, <1>7, <1>14, <2>1, VmTypes DEF StopVmFault
<1>15. CASE Poll
  <2>1. vms[cmd.vm].status \in Sights /\ "gone" \in Sights
    BY <1>1, <1>4, <1>15 DEF Poll, VmStates, Sights
  <2>2. Follows(cmd')
    BY <1>5, <1>15, <2>1 DEF Poll
  <2> QED BY <1>1, <1>7, <1>15, <2>2 DEF Poll
<1>16. CASE PollFault
  <2>1. "blind" \in Sights
    BY DEF Sights
  <2>2. Follows(cmd')
    BY <1>5, <1>16, <2>1 DEF PollFault
  <2> QED BY <1>1, <1>3, <1>7, <1>16, <2>2 DEF PollFault
<1>17. CASE PollTimeout
  <2>1. "timeout" \in Sights
    BY DEF Sights
  <2>2. Follows(cmd')
    BY <1>5, <1>17, <2>1 DEF PollTimeout
  <2> QED BY <1>1, <1>7, <1>17, <2>2 DEF PollTimeout
<1>18. CASE UpgradeApp
  <2>1. Follows(cmd')
    BY <1>5, <1>8, <1>18 DEF UpgradeApp
  <2> QED BY <1>1, <1>2, <1>4, <1>7, <1>18, <2>1, VmTypes DEF UpgradeApp
<1>37. CASE UpgradeAppFault
  <2>1. Follows(cmd')
    BY <1>5, <1>37 DEF UpgradeAppFault
  <2> QED BY <1>1, <1>3, <1>7, <1>37, <2>1 DEF UpgradeAppFault
<1>19. CASE StartVm
  <2>1. Follows(cmd')
    BY <1>5, <1>19 DEF StartVm
  <2> QED BY <1>1, <1>4, <1>7, <1>19, <2>1, VmTypes DEF StartVm
<1>20. CASE StartVmRefused
  <2>0. "unstarted" \in Sights
    BY DEF Sights
  <2>1. Follows(cmd')
    BY <1>5, <1>8, <1>20, <2>0 DEF StartVmRefused
  <2> QED BY <1>1, <1>3, <1>7, <1>20, <2>1 DEF StartVmRefused
<1>21. ASSUME NEW v \in VMs, NEW pc \in Calls, ~Quiet,
              cmd' = [cmd EXCEPT !.pc = pc, !.made = v],
              NEW st \in Statuses, vms' = NewVm(v, st, Built)
       PROVE  Follows(cmd') /\ vms' \in VmStates
  BY <1>1, <1>2, <1>21, VmTypes DEF Follows, Commands
<1>22. script.born \in Statuses /\ "running" \in Statuses
  BY <1>1, ScriptsSound, ScriptsAssumption DEF Sound, Statuses, Down
<1>23. CASE DeployVm
  <2>1. Follows(cmd') /\ vms' \in VmStates
    BY <1>8, <1>21, <1>22, <1>23 DEF DeployVm, Quiet
  <2>2. cmd.vm \in VMs \cup {NoVm}
    BY <1>1 DEF Commands
  <2> QED BY <1>1, <1>6, <1>23, <2>1, <2>2, TypeFrame DEF DeployVm
<1>24. CASE FreshVm
  <2>1. Follows(cmd') /\ vms' \in VmStates
    BY <1>8, <1>21, <1>22, <1>24 DEF FreshVm, Quiet
  <2> QED BY <1>1, <1>4, <1>6, <1>24, <2>1, TypeFrame DEF FreshVm
<1>25. CASE Resume
  <2>1. journal[cmd.vm].replacement \in VMs \cup {NoVm}
    BY <1>1, <1>4, <1>25 DEF Resume
  <2>2. Follows([cmd EXCEPT !.pc = "save", !.made = journal[cmd.vm].replacement,
                            !.saw = "resumed"])
    BY <1>1, <1>8, <1>25, <2>1 DEF Resume, Follows, Commands, Sights, Quiet
  <2>3. Follows(cmd')
    BY <1>5, <1>8, <1>25, <2>2 DEF Resume
  <2> QED BY <1>1, <1>7, <1>25, <2>3 DEF Resume
<1>26. CASE RemoveVm
  <2>1. Follows(cmd')
    BY <1>5, <1>8, <1>26 DEF RemoveVm
  <2> QED BY <1>1, <1>4, <1>7, <1>26, <2>1, VmTypes DEF RemoveVm
<1>27. CASE JournalRemoved
  <2>1. Follows(cmd')
    BY <1>5, <1>8, <1>27 DEF JournalRemoved
  <2>2. journal' \in [VMs -> [removed : BOOLEAN, replacement : VMs \cup {NoVm}]]
    BY <1>1, <1>27 DEF JournalRemoved
  <2> QED BY <1>1, <1>6, <1>27, <2>1, <2>2, TypeFrame DEF JournalRemoved, history
<1>28. CASE RecreateVm
  BY <1>1, <1>7, <1>8, <1>21, <1>22, <1>28 DEF RecreateVm, Quiet
<1>29. CASE JournalReplacement
  <2>1. Follows(cmd')
    BY <1>5, <1>8, <1>29 DEF JournalReplacement
  <2>2. journal' \in [VMs -> [removed : BOOLEAN, replacement : VMs \cup {NoVm}]]
    BY <1>1, <1>29 DEF JournalReplacement, Commands
  <2> QED BY <1>1, <1>6, <1>29, <2>1, <2>2, TypeFrame DEF JournalReplacement, history
<1>30. CASE Save
  <2>1. record' \in [vm : VMs \cup {NoVm}, hash : Composes]
    BY <1>1, <1>2, <1>30 DEF Save, Commands
  <2>2. cmd' \in Commands /\ cmd'.pc = "idle"
    BY <1>5, <1>30 DEF Save, Follows, Idle
  <2> QED BY <1>1, <1>30, <2>1, <2>2, TypeFrame DEF Save, history
<1>31. CASE Crash
  <2>1. lost' \in SUBSET VMs
    BY <1>1, <1>31 DEF Crash, Commands
  <2> QED BY <1>1, <1>3, <1>5, <1>6, <1>31, <2>1, TypeFrame DEF Crash
<1>32. Follows(cmd)
  BY <1>1 DEF Follows, Quiet
<1>33. CASE VmmStops \/ GuestExits
  <2>1. vms' \in VmStates
    BY <1>1, <1>33, VmTypes DEF VmmStops, GuestExits, Statuses, Down
  <2> QED BY <1>1, <1>7, <1>32, <1>33, <2>1 DEF VmmStops, GuestExits
<1>34. CASE RemovedByHand
  <2>1. vms' \in VmStates
    BY <1>1, <1>34, VmTypes DEF RemovedByHand
  <2>2. Follows(cmd')
    BY <1>32, <1>34 DEF RemovedByHand
  <2> QED BY <1>3, <1>7, <1>34, <2>1, <2>2 DEF RemovedByHand
<1>35. CASE UNCHANGED vars
  BY <1>1, <1>7, <1>32, <1>35 DEF vars, history
<1> QED
  BY <1>9, <1>10, <1>11, <1>12, <1>13, <1>14, <1>15, <1>16, <1>17, <1>18, <1>19, <1>20,
     <1>23, <1>24, <1>25, <1>26, <1>27, <1>28, <1>29, <1>30, <1>31, <1>33, <1>34, <1>35,
     <1>36, <1>37
     DEF Next
\* How a command moves along: it ends, or goes on to another call with the same VM.
Ended(c) ==
    c.pc = "idle" /\ c.made = NoVm /\ c.mode = "none" /\ ~c.denied
Goes(c, pc) ==
    /\ c.pc = pc /\ c.mode = cmd.mode /\ c.vm = cmd.vm /\ c.made = cmd.made
    /\ c.denied = cmd.denied

LEMMA IdleEnds == Ended(Idle) /\ Ended(Fail)
BY DEF Ended, Idle, Fail

LEMMA StopMoves ==
    ASSUME cmd \in Commands, StopVm \/ StopVmFault
    PROVE  \/ Ended(cmd')
           \/ Goes(cmd', "poll")
           \/ Goes(cmd', "swap") /\ cmd.mode = "fresh" /\ cmd'.saw = "unwaited"
<1> DEFINE Ok(c) == \/ Ended(c)
                    \/ Goes(c, "poll")
                    \/ Goes(c, "swap") /\ cmd.mode = "fresh" /\ c.saw = "unwaited"
<1>1. Ok(AfterStop)
  <2>1. Goes(To("poll"), "poll")
    BY DEF Goes, To, Commands
  <2>2. /\ Goes([cmd EXCEPT !.pc = "swap", !.saw = "unwaited"], "swap")
        /\ [cmd EXCEPT !.pc = "swap", !.saw = "unwaited"].saw = "unwaited"
    BY DEF Goes, Commands
  <2>3. CASE cmd.mode = "stop" /\ script.stop # "waited"
    BY <2>3, IdleEnds DEF AfterStop
  <2>4. CASE cmd.mode = "fresh" /\ script.stop = "unchecked"
    BY <2>2, <2>4 DEF AfterStop
  <2>5. CASE ~(cmd.mode = "stop" /\ script.stop # "waited")
             /\ ~(cmd.mode = "fresh" /\ script.stop = "unchecked")
    BY <2>1, <2>5 DEF AfterStop
  <2> QED BY <2>3, <2>4, <2>5
<1>2. Ok(Fail)
  BY IdleEnds
<1>5. cmd' \in {AfterStop, Fail}
  BY DEF StopVm, StopVmFault
<1> SUFFICES Ok(cmd')
  OBVIOUS
<1> HIDE DEF Ok
<1> QED BY <1>1, <1>2, <1>5

LEMMA PollMoves ==
    ASSUME cmd \in Commands, vms \in VmStates, cmd.vm \in VMs, Poll \/ PollFault \/ PollTimeout
    PROVE  \/ Ended(cmd')
           \/ Goes(cmd', "poll")
           \/ /\ Goes(cmd', "swap") /\ cmd.mode # "stop"
              /\ cmd'.saw \in Down \cup {"gone"}
                 => vms[cmd.vm].status \in Down \cup Absent
<1> DEFINE Ok(c) == \/ Ended(c)
                    \/ Goes(c, "poll")
                    \/ /\ Goes(c, "swap") /\ cmd.mode # "stop"
                       /\ c.saw \in Down \cup {"gone"}
                          => vms[cmd.vm].status \in Down \cup Absent
<1>1. ASSUME NEW saw \in Sights,
             saw \in Down \cup {"gone"} => vms[cmd.vm].status \in Down \cup Absent
      PROVE  Ok(AfterPoll(saw))
  <2>1. CASE cmd.mode = "stop"
    BY <2>1, IdleEnds DEF AfterPoll
  <2>2. CASE cmd.mode # "stop"
    <3> DEFINE c == [cmd EXCEPT !.pc = "swap", !.saw = saw, !.polls = 0]
    <3>1. AfterPoll(saw) = c
      BY <2>2 DEF AfterPoll
    <3>2. Goes(c, "swap") /\ c.saw = saw
      BY DEF Goes, Commands
    <3> QED BY <1>1, <2>2, <3>1, <3>2
  <2> QED BY <2>1, <2>2
<1>2. Ok([cmd EXCEPT !.polls = @ + 1])
  BY DEF Goes, Commands, Poll, PollFault, PollTimeout
<1>3. Ok(Fail)
  BY IdleEnds
<1> SUFFICES Ok(cmd')
  OBVIOUS
<1> HIDE DEF Ok
<1>5. {"blind", "timeout", "gone"} \cup Statuses \subseteq Sights
  BY DEF Sights
<1>6. "blind" \notin Down \cup {"gone"} /\ "timeout" \notin Down \cup {"gone"} /\ "gone" \notin Down
  BY DEF Down
<1>8. CASE Poll
  <2>1. vms[cmd.vm].status \in Statuses
    BY DEF VmStates
  <2>2. CASE vms[cmd.vm].status \in script.accepts
    <3>1. vms[cmd.vm].status \in Down \cup {"gone"} => vms[cmd.vm].status \in Down \cup Absent
      BY <2>1 DEF Statuses, Down, Absent
    <3> QED BY <1>1, <1>5, <1>8, <2>1, <2>2, <3>1 DEF Poll
  <2>3. CASE vms[cmd.vm].status \notin script.accepts /\ ~Found(cmd.vm) /\ script.gone
    <3>1. vms[cmd.vm].status \in Down \cup Absent
      BY <2>3 DEF Found
    <3> QED BY <1>1, <1>5, <1>8, <2>3, <3>1 DEF Poll
  <2>4. CASE vms[cmd.vm].status \notin script.accepts /\ ~(~Found(cmd.vm) /\ script.gone)
    BY <1>2, <1>8, <2>4 DEF Poll
  <2> QED BY <2>2, <2>3, <2>4
<1>9. CASE PollFault
  <2>1. Ok(AfterPoll("blind"))
    BY <1>1, <1>5, <1>6
  <2> QED BY <1>2, <1>3, <1>9, <2>1 DEF PollFault
<1>10. CASE PollTimeout
  <2>1. Ok(AfterPoll("timeout"))
    BY <1>1, <1>5, <1>6
  <2> QED BY <1>3, <1>10, <2>1 DEF PollTimeout
<1> QED BY <1>8, <1>9, <1>10

LEMMA UpgradeMoves ==
    ASSUME cmd \in Commands, UpgradeApp \/ UpgradeAppFault
    PROVE  \/ Ended(cmd') /\ UNCHANGED vms
           \/ /\ Goes(cmd', "start") /\ cmd.mode = "update"
              /\ \/ cmd'.saw = "refused" /\ UNCHANGED vms
                 \/ /\ cmd'.saw = cmd.saw /\ UpgradeApp
                    /\ vms' = [vms EXCEPT ![cmd.vm].installed = Built]
<1>1. CASE cmd' = UpgradeRefused /\ UNCHANGED vms
  <2>1. CASE script.stop = "unchecked"
    <3>1. cmd' = [cmd EXCEPT !.pc = "start", !.saw = "refused"]
      BY <1>1, <2>1 DEF UpgradeRefused
    <3> QED BY <1>1, <3>1 DEF Goes, Commands, UpgradeApp, UpgradeAppFault
  <2>2. CASE script.stop # "unchecked"
    BY <1>1, <2>2, IdleEnds DEF UpgradeRefused
  <2> QED BY <2>1, <2>2
<1>2. CASE cmd' = To("start") /\ UpgradeApp /\ vms' = [vms EXCEPT ![cmd.vm].installed = Built]
  BY <1>2 DEF Goes, To, Commands, UpgradeApp
<1> QED BY <1>1, <1>2 DEF UpgradeApp, UpgradeAppFault

LEMMA StartMoves ==
    ASSUME cmd \in Commands, StartVm \/ StartVmRefused
    PROVE  \/ Ended(cmd')
           \/ /\ Goes(cmd', "save") /\ cmd.mode # "start" /\ cmd.saw # "refused"
              /\ (StartVm /\ cmd'.saw = cmd.saw) \/ cmd'.saw = "unstarted"
<1>1. CASE cmd' \in {Idle, Fail}
  BY <1>1, IdleEnds
<1>2. CASE cmd' = To("save") /\ StartVm /\ cmd.mode # "start" /\ cmd.saw # "refused"
  BY <1>2 DEF To, Goes, Commands
<1>3. CASE /\ cmd' = [cmd EXCEPT !.pc = "save", !.saw = "unstarted"]
           /\ StartVmRefused /\ cmd.saw # "refused"
  BY <1>3 DEF Goes, Commands, StartVmRefused
<1>4. StartVm => \/ cmd' \in {Idle, Fail}
                 \/ cmd' = To("save") /\ cmd.mode # "start" /\ cmd.saw # "refused"
  BY DEF StartVm, AfterStart
<1> QED BY <1>1, <1>2, <1>3, <1>4 DEF StartVmRefused

LEMMA ControlStep ==
    ASSUME TypeOK, Control, [Next]_vars
    PROVE  Control'
<1>0. cmd \in Commands
  BY DEF TypeOK, Commands, Sights
<1> USE NoVmAssumption DEF Control, Quiet, Rolls, Commands
<1>1. CASE Save \/ Crash
  BY <1>0, <1>1 DEF Save, Crash, Idle
<1>2. CASE Edit \/ Prime \/ VmmStops \/ GuestExits \/ RemovedByHand \/ UNCHANGED vars
  BY <1>0, <1>2 DEF Edit, Prime, VmmStops, GuestExits, RemovedByHand, vars
<1>3. ASSUME NEW mode \in {"deploy", "stop", "start"} \cup Rolls, Begin(mode)
      PROVE  Control'
  BY <1>0, <1>3 DEF Begin, Idle, FirstCall
<1>4. CASE Approve
  BY <1>0, <1>4 DEF Approve, To
<1>7. CASE ApproveFails
  BY <1>0, <1>7 DEF ApproveFails, Fail, Idle
<1>5. CASE StopVm \/ StopVmFault
  <2>1. cmd.pc = "stop" /\ script' = script
    BY <1>5 DEF StopVm, StopVmFault
  <2> QED BY <1>0, <1>5, <2>1, StopMoves DEF Ended, Goes
<1>6. CASE Poll \/ PollFault \/ PollTimeout
  <2>1. cmd.pc = "poll" /\ script' = script
    BY <1>6 DEF Poll, PollFault, PollTimeout
  <2>2. vms \in VmStates /\ cmd.vm \in VMs
    BY <2>1, Target DEF TypeOK, VmStates
  <2> QED BY <1>0, <1>6, <2>1, <2>2, PollMoves DEF Ended, Goes
<1>8. CASE UpgradeApp \/ UpgradeAppFault
  <2>1. cmd.pc = "swap" /\ script' = script
    BY <1>8 DEF UpgradeApp, UpgradeAppFault
  <2> QED BY <1>0, <1>8, <2>1, UpgradeMoves DEF Ended, Goes
<1>9. CASE StartVm \/ StartVmRefused
  <2>1. cmd.pc = "start" /\ script' = script
    BY <1>9 DEF StartVm, StartVmRefused
  <2> QED BY <1>0, <1>9, <2>1, StartMoves DEF Ended, Goes
<1>10. CASE DeployVm \/ FreshVm \/ RecreateVm
  <2>1. CASE DeployVm
    BY <1>0, <2>1 DEF DeployVm
  <2>2. CASE FreshVm
    BY <1>0, <2>2 DEF FreshVm
  <2>3. CASE RecreateVm
    BY <1>0, <2>3 DEF RecreateVm
  <2> QED BY <1>10, <2>1, <2>2, <2>3
<1>11. CASE Resume
  BY <1>0, <1>11 DEF Resume, To
<1>12. CASE RemoveVm \/ JournalRemoved \/ JournalReplacement
  BY <1>0, <1>12 DEF RemoveVm, JournalRemoved, JournalReplacement, To, Fail, Idle
<1> QED
  BY <1>1, <1>2, <1>3, <1>4, <1>5, <1>6, <1>7, <1>8, <1>9, <1>10, <1>11, <1>12 DEF Next
-----------------------------------------------------------------------------
(* What one step may do to one VM.                                         *)

Creates == DeployVm \/ FreshVm \/ RecreateVm

\* A VM comes up only by being created or started, one that is removed stays so, and
\* its compose changes only by UpgradeApp and by being started.
VmMoves(v) ==
    /\ Gone(v) => Gone(v)'
    /\ vms[v].status # "none" => vms'[v].status # "none"
    /\ Settled(v) => Settled(v)' \/ (StartVm /\ v = cmd.vm /\ vms[v].status \in Down)
    /\ vms'[v].status = "running" =>
          \/ vms[v].status = "running"
          \/ StartVm /\ v = cmd.vm /\ vms[v].status \in Down
          \/ Creates /\ v = cmd'.made
    /\ Up(v)' => \/ Up(v)
                 \/ StartVm /\ v = cmd.vm /\ vms[v].status \in Down
                 \/ Creates /\ v = cmd'.made /\ vms[v].status = "none"
    /\ vms[v].status = "none" => vms'[v].status = "none" \/ (Creates /\ v = cmd'.made)
    /\ vms[v].status # "none" /\ vms'[v].status \notin Absent =>
          /\ vms'[v].installed = vms[v].installed \/ (UpgradeApp /\ v = cmd.vm)
          /\ vms'[v].booted = vms[v].booted \/ (StartVm /\ v = cmd.vm /\ vms[v].status \in Down)

LEMMA VmStep ==
    ASSUME TypeOK, Control, [Next]_vars, NEW v \in VMs
    PROVE  VmMoves(v)
<1>0. vms \in VmStates /\ cmd \in Commands
  BY DEF TypeOK, VmStates, Commands, Sights
<1> USE DEF VmMoves, Gone, Settled, Up, VmStates, Statuses, Down, Absent
<1>1. CASE UNCHANGED vms
  BY <1>0, <1>1
<1>2. CASE (StopVm \/ StopVmFault) /\ vms' # vms
  <2>1. cmd.vm \in VMs /\ vms' = WithStatus(cmd.vm, "stopping") /\ vms[cmd.vm].status = "running"
    BY <1>2, Target DEF StopVm, StopVmFault, Stopping, Control, Quiet, Rolls
  <2> QED BY <1>0, <2>1 DEF WithStatus
<1>3. CASE UpgradeApp
  <2>1. cmd.vm \in VMs
    BY <1>3, Target DEF UpgradeApp, Quiet
  <2> QED BY <1>0, <1>3, <2>1 DEF UpgradeApp
<1>4. CASE StartVm
  <2>1. cmd.vm \in VMs /\ vms' = Started(cmd.vm)
    BY <1>4, Target DEF StartVm, Quiet, Control
  <2> QED BY <1>0, <1>4, <2>1 DEF Started
<1>5. CASE Creates
  <2>1. PICK w \in VMs : /\ vms[w].status = "none" /\ cmd'.made = w
                         /\ \E st \in {"running", script.born} : vms' = NewVm(w, st, Built)
    BY <1>0, <1>5 DEF Creates, DeployVm, FreshVm, RecreateVm, Commands
  <2> QED BY <1>0, <1>5, <2>1 DEF NewVm
<1>6. CASE RemoveVm /\ vms' # vms
  <2>1. cmd.vm \in VMs /\ vms' = Removed(cmd.vm) /\ Found(cmd.vm)
    BY <1>6, Target DEF RemoveVm, Quiet
  <2> QED BY <1>0, <2>1 DEF Removed, NewVm, Found
<1>7. CASE VmmStops \/ GuestExits
  BY <1>0, <1>7 DEF VmmStops, GuestExits, WithStatus
<1>8. CASE RemovedByHand
  BY <1>0, <1>8 DEF RemovedByHand, Removed, NewVm
<1>9. CASE \/ Edit \/ Prime \/ Approve \/ ApproveFails \/ Poll \/ PollFault \/ PollTimeout
           \/ UpgradeAppFault \/ StartVmRefused
           \/ Resume \/ JournalRemoved \/ JournalReplacement \/ Save \/ Crash \/ UNCHANGED vars
           \/ \E mode \in {"deploy", "stop", "start"} \cup Rolls : Begin(mode)
  <2>1. UNCHANGED vms
    BY <1>9 DEF Edit, Prime, Approve, ApproveFails, Poll, PollFault, PollTimeout,
       UpgradeAppFault, StartVmRefused, Resume, JournalRemoved, JournalReplacement, Save, Crash, vars, Begin
  <2> QED BY <1>1, <2>1
<1> QED
  BY <1>1, <1>2, <1>3, <1>4, <1>5, <1>6, <1>7, <1>8, <1>9 DEF Next, Creates
-----------------------------------------------------------------------------
(* The state file and the journal.                                         *)

Files == HandedOut /\ Journaled /\ Recreating /\ Unwritten

\* A step that writes neither file and ends the command, stays at its call or takes it
\* to a call before anything is removed or created.
LEMMA FilesFrame ==
    ASSUME TypeOK, Control, Files, [Next]_vars, Control', UNCHANGED <<script, record, journal>>,
           \/ Ended(cmd')
           \/ Goes(cmd', cmd.pc)
           \/ cmd'.pc \in {"poll", "swap"} /\ cmd.pc \in {"stop", "poll"} /\ Goes(cmd', cmd'.pc)
           \/ cmd'.mode # "recreate" /\ cmd'.made = NoVm
    PROVE  Files'
<1>1. \A v \in VMs : VmMoves(v)
  BY VmStep
<1>2. HandedOut'
  BY <1>1, NoVmAssumption DEF Files, HandedOut, Ended, Goes, VmMoves
<1>3. Journaled'
  BY <1>1 DEF Files, Journaled, VmMoves
<1>4. cmd.mode = "recreate" /\ ~Quiet => cmd.vm \in VMs
  BY Target
<1>5. Recreating'
  BY <1>1, <1>4 DEF Files, Recreating, Ended, Goes, VmMoves, Quiet
<1>6. Unwritten'
  BY NoVmAssumption DEF Files, Unwritten, Ended, Goes, Control, TypeOK
<1> QED BY <1>2, <1>3, <1>5, <1>6 DEF Files
LEMMA FilesStep ==
    ASSUME TypeOK, Control, Files, [Next]_vars
    PROVE  Files'
<1>0. /\ cmd \in Commands /\ vms \in VmStates
      /\ journal \in [VMs -> [removed : BOOLEAN, replacement : VMs \cup {NoVm}]]
  BY DEF TypeOK, VmStates, Commands, Sights
<1>1. TypeOK' /\ Control' /\ \A v \in VMs : VmMoves(v)
  BY TypeStep, ControlStep, VmStep
<1>2. CASE \/ Edit \/ Crash \/ Prime \/ VmmStops \/ GuestExits \/ RemovedByHand \/ UNCHANGED vars
  <2>1. UNCHANGED <<script, record, journal>> /\ (Ended(cmd') \/ Goes(cmd', cmd.pc))
    BY <1>0, <1>2, IdleEnds DEF Edit, Crash, Prime, VmmStops, GuestExits,
       RemovedByHand, vars, Goes
  <2> QED BY <1>1, <2>1, FilesFrame
<1>3. CASE \/ StopVm \/ StopVmFault \/ Poll \/ PollFault \/ PollTimeout
  <2>1. UNCHANGED <<script, record, journal>> /\ cmd.pc \in {"stop", "poll"}
    BY <1>3 DEF StopVm, StopVmFault, Poll, PollFault, PollTimeout
  <2>2. cmd.vm \in VMs
    BY <2>1, Target DEF Control, Quiet, Rolls
  <2>3. \/ Ended(cmd')
        \/ cmd'.pc \in {"poll", "swap"} /\ Goes(cmd', cmd'.pc)
    BY <1>0, <1>3, <2>2, StopMoves, PollMoves DEF Goes
  <2> QED BY <1>1, <2>1, <2>3, FilesFrame
<1>4. CASE Approve \/ ApproveFails \/ UpgradeApp \/ UpgradeAppFault
  <2>1. UNCHANGED <<script, record, journal>> /\ cmd.pc \in {"approve", "swap"}
    BY <1>4 DEF Approve, ApproveFails, UpgradeApp, UpgradeAppFault
  <2>2. Ended(cmd') \/ (cmd'.mode # "recreate" /\ cmd'.made = NoVm)
    <3>1. CASE Approve \/ ApproveFails
      BY <1>0, <3>1, IdleEnds DEF Approve, ApproveFails, To, Control, Commands
    <3>2. CASE UpgradeApp \/ UpgradeAppFault
      BY <1>0, <2>1, <3>2, UpgradeMoves DEF Goes, Control
    <3> QED BY <1>4, <3>1, <3>2
  <2> QED BY <1>1, <2>1, <2>2, FilesFrame
<1>5. CASE StartVm \/ StartVmRefused
  <2>1. /\ UNCHANGED <<script, record, journal>>
        /\ Ended(cmd') \/ (cmd'.mode # "recreate" /\ cmd'.made = NoVm)
    BY <1>0, <1>5, StartMoves DEF StartVm, StartVmRefused, Goes, Control
  <2> QED BY <1>1, <2>1, FilesFrame
<1>6. ASSUME NEW mode \in {"deploy", "stop", "start"} \cup Rolls, Begin(mode)
      PROVE  Files'
  <2>1. /\ UNCHANGED <<script, record, journal>> /\ cmd'.made = NoVm
        /\ cmd'.mode = mode /\ cmd'.pc = FirstCall(mode)
    BY <1>6 DEF Begin, Idle
  <2>2. mode = "recreate" => cmd'.pc = "resume"
    BY <2>1 DEF FirstCall
  <2>3. Recreating' /\ Unwritten'
    BY <1>1, <2>1, <2>2 DEF Recreating, Unwritten, Control
  <2> QED
    BY <1>1, <2>1, <2>3, NoVmAssumption DEF Files, HandedOut, Journaled, VmMoves
<1>7. CASE Creates
  <2>1. PICK v \in VMs : /\ vms[v].status = "none" /\ cmd'.made = v
                         /\ \E st \in {"running", script.born} : vms' = NewVm(v, st, Built)
    BY <1>0, <1>7 DEF Creates, DeployVm, FreshVm, RecreateVm, Commands
  <2>2. vms'[v].status # "none"
    BY <1>0, <2>1, ScriptsSound, ScriptsAssumption DEF NewVm, VmStates, Sound, TypeOK
  <2>3. /\ UNCHANGED <<script, record, journal>> /\ cmd'.mode = cmd.mode /\ cmd'.vm = cmd.vm
        /\ cmd'.mode = "recreate" => cmd.pc = "create" /\ cmd'.pc = "note"
    BY <1>0, <1>7 DEF Creates, DeployVm, FreshVm, RecreateVm, Commands
  <2>4. \A w \in VMs : journal[w].replacement # v
    BY <2>1 DEF Files, HandedOut
  <2>5. HandedOut' /\ Journaled' /\ Unwritten'
    BY <1>1, <2>1, <2>2, <2>3, <2>4 DEF Files, HandedOut, Journaled, Unwritten, VmMoves
  <2>6. cmd.mode = "recreate" /\ ~Quiet => cmd.vm \in VMs
    BY Target
  <2>7. Recreating'
    BY <1>1, <2>3, <2>6 DEF Files, Recreating, VmMoves, Quiet
  <2> QED BY <2>5, <2>7 DEF Files
<1>8. CASE Resume
  <2>1. /\ UNCHANGED <<script, record, journal, vms>> /\ cmd.pc = "resume"
        /\ cmd.mode = "recreate" /\ cmd.vm \in VMs
    BY <1>8, Target DEF Resume, Control, Quiet
  <2>2. cmd'.mode = cmd.mode /\ cmd'.vm = cmd.vm
    BY <1>0, <1>8 DEF Resume, To, Commands
  <2>3. CASE journal[cmd.vm].replacement # NoVm /\ Found(journal[cmd.vm].replacement)
    <3>1. cmd'.pc = "save" /\ cmd'.made = journal[cmd.vm].replacement
      BY <1>0, <1>8, <2>3 DEF Resume, Commands
    <3> QED BY <1>0, <2>1, <2>2, <2>3, <3>1
            DEF Files, HandedOut, Journaled, Recreating, Unwritten, Gone
  <2>4. CASE ~(journal[cmd.vm].replacement # NoVm /\ Found(journal[cmd.vm].replacement))
    <3>1. /\ cmd'.made = NoVm /\ cmd'.pc \in {"create", "stop", "journal"}
          /\ cmd'.pc = "create" => journal[cmd.vm].removed
          /\ cmd'.pc = "journal" => ~Found(cmd.vm)
      BY <1>0, <1>8, <2>1, <2>4 DEF Resume, To, Control, Commands
    <3>2. \A v \in VMs : v = journal[cmd.vm].replacement => Gone(v)
      BY <2>1, <2>4, NoVmAssumption DEF Files, HandedOut, Gone, Found, Absent
    <3>3. cmd'.pc \in {"create", "journal"} => Gone(cmd.vm)
      BY <2>1, <3>1 DEF Files, HandedOut, Journaled, Gone, Found, Absent, TypeOK, Quiet
    <3> QED BY <2>1, <2>2, <3>1, <3>2, <3>3, NoVmAssumption
            DEF Files, HandedOut, Journaled, Recreating, Unwritten, Gone
  <2> QED BY <2>3, <2>4
<1>9. CASE RemoveVm
  <2>1. /\ UNCHANGED <<script, record, journal>> /\ cmd.pc = "swap"
        /\ cmd.mode = "recreate" /\ cmd.vm \in VMs /\ cmd.vm = record.vm
    BY <1>9, Target DEF RemoveVm, Quiet
  <2>2. CASE cmd' = Fail
    BY <1>0, <1>1, <2>1, <2>2, FilesFrame, IdleEnds
  <2>3. CASE cmd' = To("journal") /\ vms' = IF Found(cmd.vm) THEN Removed(cmd.vm) ELSE vms
    <3>1. /\ cmd'.pc = "journal" /\ cmd'.mode = cmd.mode /\ cmd'.vm = cmd.vm
          /\ cmd'.made = NoVm
      BY <1>0, <2>1, <2>3 DEF To, Control, Commands
    <3>2. Gone(cmd.vm)'
      <4>1. CASE Found(cmd.vm)
        BY <1>0, <2>1, <2>3, <3>1, <4>1 DEF Gone, Removed, NewVm, VmStates
      <4>2. CASE ~Found(cmd.vm)
        BY <2>1, <2>3, <3>1, <4>2 DEF Gone, Found, Absent, Files, HandedOut
      <4> QED BY <4>1, <4>2
    <3>3. Recreating'
      BY <1>1, <2>1, <3>1, <3>2 DEF Files, Recreating, VmMoves
    <3> QED BY <1>1, <2>1, <3>1, <3>3, NoVmAssumption
            DEF Files, HandedOut, Journaled, Unwritten, VmMoves
  <2> QED BY <1>9, <2>2, <2>3 DEF RemoveVm
<1>10. CASE JournalRemoved
  <2>1. /\ UNCHANGED <<script, record, vms>> /\ cmd.pc = "journal"
        /\ cmd.mode = "recreate" /\ cmd.vm \in VMs
        /\ journal' = [journal EXCEPT ![cmd.vm] = [removed |-> TRUE, replacement |-> NoVm]]
    BY <1>10, Target DEF JournalRemoved, Control, Quiet
  <2>2. /\ cmd'.pc = "create" /\ cmd'.mode = cmd.mode /\ cmd'.vm = cmd.vm
        /\ cmd'.made = NoVm
    BY <1>0, <1>10 DEF JournalRemoved, To, Control, Commands
  <2>3. Gone(cmd.vm) /\ "recreate" \in script.modes
    BY <2>1 DEF Files, Recreating, Control
  <2> QED BY <1>0, <2>1, <2>2, <2>3, NoVmAssumption
          DEF Files, HandedOut, Journaled, Recreating, Unwritten, Gone
<1>11. CASE JournalReplacement
  <2>1. /\ UNCHANGED <<script, record, vms>> /\ cmd.pc = "note"
        /\ cmd.mode = "recreate" /\ cmd.vm \in VMs
        /\ journal' = [journal EXCEPT ![cmd.vm].replacement = cmd.made]
    BY <1>11, Target DEF JournalReplacement, Control, Quiet
  <2>2. /\ cmd'.pc = "save" /\ cmd'.mode = cmd.mode /\ cmd'.vm = cmd.vm
        /\ cmd'.made = cmd.made
    BY <1>0, <1>11 DEF JournalReplacement, To, Commands
  <2> QED BY <1>0, <2>1, <2>2, NoVmAssumption
          DEF Files, HandedOut, Journaled, Recreating, Unwritten, Gone
<1>12. CASE Save
  <2>1. UNCHANGED <<script, journal, vms>> /\ cmd'.pc = "idle" /\ cmd'.made = NoVm
        /\ cmd'.mode = "none"
    BY <1>12 DEF Save, Idle
  <2>2. record'.vm = cmd.made \/ record'.vm = record.vm
    BY <1>12 DEF Save, TypeOK, Quiet
  <2> QED BY <2>1, <2>2, NoVmAssumption
          DEF Files, HandedOut, Journaled, Recreating, Unwritten, Gone
<1> QED
  BY <1>2, <1>3, <1>4, <1>5, <1>6, <1>7, <1>8, <1>9, <1>10, <1>11, <1>12 DEF Next, Creates
-----------------------------------------------------------------------------
(* Updates.                                                                *)

Updating == SeenDown /\ Approved /\ Installed /\ UpdateTookEffect

LEMMA UpdatingStep ==
    ASSUME TypeOK, Control, Files, Updating, [Next]_vars
    PROVE  Updating'
<1>0. cmd \in Commands /\ vms \in VmStates
  BY DEF TypeOK, VmStates, Commands, Sights
<1>1. Control' /\ \A v \in VMs : VmMoves(v)
  BY ControlStep, VmStep
<1>2. cmd.mode # "deploy" /\ ~Quiet => /\ cmd.vm \in VMs /\ vms[cmd.vm].status # "none"
  BY Target DEF Files, HandedOut
<1>3. ASSUME Ended(cmd') PROVE Updating'
  BY <1>3 DEF Ended, Updating, SeenDown, Approved, Installed, UpdateTookEffect, Quiet
<1>4. ASSUME cmd'.mode \notin {"update", "fresh"} PROVE Updating'
  BY <1>4 DEF Updating, SeenDown, Approved, Installed, UpdateTookEffect
<1>5. CASE Edit
  BY <1>5 DEF Edit, Updating, SeenDown, Approved, Installed, UpdateTookEffect, Quiet
<1>14. CASE Crash \/ Save
  BY <1>3, <1>14, IdleEnds DEF Crash, Save
<1>6. CASE Prime \/ VmmStops \/ GuestExits \/ RemovedByHand \/ UNCHANGED vars
  <2>1. /\ UNCHANGED <<script, source>> /\ allowed \subseteq allowed' /\ cmd'.saw = cmd.saw
        /\ Goes(cmd', cmd.pc)
    BY <1>0, <1>6 DEF Prime, VmmStops, GuestExits, RemovedByHand, vars, Goes
  <2>2. UNCHANGED Built
    BY <2>1 DEF Built, BuiltCompose
  <2>3. ~StartVm /\ ~UpgradeApp
    <3>1. cmd'.pc = cmd.pc
      BY <2>1 DEF Goes
    <3>2. StartVm => cmd.pc = "start" /\ cmd'.pc # "start"
      BY <1>0, StartMoves DEF StartVm, Ended, Goes
    <3>3. UpgradeApp => cmd.pc = "swap" /\ cmd'.pc # "swap"
      BY <1>0, UpgradeMoves DEF UpgradeApp, Ended, Goes
    <3> QED BY <3>1, <3>2, <3>3
  <2>4. cmd.mode \in {"update", "fresh"} /\ ~Quiet =>
           /\ Settled(cmd.vm) => Settled(cmd.vm)'
           /\ Found(cmd.vm)' => /\ Found(cmd.vm) /\ vms'[cmd.vm].installed = vms[cmd.vm].installed
                                /\ vms'[cmd.vm].booted = vms[cmd.vm].booted
    BY <1>1, <1>2, <2>1, <2>3 DEF VmMoves, Found, Settled, Gone, Absent, Goes
  <2> QED BY <2>1, <2>2, <2>4
          DEF Updating, SeenDown, Approved, Installed, UpdateTookEffect, Quiet, Goes, Settled, Found
<1>7. ASSUME NEW mode \in {"deploy", "stop", "start"} \cup Rolls, Begin(mode)
      PROVE  Updating'
  <2>1. cmd'.mode = mode /\ (mode \in {"update", "fresh"} => cmd'.pc = "approve")
    BY <1>7 DEF Begin, Idle, FirstCall
  <2> QED BY <2>1 DEF Updating, SeenDown, Approved, Installed, UpdateTookEffect
<1>8. CASE Approve
  <2>1. /\ cmd'.pc = "stop" /\ cmd'.mode = cmd.mode /\ cmd'.vm = cmd.vm
        /\ UNCHANGED <<script, source>> /\ HashCompose(script, source) \in allowed'
    BY <1>0, <1>8 DEF Approve, To, Commands
  <2>2. Built' \in allowed'
    BY <2>1, BuiltType DEF TypeOK, Built, BuiltCompose
  <2> QED BY <2>1, <2>2 DEF Updating, SeenDown, Approved, Installed, UpdateTookEffect
<1>15. CASE ApproveFails
  <2>1. \/ Ended(cmd')
        \/ cmd'.pc = "stop" /\ cmd'.denied
    BY <1>0, <1>15, IdleEnds DEF ApproveFails, Commands
  <2> QED BY <1>3, <2>1 DEF Updating, SeenDown, Approved, Installed, UpdateTookEffect
<1>9. CASE StopVm \/ StopVmFault \/ Poll \/ PollFault \/ PollTimeout
  <2>1. UNCHANGED <<script, source, allowed>> /\ cmd.pc \in {"stop", "poll"}
    BY <1>9 DEF StopVm, StopVmFault, Poll, PollFault, PollTimeout
  <2>2. cmd.vm \in VMs /\ vms[cmd.vm].status # "none"
    BY <1>2, <2>1 DEF Control, Quiet, Rolls
  <2>3. \/ Ended(cmd')
        \/ Goes(cmd', "poll")
        \/ Goes(cmd', "swap") /\ (cmd'.saw \in Down \cup {"gone"} => Settled(cmd.vm)')
    <3>1. CASE StopVm \/ StopVmFault
      BY <1>0, <3>1, StopMoves DEF Down
    <3>2. CASE Poll \/ PollFault \/ PollTimeout
      <4>1. UNCHANGED vms
        BY <3>2 DEF Poll, PollFault, PollTimeout
      <4> QED BY <1>0, <2>2, <3>2, <4>1, PollMoves DEF Settled, Absent, Goes
    <3> QED BY <1>9, <3>1, <3>2
  <2>4. UNCHANGED Built
    BY <2>1 DEF Built, BuiltCompose
  <2>5. ASSUME Goes(cmd', "poll") \/ Goes(cmd', "swap") PROVE Approved'
    BY <2>1, <2>4, <2>5 DEF Updating, Approved, Goes, Quiet
  <2> QED BY <1>3, <2>3, <2>5
          DEF Updating, SeenDown, Installed, UpdateTookEffect, Goes, Settled
<1>10. CASE UpgradeApp \/ UpgradeAppFault
  <2>1. /\ UNCHANGED <<script, source, allowed>> /\ cmd.pc = "swap" /\ cmd.mode = "update"
        /\ cmd.vm \in VMs /\ UNCHANGED Built
    BY <1>2, <1>10 DEF UpgradeApp, UpgradeAppFault, Quiet, Built, BuiltCompose
  <2>2. CASE Ended(cmd')
    BY <1>3, <2>2
  <2>3. CASE Goes(cmd', "start") /\ cmd'.saw = "refused"
    BY <2>1, <2>3 DEF Goes, Updating, SeenDown, Approved, Installed, UpdateTookEffect, Quiet, Down
  <2>4. CASE /\ Goes(cmd', "start") /\ cmd'.saw = cmd.saw
             /\ vms' = [vms EXCEPT ![cmd.vm].installed = Built]
    <3>1. vms'[cmd.vm].installed = Built /\ vms'[cmd.vm].status = vms[cmd.vm].status
      BY <1>0, <2>1, <2>4 DEF VmStates
    <3> QED BY <2>1, <2>4, <3>1
            DEF Goes, Updating, SeenDown, Approved, Installed, UpdateTookEffect, Quiet, Settled
  <2> QED BY <1>0, <1>10, <2>2, <2>3, <2>4, UpgradeMoves
<1>11. CASE StartVm \/ StartVmRefused
  <2>1. UNCHANGED <<script, source, allowed>> /\ cmd.pc = "start" /\ cmd.vm \in VMs
        /\ vms[cmd.vm].status # "none"
    BY <1>2, <1>11 DEF StartVm, StartVmRefused, Quiet, Control
  <2>2. CASE Ended(cmd')
    BY <1>3, <2>2
  <2>3. CASE /\ Goes(cmd', "save") /\ cmd.mode # "start" /\ cmd.saw # "refused"
             /\ (StartVm /\ cmd'.saw = cmd.saw) \/ cmd'.saw = "unstarted"
    <3>1. cmd.mode = "update" /\ UNCHANGED Built
      BY <2>1, <2>3 DEF Control, Built, BuiltCompose
    <3>2. Approved'
      BY <2>1, <2>3, <3>1 DEF Updating, Approved, Goes, Quiet
    <3>3. Installed'
      <4>1. ~UpgradeApp
        BY <2>1 DEF UpgradeApp
      <4> QED BY <1>1, <2>1, <2>3, <3>1, <4>1
              DEF Updating, Installed, Goes, VmMoves, Found, Gone, Absent
    <3>4. UpdateTookEffect'
      <4> SUFFICES ASSUME cmd'.saw \in Down, vms'[cmd.vm].status \notin Absent
                   PROVE  vms'[cmd.vm].booted = Built
        BY <2>1, <2>3, <3>1 DEF UpdateTookEffect, Goes, Found
      <4>1. StartVm /\ cmd.saw \in Down
        BY <2>3 DEF Down
      <4>2. Settled(cmd.vm)
        BY <2>1, <3>1, <4>1 DEF Updating, SeenDown
      <4>3. vms[cmd.vm].status \in Down
        BY <1>1, <2>1, <4>2 DEF Settled, VmMoves, Gone, Absent
      <4>4. vms'[cmd.vm].booted = vms[cmd.vm].installed
        BY <1>0, <2>1, <4>1, <4>3 DEF StartVm, Started, VmStates
      <4> QED BY <2>1, <2>3, <3>1, <4>3, <4>4 DEF Updating, Installed, Found, Absent, Down
    <3> QED BY <2>3, <3>2, <3>3, <3>4 DEF Updating, SeenDown, Goes
  <2> QED BY <1>0, <1>11, <2>2, <2>3, StartMoves
<1>12. CASE DeployVm \/ RecreateVm \/ Resume \/ RemoveVm \/ JournalRemoved \/ JournalReplacement
  <2>1. cmd'.mode \notin {"update", "fresh"}
    <3>1. CASE RemoveVm
      BY <1>0, <3>1 DEF RemoveVm, To, Fail, Idle, Commands
    <3>2. CASE DeployVm \/ RecreateVm \/ Resume \/ JournalRemoved \/ JournalReplacement
      BY <1>0, <3>2 DEF DeployVm, RecreateVm, Resume, JournalRemoved, JournalReplacement, To,
         Control, Commands
    <3> QED BY <1>12, <3>1, <3>2
  <2> QED BY <1>4, <2>1
<1>13. CASE FreshVm
  <2>1. /\ UNCHANGED <<script, source, allowed>> /\ cmd.pc = "swap" /\ cmd.mode = "fresh"
        /\ cmd'.mode = "fresh" /\ cmd'.pc = "save" /\ cmd'.denied = cmd.denied
    BY <1>0, <1>13 DEF FreshVm, Commands
  <2> QED BY <2>1 DEF Updating, SeenDown, Approved, Installed, UpdateTookEffect, Quiet, Built,
                      BuiltCompose
<1> QED
  BY <1>5, <1>6, <1>7, <1>8, <1>9, <1>10, <1>11, <1>12, <1>13, <1>14, <1>15
  DEF Next
-----------------------------------------------------------------------------
(* Twins.                                                                  *)

Twins == FreshReplaced /\ Whereabouts /\ NoTwins

\* A step that brings no VM up and writes no id anywhere.
LEMMA TwinsFrame ==
    ASSUME TypeOK, Control, Twins, [Next]_vars,
           UNCHANGED <<record, journal, unseen, displaced>>, Excused \subseteq Excused', \A v \in VMs : Up(v)' => Up(v),
           cmd'.made = cmd.made \/ cmd.made = NoVm,
           \/ Goes(cmd', cmd.pc) /\ ~StartVm
           \/ cmd'.mode \notin {"fresh", "deploy"} \/ cmd'.pc # "save"
    PROVE  Twins'
<1>1. \A v \in VMs : VmMoves(v)
  BY VmStep
<1>2. cmd.mode = "fresh" /\ cmd.pc = "save" => cmd.vm \in VMs
  BY Target DEF Quiet
<1>3. FreshReplaced'
  BY <1>1, <1>2 DEF Twins, FreshReplaced, Goes, VmMoves, Settled
<1>4. Whereabouts'
  BY NoVmAssumption DEF Twins, Whereabouts, Up
<1>5. NoTwins'
  BY DEF Twins, NoTwins, Up
<1> QED BY <1>3, <1>4, <1>5 DEF Twins

\* Every VM that is up when a command is about to create another is accounted for.
LEMMA NothingUp ==
    ASSUME TypeOK, Control, Files, SeenDown, Twins, Creates, NEW w \in VMs, Up(w)
    PROVE  w \in Excused'
<1> SUFFICES ASSUME w \notin Excused' PROVE FALSE
  OBVIOUS
<1>0. Excused \subseteq Excused' /\ unseen' \subseteq Excused'
  BY DEF Creates, DeployVm, FreshVm, RecreateVm, history, Excused
<1>1. \/ cmd.pc = "create" /\ cmd.mode = "deploy"
      \/ cmd.pc = "swap" /\ cmd.mode = "fresh" /\ FreshVm
      \/ cmd.pc = "create" /\ cmd.mode = "recreate"
  BY DEF Creates, DeployVm, FreshVm, RecreateVm
<1>2. cmd.vm = record.vm /\ cmd.made = NoVm
  BY <1>1 DEF TypeOK, Control, Quiet
<1>3. \/ w = cmd.vm
      \/ cmd.vm \in VMs /\ w = journal[cmd.vm].replacement
  BY <1>0, <1>2, NoVmAssumption DEF Twins, Whereabouts
<1>4. CASE cmd.pc = "create" /\ cmd.mode = "deploy"
  <2>1. cmd.vm \in VMs
    BY <1>3, NoVmAssumption
  <2>2. ~script.guarded /\ UNCHANGED script
    BY <1>4, <2>1, NoVmAssumption DEF Control, Quiet, Creates, DeployVm, FreshVm, RecreateVm
  <2>3. w # cmd.vm
    <3>1. cmd.vm \in displaced'
      BY <1>4, <2>1, NoVmAssumption DEF Creates, DeployVm, FreshVm, RecreateVm
    <3> QED BY <2>2, <3>1 DEF Excused
  <2>4. "recreate" \notin script.modes
    BY <2>2, ScriptsSound, ScriptsAssumption DEF Sound, TypeOK
  <2> QED BY <1>3, <2>3, <2>4, NoVmAssumption DEF Files, Journaled
<1>5. CASE cmd.pc = "swap" /\ cmd.mode = "fresh" /\ FreshVm
  <2>1. "fresh" \in script.modes
    BY <1>5 DEF Control
  <2>2. "recreate" \notin script.modes
    BY <2>1, ScriptsSound, ScriptsAssumption DEF Sound, TypeOK
  <2>3. w = cmd.vm
    BY <1>3, <2>2, NoVmAssumption DEF Files, Journaled
  <2>4. cmd.saw \in Down \cup {"gone"}
    BY <1>0, <1>5, <2>3 DEF FreshVm
  <2>5. Settled(w)
    BY <1>5, <2>3, <2>4 DEF SeenDown
  <2> QED BY <2>5 DEF Settled, Up, Down
<1>6. CASE cmd.pc = "create" /\ cmd.mode = "recreate"
  <2>1. Gone(w)
    BY <1>3, <1>6 DEF Files, Recreating
  <2> QED BY <2>1 DEF Gone, Up
<1> QED BY <1>1, <1>4, <1>5, <1>6

LEMMA TwinsStep ==
    ASSUME TypeOK, Control, Files, SeenDown, Twins, [Next]_vars
    PROVE  Twins'
<1>0. /\ cmd \in Commands /\ vms \in VmStates
      /\ journal \in [VMs -> [removed : BOOLEAN, replacement : VMs \cup {NoVm}]]
  BY DEF TypeOK, VmStates, Commands, Sights
<1>1. Control' /\ \A v \in VMs : VmMoves(v)
  BY ControlStep, VmStep
<1>2. ASSUME UNCHANGED vms PROVE \A v \in VMs : Up(v)' => Up(v)
  BY <1>2 DEF Up
<1>3. ASSUME ~StartVm, ~Creates PROVE \A v \in VMs : Up(v)' => Up(v)
  BY <1>1, <1>3 DEF VmMoves
<1>15. ASSUME UNCHANGED <<script, history>> 
       PROVE  Excused \subseteq Excused' /\ UNCHANGED <<unseen, displaced>>
  BY <1>15 DEF Excused, history
<1>5. CASE Edit \/ Prime \/ UNCHANGED vars
  <2>1. UNCHANGED <<script, cmd, vms, record, journal, history>>
    BY <1>5 DEF Edit, Prime, vars, history
  <2> QED BY <2>1
          DEF Twins, FreshReplaced, Whereabouts, NoTwins, Excused, Up, Settled, history
<1>6. CASE VmmStops \/ GuestExits \/ RemovedByHand
  <2>1. UNCHANGED <<script, record, journal, history>> /\ Goes(cmd', cmd.pc)
    BY <1>0, <1>6 DEF VmmStops, GuestExits, RemovedByHand, Goes
  <2>2. ~StartVm
    BY <1>0, <2>1, StartMoves DEF StartVm, Ended, Goes
  <2>3. ~Creates
    BY <1>0, <2>1 DEF Creates, DeployVm, FreshVm, RecreateVm, Goes, Commands
  <2> QED BY <1>3, <1>15, <2>1, <2>2, <2>3, TwinsFrame DEF Goes
<1>7. ASSUME NEW mode \in {"deploy", "stop", "start"} \cup Rolls, Begin(mode)
      PROVE  Twins'
  <2>1. cmd'.made = NoVm /\ cmd.made = NoVm /\ cmd'.pc # "save"
    BY <1>7 DEF Begin, Idle, FirstCall, Rolls, Control, Quiet
  <2> QED BY <1>2, <1>7, <1>15, <2>1, TwinsFrame DEF Begin
<1>8. CASE \/ Approve \/ ApproveFails \/ StopVm \/ StopVmFault \/ Poll \/ PollFault
           \/ PollTimeout \/ UpgradeApp \/ UpgradeAppFault \/ RemoveVm \/ Resume
  <2>1. /\ UNCHANGED <<script, record, journal, history>>
        /\ cmd.pc \in {"approve", "stop", "poll", "swap", "resume"}
        /\ cmd.pc = "swap" => cmd.mode # "fresh"
    BY <1>8 DEF Approve, ApproveFails, StopVm, StopVmFault, Poll, PollFault, PollTimeout,
                UpgradeApp, UpgradeAppFault, RemoveVm, Resume
  <2>2. cmd.made = NoVm
    BY <2>1 DEF Control
  <2>3. cmd'.mode \notin {"fresh", "deploy"} \/ cmd'.pc # "save"
    <3>1. CASE Approve \/ Resume
      BY <1>0, <3>1 DEF Approve, Resume, To, Control, Commands
    <3>5. CASE ApproveFails
      BY <1>0, <3>5 DEF ApproveFails, Fail, Idle, Commands
    <3>6. CASE RemoveVm
      BY <1>0, <3>6 DEF RemoveVm, To, Fail, Idle, Commands
    <3>4. CASE UpgradeApp \/ UpgradeAppFault
      BY <1>0, <3>4, UpgradeMoves DEF Ended, Goes
    <3>2. CASE StopVm \/ StopVmFault
      BY <1>0, <3>2, StopMoves DEF Ended, Goes
    <3>3. CASE Poll \/ PollFault \/ PollTimeout
      <4>1. cmd.vm \in VMs
        BY <3>3, Target DEF Poll, PollFault, PollTimeout, Control, Quiet, Rolls
      <4> QED BY <1>0, <3>3, <4>1, PollMoves DEF Ended, Goes
    <3> QED BY <1>8, <3>1, <3>2, <3>3, <3>4, <3>5, <3>6
  <2>4. ~StartVm /\ ~Creates
    BY <2>1 DEF StartVm, Creates, DeployVm, FreshVm, RecreateVm
  <2> QED BY <1>3, <1>15, <2>1, <2>2, <2>3, <2>4, TwinsFrame
<1>9. CASE StartVmRefused
  <2>1. /\ cmd.made = NoVm /\ cmd'.mode \notin {"fresh", "deploy"}
        /\ UNCHANGED <<script, vms, record, journal, history>>
    BY <1>0, <1>9, StartMoves DEF StartVmRefused, Control, Ended, Goes
  <2> QED BY <1>2, <1>15, <2>1, TwinsFrame
<1>10. CASE StartVm
  <2>1. /\ UNCHANGED <<script, record, journal, history>> /\ cmd.made = NoVm
        /\ cmd.vm \in VMs /\ cmd.vm = record.vm /\ cmd'.mode \notin {"fresh", "deploy"}
    BY <1>0, <1>10, Target, StartMoves DEF StartVm, Control, Quiet, Ended, Goes
  <2>2. ~Creates
    BY <1>10 DEF StartVm, Creates, DeployVm, FreshVm, RecreateVm
  <2>3. \A v \in VMs : Up(v)' => Up(v) \/ (v = cmd.vm /\ vms[v].status \in Down)
    BY <1>1, <2>2 DEF VmMoves
  <2>4. Whereabouts'
    BY <2>1, <2>3, NoVmAssumption DEF Twins, Whereabouts, Excused, Up, history
  <2>5. ASSUME vms[cmd.vm].status \in Down, NEW w \in VMs, w # cmd.vm, Up(w)
        PROVE  w \in Excused
    <3>1. ~Gone(cmd.vm)
      BY <2>5 DEF Gone, Down
    <3>2. journal[cmd.vm].replacement = NoVm
      BY <2>1, <3>1 DEF Files, Journaled
    <3> QED BY <2>1, <2>5, <3>2, NoVmAssumption DEF Twins, Whereabouts
  <2>6. NoTwins'
    <3> SUFFICES ASSUME NEW v \in VMs, NEW w \in VMs, v # w, Up(v)', Up(w)'
                 PROVE  {v, w} \cap Excused # {}
      BY <2>1 DEF NoTwins, Excused, Up, history
    <3>1. CASE Up(v) /\ Up(w)
      BY <3>1 DEF Twins, NoTwins, Up
    <3>2. CASE Up(v) /\ ~Up(w)
      BY <2>3, <2>5, <3>2
    <3>3. CASE ~Up(v) /\ Up(w)
      BY <2>3, <2>5, <3>3
    <3> QED BY <2>3, <3>1, <3>2, <3>3
  <2> QED BY <2>1, <2>4, <2>6 DEF Twins, FreshReplaced
<1>11. CASE Creates
  <2>1. UNCHANGED <<record, journal>> /\ cmd'.vm = cmd.vm /\ cmd'.mode = cmd.mode
    BY <1>0, <1>11 DEF Creates, DeployVm, FreshVm, RecreateVm, history, Commands
  <2>2. ~StartVm
    BY <1>11 DEF StartVm, Creates, DeployVm, FreshVm, RecreateVm
  <2>3. \A w \in VMs : Up(w)' => w = cmd'.made \/ w \in Excused'
    BY <1>1, <1>11, <2>2, NothingUp DEF VmMoves
  <2>4. Whereabouts' /\ NoTwins'
    BY <2>1, <2>3 DEF Whereabouts, NoTwins, Up
  <2>5. FreshReplaced'
    <3>0. cmd.mode = "deploy" => cmd.vm \in displaced' \cup {NoVm}
      BY <1>11 DEF Creates, DeployVm, FreshVm, RecreateVm
    <3> SUFFICES ASSUME cmd.mode = "fresh", cmd.vm \notin unseen' PROVE Settled(cmd.vm)'
      BY <2>1, <3>0 DEF FreshReplaced, Settled
    <3>1. FreshVm
      BY <1>11 DEF Creates, DeployVm, RecreateVm
    <3>2. cmd.vm \in VMs /\ cmd.saw \in Down \cup {"gone"}
      BY <3>1, Target DEF FreshVm, Quiet
    <3>3. Settled(cmd.vm)
      BY <3>1, <3>2 DEF FreshVm, SeenDown
    <3> QED BY <1>1, <2>1, <2>2, <3>2, <3>3 DEF VmMoves, Settled
  <2> QED BY <2>4, <2>5 DEF Twins
<1>12. CASE JournalRemoved \/ JournalReplacement
  <2>1. /\ UNCHANGED <<script, record, vms, history>> /\ cmd.mode = "recreate" /\ cmd.vm \in VMs
        /\ cmd.vm = record.vm /\ cmd'.mode = "recreate" /\ cmd'.made = cmd.made
        /\ cmd.pc \in {"journal", "note"}
    BY <1>0, <1>12, Target DEF JournalRemoved, JournalReplacement, Control, Quiet, To, Commands
  <2>2. \A v \in VMs : v = journal[cmd.vm].replacement => ~Up(v)
    BY <2>1 DEF Files, Recreating, Gone, Up
  <2>3. Whereabouts'
    BY <1>0, <2>1, <2>2 DEF Twins, Whereabouts, Excused, Up, history
  <2> QED BY <2>1, <2>3 DEF Twins, FreshReplaced, NoTwins, Excused, history
<1>13. CASE Save
  <2>1. /\ UNCHANGED <<script, vms, journal, history>> /\ cmd.pc = "save" /\ cmd.vm = record.vm
        /\ record'.vm = IF cmd.made # NoVm THEN cmd.made ELSE cmd.vm
        /\ cmd'.mode = "none" /\ cmd'.made = NoVm
    BY <1>13 DEF Save, Idle, TypeOK, Quiet
  <2>2. Whereabouts'
    <3> SUFFICES ASSUME NEW v \in VMs, Up(v), v \notin Excused
                 PROVE  \/ v = record'.vm
                        \/ record'.vm \in VMs /\ v = journal[record'.vm].replacement
      BY <2>1 DEF Whereabouts, Excused, Up, history
    <3>1. \/ v = cmd.vm \/ v = cmd.made
          \/ cmd.vm \in VMs /\ v = journal[cmd.vm].replacement
      BY <2>1 DEF Twins, Whereabouts
    <3>2. CASE cmd.mode = "update"
      <4>1. cmd.made = NoVm
        BY <2>1, <3>2 DEF Control
      <4> QED BY <2>1, <3>1, <4>1, NoVmAssumption
    <3>3. CASE cmd.mode = "deploy"
      <4>1. cmd.vm \in VMs => ~script.guarded
        BY <2>1, <3>3, NoVmAssumption DEF Control, Quiet
      <4>2. v # cmd.vm
        BY <2>1, <3>3, <4>1, NoVmAssumption DEF Twins, FreshReplaced, Excused
      <4>3. cmd.vm \in VMs => "recreate" \notin script.modes
        BY <4>1, ScriptsSound, ScriptsAssumption DEF Sound, TypeOK
      <4> QED BY <2>1, <3>1, <4>2, <4>3, NoVmAssumption DEF Files, Journaled
    <3>4. CASE cmd.mode = "fresh"
      <4>1. v # cmd.vm
        BY <2>1, <3>4 DEF Twins, FreshReplaced, Excused, Settled, Up, Down
      <4>2. "recreate" \notin script.modes
        BY <3>4, ScriptsSound, ScriptsAssumption DEF Sound, TypeOK, Control
      <4> QED BY <2>1, <3>1, <4>1, <4>2, NoVmAssumption DEF Files, Journaled
    <3>5. CASE cmd.mode = "recreate"
      <4>1. v # cmd.vm
        BY <2>1, <3>5 DEF Files, Recreating, Gone, Up
      <4> QED BY <2>1, <3>1, <3>5, <4>1, NoVmAssumption DEF Files, Recreating
    <3> QED BY <2>1, <3>2, <3>3, <3>4, <3>5 DEF Control, Rolls
  <2> QED BY <2>1, <2>2 DEF Twins, FreshReplaced, NoTwins, Excused, history
<1>14. CASE Crash
  <2>1. /\ UNCHANGED <<vms, record, journal>> /\ Excused \subseteq Excused' /\ lost' \subseteq Excused'
        /\ cmd'.mode = "none" /\ cmd'.made = NoVm
    BY <1>14 DEF Crash, Idle, Excused
  <2>2. ASSUME cmd.made \in VMs \ lost'
        PROVE  record.vm \in VMs /\ cmd.made = journal[record.vm].replacement
    <3>1. \E w \in VMs : journal[w].replacement = cmd.made
      BY <1>14, <2>2, NoVmAssumption DEF Crash
    <3>2. cmd.pc = "save" /\ cmd.mode = "recreate"
      BY <2>2, <3>1, NoVmAssumption DEF Files, Unwritten, Control, Rolls
    <3> QED BY <3>2, Target DEF Files, Recreating, Quiet
  <2>3. Whereabouts'
    BY <2>1, <2>2, NoVmAssumption DEF Twins, Whereabouts, Up
  <2> QED BY <2>1, <2>3 DEF Twins, FreshReplaced, NoTwins
<1> QED
  BY <1>5, <1>6, <1>7, <1>8, <1>9, <1>10, <1>11, <1>12, <1>13, <1>14 DEF Next, Creates
-----------------------------------------------------------------------------
LEMMA InitHolds == Init => IInv
<1> SUFFICES ASSUME Init PROVE IInv
  OBVIOUS
<1>1. TypeOK
  BY NoVmAssumption, MaxPollsAssumption, MaxFaultsAssumption
  DEF Init, TypeOK, Idle, Composes, Statuses, Absent, Calls, Quiet, NoCompose
<1>2. /\ cmd.pc = "idle" /\ cmd.mode = "none" /\ cmd.made = NoVm
      /\ \A v \in VMs : vms[v].status = "none" /\ journal[v].replacement = NoVm
                        /\ ~journal[v].removed
      /\ record.vm = NoVm
  BY DEF Init, Idle
<1> QED
  BY <1>1, <1>2, NoVmAssumption
  DEF IInv, Control, Rolls, Quiet, HandedOut, Journaled, Recreating, Unwritten, SeenDown,
      FreshReplaced, Approved, Installed, UpdateTookEffect, Whereabouts, NoTwins, Up, Idle, Init

LEMMA NextStep == IInv /\ [Next]_vars => IInv'
<1> SUFFICES ASSUME IInv, [Next]_vars PROVE IInv'
  OBVIOUS
<1>1. TypeOK /\ Control /\ Files /\ Updating /\ Twins /\ SeenDown
  BY DEF IInv, Files, Updating, Twins
<1>2. TypeOK' /\ Control' /\ Files' /\ Updating' /\ Twins'
  BY <1>1, TypeStep, ControlStep, FilesStep, UpdatingStep, TwinsStep
<1> QED BY <1>2 DEF IInv, Files, Updating, Twins

LEMMA Inductive == Spec => []IInv
BY InitHolds, NextStep, PTL DEF Spec

\* Every variable keeps its type, and a command in progress works on the VM the state
\* file names.
THEOREM TypeCorrect == Spec => []TypeOK
<1>1. IInv => TypeOK
  BY DEF IInv
<1> QED BY <1>1, Inductive, PTL

\* Whatever an interrupted command left behind, two VMs of a node are up only if one of
\* them is a VM whose id no file holds, one a fresh-disk update did not see down or, under
\* a driver that does not refuse it, one beside which deploy was run again.
THEOREM OneVm == Spec => []NoTwins
<1>1. IInv => NoTwins
  BY DEF IInv
<1> QED BY <1>1, Inductive, PTL

\* An update that saw its VM down and answered has booted what it rendered.
THEOREM UpdateEffective == Spec => []UpdateTookEffect
<1>1. IInv => UpdateTookEffect
  BY DEF IInv
<1> QED BY <1>1, Inductive, PTL

\* What an update boots, in place or fresh, has been allowed by the cluster: always under
\* the drivers that stop when addComposeHash fails, and under the others in every update
\* whose addComposeHash succeeded.  The hash mode and the update mode of every helper name
\* the same sealed variables.
THEOREM ApprovedBoots == Spec => BootsApproved
<1> DEFINE Step == \A v \in VMs :
                     /\ cmd.mode \in {"update", "fresh"} /\ cmd.saw # "refused"
                     /\ cmd.denied => script.halts
                     /\ vms[v].status # "running" /\ vms'[v].status = "running"
                     => vms'[v].booted \in allowed
<1>1. IInv /\ [Next]_vars => Step
  <2> SUFFICES ASSUME IInv, [Next]_vars, NEW v \in VMs, cmd.mode \in {"update", "fresh"},
                      cmd.saw # "refused", cmd.denied => script.halts,
                      vms[v].status # "running", vms'[v].status = "running"
               PROVE  vms'[v].booted \in allowed
    OBVIOUS
  <2>1. vms \in VmStates /\ cmd \in Commands
    BY DEF IInv, TypeOK, VmStates, Commands, Sights
  <2>2. VmMoves(v) /\ ~cmd.denied
    BY <2>1, VmStep DEF IInv, Control
  <2>3. CASE StartVm /\ v = cmd.vm /\ vms[v].status \in Down
    <3>1. cmd.pc = "start" /\ cmd.mode = "update"
      BY <2>3 DEF StartVm, IInv, Control
    <3>2. vms'[v].booted = vms[v].installed
      BY <2>1, <2>3 DEF StartVm, Started, VmStates
    <3>3. vms[v].installed = Built
      BY <2>3, <3>1 DEF IInv, Installed, Found, Absent, Down
    <3> QED BY <2>2, <3>1, <3>2, <3>3 DEF IInv, Approved, Quiet
  <2>4. CASE Creates /\ v = cmd'.made
    <3>1. FreshVm
      BY <2>4 DEF Creates, DeployVm, RecreateVm
    <3>2. vms'[v].booted = Built
      BY <2>1, <2>4, <3>1 DEF FreshVm, NewVm, VmStates, Commands
    <3> QED BY <2>2, <3>1, <3>2 DEF FreshVm, IInv, Approved, Quiet
  <2> QED BY <2>2, <2>3, <2>4 DEF VmMoves
<1>2. IInv /\ [Next]_vars => [Step]_vars
  BY <1>1
<1> HIDE DEF Step
<1>3. Spec => [][Step]_vars
  BY <1>2, Inductive, PTL DEF Spec
<1> QED BY <1>3 DEF BootsApproved, Step
=============================================================================
