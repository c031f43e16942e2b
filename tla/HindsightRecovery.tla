------------------------- MODULE HindsightRecovery --------------------------
(***************************************************************************)
(* The fail-closed controller of the staged Hindsight backfill             *)
(* (deploy/hindsight-recovery/recovery.py).  Four processes share the      *)
(* Agent circuit (a database row) and phase.json, and no lock covers both: *)
(*                                                                         *)
(*   guard      loops: load the phase, take a snapshot, open the circuit   *)
(*              at the cap, audit, settle the cap, beat; it opens and      *)
(*              never closes                                               *)
(*   watchdog   opens the circuit when an armed guard falls silent         *)
(*   operator   release, prepare-resume, refresh-retry, settle-cap and     *)
(*              recover-provider-failures: read the phase, prove, change   *)
(*              the outbox under the bank lock, save the phase, audit; may *)
(*              be interrupted anywhere; phase, emergency-open, and a new  *)
(*              EXPECTED_HINDSIGHT_FAILED with a restart of the services   *)
(*   worker     (external) claims queued documents while the circuit is    *)
(*              closed and submits them to Hindsight                       *)
(*                                                                         *)
(* A section under the bank's advisory lock is one step.  The checks that  *)
(* look at other systems (budget, Pocket, Fugu ledger, Patroni, hashes and *)
(* lineage) are one fact, drift: found by the quick checks, found only by  *)
(* the full audit, or absent.                                              *)
(***************************************************************************)
EXTENDS Naturals, FiniteSets

CONSTANTS Docs,        \* the approved batch
          Rank,        \* a document's place in the worker's queue; rows of one
                       \* rank are claimed in any order
          Cap,         \* stage_cap, also the worker's run limit
          MaxActive,   \* max_agent_active
          Hands,       \* what the phase command is used to write
          MaxDrift,    \* bound on how often the surroundings drift
          MaxFailed,   \* bound on operations that fail in Hindsight
          MaxFaults    \* bound on deaths, interruptions, failed tunnels, taken
                       \* bank locks and phases written by hand

ASSUME RecoveryAssumption ==
    /\ IsFiniteSet(Docs) /\ Rank \in [Docs -> Nat]
    /\ Cap \in Nat /\ MaxActive \in Nat
    /\ Hands \subseteq [name : {"maintenance", "ready", "running", "cap_hold", "settled"},
                        armed : BOOLEAN]
    /\ MaxDrift \in Nat /\ MaxFailed \in Nat /\ MaxFaults \in Nat

VARIABLES
    outbox,     \* hindsight_outbox.state
    remote,     \* the document's operation in Hindsight
    retained,   \* history: how often Hindsight retained the document
    retries,    \* documents with a row in hindsight_outbox_retry_history
    open,       \* hindsight_sync_state.circuit_open
    phase,      \* phase.json
    drift,      \* "none", "quick" or "full"
    expected,   \* expected_hindsight_failed, beyond the failures before the stage
    byHand,     \* history: the phase command wrote phase.json after the last release
    guard,      \* the guard's place in its loop
    seen,       \* what the guard holds from earlier in the loop and still reads
    fresh,      \* the guard's heartbeat is younger than heartbeat_max_age
    watchdog,   \* "starting" or "running"
    cmd,        \* the operator command's place
    held,       \* what it holds and still reads: its phase, proofs, baseline
    announced,  \* history: stage_settled was logged
    drifts, faults,
    failures    \* failed operations in Hindsight

agent == <<outbox, remote, retained, retries>>
bounds == <<drifts, failures, faults>>
env == <<drift, expected, byHand>>
vars == <<agent, open, phase, env, guard, seen, fresh, watchdog, cmd, held,
          announced, bounds>>

Names == {"maintenance", "ready", "running", "cap_hold", "settled"}
Phases == [name : Names, armed : BOOLEAN, retry : Nat]
GuardSteps == {"load", "snap", "capOpen", "capSave", "audit", "settle",
               "refresh", "settleSave", "settleAudit", "beat", "failed"}
CmdSteps == {"idle", "releaseCheck", "releaseClose",
             "releaseSave", "releaseWait", "heldLocked", "resumeLocked", "resumeSave",
             "recoverLocked", "recoverRetry", "heldRetry", "recoverSave",
             "settleLocked", "settleSave", "settleAudit", "phaseSave"}

In(S) == {d \in Docs : outbox[d] \in S}
Attempted == Cardinality(In({"submitting", "submitted", "succeeded", "failed"}))
Active == Cardinality(In({"submitting", "submitted"}))
Succeeded == Cardinality(In({"succeeded"}))
Pending == {d \in Docs : remote[d] = "pending"}
Present == {d \in Docs : retained[d] > 0}
Fault == faults < MaxFaults /\ faults' = faults + 1 /\ UNCHANGED <<drifts, failures>>

Phase0 == [name |-> "ready", armed |-> FALSE, retry |-> 0]
NoLoop == [phase |-> Phase0, bad |-> FALSE, act |-> "continue"]
NoCommand == [phase |-> Phase0, docs |-> {}, base |-> 0]

-----------------------------------------------------------------------------
\* A stage before its release: the services run, the circuit is open and
\* nothing was claimed.
Init ==
    /\ outbox = [d \in Docs |-> "queued"]
    /\ remote = [d \in Docs |-> "none"]
    /\ retained = [d \in Docs |-> 0]
    /\ retries = {}
    /\ open = TRUE
    /\ phase = Phase0
    /\ drift = "none" /\ expected = 0 /\ byHand = FALSE
    /\ guard = "load"
    /\ seen = NoLoop
    /\ fresh = FALSE
    /\ watchdog = "running"
    /\ cmd = "idle"
    /\ held = NoCommand
    /\ announced = FALSE
    /\ drifts = 0 /\ failures = 0 /\ faults = 0

-----------------------------------------------------------------------------
(* The Agent worker, Hindsight and the surroundings (external)             *)

Claim(d) ==
    /\ ~open /\ outbox[d] = "queued" /\ Active < MaxActive /\ Attempted < Cap
    /\ \A e \in In({"queued"}) : Rank[d] <= Rank[e]
    /\ outbox' = [outbox EXCEPT ![d] = "submitting"]
    /\ UNCHANGED <<remote, retained, retries, open, phase, env, guard, seen,
                   fresh, watchdog, cmd, held, announced, bounds>>

\* The retain call returns, whatever the circuit is by then.
Submit(d) ==
    /\ outbox[d] = "submitting"
    /\ outbox' = [outbox EXCEPT ![d] = "submitted"]
    /\ remote' = [remote EXCEPT ![d] = "pending"]
    /\ UNCHANGED <<retained, retries, open, phase, env, guard, seen, fresh,
                   watchdog, cmd, held, announced, bounds>>

OperationEnds(d) ==
    /\ remote[d] = "pending"
    /\ \/ /\ remote' = [remote EXCEPT ![d] = "completed"]
          /\ retained' = [retained EXCEPT ![d] = @ + 1]
          /\ UNCHANGED bounds
       \/ /\ failures < MaxFailed /\ failures' = failures + 1
          /\ remote' = [remote EXCEPT ![d] = "failed"]
          /\ UNCHANGED <<retained, drifts, faults>>
    /\ UNCHANGED <<outbox, retries, open, phase, env, guard, seen, fresh,
                   watchdog, cmd, held, announced>>

RefreshedRequeues(f) ==
    [d \in Docs |-> IF f[d] = "submitted" /\ remote[d] \in {"completed", "failed"}
                    THEN "queued" ELSE f[d]]

\* OutboxWorker._refresh_submitted: rows take their operation's end.
Refreshed(f) ==
    [d \in Docs |->
        IF f[d] = "submitted" /\ remote[d] = "completed" THEN "succeeded"
        ELSE IF f[d] = "submitted" /\ remote[d] = "failed" THEN "failed"
        ELSE f[d]]
FailedNow == {d \in In({"submitted"}) : remote[d] = "failed"}
CompletedNow == {d \in In({"submitted"}) : remote[d] = "completed"}

\* The worker's own tick, which rests while the circuit is open; a failed
\* operation makes it open the circuit.
WorkerRefresh ==
    /\ ~open /\ Refreshed(outbox) # outbox
    /\ outbox' = Refreshed(outbox)
    /\ open' = (FailedNow # {})
    /\ UNCHANGED <<remote, retained, retries, phase, env, guard, seen,
                   fresh, watchdog, cmd, held, announced, bounds>>

\* What a check compares with another system no longer agrees, or does again.
Drift ==
    /\ \/ drifts < MaxDrift /\ drifts' = drifts + 1 /\ drift' \in {"quick", "full"}
       \/ drift # "none" /\ drift' = "none" /\ UNCHANGED drifts
    /\ UNCHANGED <<agent, open, phase, expected, byHand, guard, seen, fresh,
                   watchdog, cmd, held, announced, failures, faults>>

-----------------------------------------------------------------------------
(* Checks                                                                  *)

QuickFailures(ph) ==
    \/ drift = "quick"
    \/ Attempted > Cap
    \/ Active > MaxActive
    \/ In({"failed"}) # {}
    \/ failures # expected
    \/ ph.name # "running" /\ ~open
    \/ ph.name = "running" /\ Attempted >= Cap /\ ~open
    \/ ph.name # "running" /\ Pending # {}

\* Hindsight holds every document that succeeded, and none that was not tried.
Provenance ==
    /\ In({"succeeded"}) \subseteq Present
    /\ Present \subseteq In({"succeeded", "submitting", "submitted"})

\* full_audit: the quick checks, the retry history and the provenance of the
\* remote documents.
FullFailures(ph) ==
    \/ QuickFailures(ph)
    \/ drift # "none"
    \/ Cardinality(retries) # ph.retry
    \/ ~Provenance

\* precap_resume_failure: the gate of prepare-resume.
ResumeGate(ph) ==
    /\ ph.name = "running" /\ open
    /\ Attempted < Cap
    /\ In({"submitting", "failed"}) = {} /\ In({"submitted"}) # {}
    /\ Active <= MaxActive
    /\ Pending = {}
    /\ Cardinality(Present) = Attempted

\* preprove_cap_refresh: every submitted row is complete; rows that are still
\* being submitted are not looked at.
ProveCap ==
    /\ Attempted = Cap /\ Pending = {}
    /\ IF In({"submitted"}) = {} THEN Succeeded = Cap
       ELSE CompletedNow = In({"submitted"})

\* What settle_cap asserts after it has saved the phase.
SettledPhase(ph) == [ph EXCEPT !.name = "settled"]
ExactlySettled(ph) ==
    /\ In({"queued", "succeeded"}) = Docs
    /\ Succeeded = Cap /\ Cardinality(Present) = Cap
    /\ ~FullFailures(SettledPhase(ph))

-----------------------------------------------------------------------------
(* emergency_open: through a tunnel of its own, which may fail             *)

EmergencyOpens == open' = TRUE /\ UNCHANGED bounds
TunnelFails == Fault /\ UNCHANGED open

-----------------------------------------------------------------------------
(* run_guard                                                               *)

GuardLoad ==
    /\ guard = "load" /\ guard' = "snap"
    /\ seen' = [phase |-> phase, bad |-> FALSE, act |-> "continue"]
    /\ UNCHANGED <<agent, open, phase, env, fresh, watchdog, cmd, held,
                   announced, bounds>>

StageAction(name) ==
    IF Attempted > Cap THEN "violation"
    ELSE IF name = "running" /\ Attempted = Cap THEN "open" ELSE "continue"

\* The snapshot, its failures and the stage action.
GuardSnap ==
    /\ guard = "snap"
    /\ LET act == StageAction(seen.phase.name) IN
       seen' = [phase |-> IF act = "open" THEN seen.phase ELSE Phase0,
                bad |-> QuickFailures(seen.phase), act |-> act]
    /\ guard' = IF seen'.act = "continue" THEN "audit" ELSE "capOpen"
    /\ UNCHANGED <<agent, open, phase, env, fresh, watchdog, cmd, held,
                   announced, bounds>>

GuardCapOpen ==
    /\ guard = "capOpen"
    /\ \/ EmergencyOpens /\ guard' = IF seen.act = "open" THEN "capSave" ELSE "audit"
       \/ TunnelFails /\ guard' = "failed"
    /\ UNCHANGED <<agent, phase, env, seen, fresh, watchdog, cmd, held, announced>>

\* The phase the guard loaded at the start of the loop is written back.
GuardCapSave ==
    /\ guard = "capSave" /\ guard' = "audit"
    /\ phase' = [seen.phase EXCEPT !.name = "cap_hold"]
    /\ seen' = [NoLoop EXCEPT !.bad = seen.bad]
    /\ UNCHANGED <<agent, open, env, fresh, watchdog, cmd, held,
                   announced, bounds>>

\* Every full_seconds: a heartbeat, then the full audit.
GuardAudit(full) ==
    /\ guard = "audit"
    /\ fresh' = (fresh \/ full)
    /\ guard' = IF seen.bad \/ (full /\ FullFailures(phase)) THEN "failed"
                ELSE IF phase.name = "cap_hold" THEN "settle" ELSE "beat"
    /\ seen' = NoLoop
    /\ UNCHANGED <<agent, open, phase, env, watchdog, cmd, held,
                   announced, bounds>>

GuardBeat ==
    /\ guard = "beat" /\ guard' = "load" /\ fresh' = TRUE /\ seen' = NoLoop
    /\ UNCHANGED <<agent, open, phase, env, watchdog, cmd, held,
                   announced, bounds>>

GuardFailedTrusting ==
    /\ guard = "failed" /\ guard' = "load" /\ fresh' = TRUE /\ seen' = NoLoop
    /\ UNCHANGED <<agent, open, phase, env, watchdog, cmd, held,
                   announced, bounds>>

\* The except clause: unless the circuit is read as open it is opened, a
\* failure of which is suppressed; the heartbeat is written in any case.
GuardFailed ==
    /\ guard = "failed" /\ guard' = "load" /\ fresh' = TRUE /\ seen' = NoLoop
    /\ EmergencyOpens \/ TunnelFails
    /\ UNCHANGED <<agent, phase, env, watchdog, cmd, held, announced>>

-----------------------------------------------------------------------------
(* settle_cap, called by the guard in cap_hold                             *)

SettleProve ==
    /\ guard = "settle"
    /\ guard' = IF phase.name = "cap_hold" /\ ProveCap THEN "refresh" ELSE "beat"
    /\ seen' = IF guard' = "refresh" THEN [seen EXCEPT !.phase = phase] ELSE NoLoop
    /\ UNCHANGED <<agent, open, phase, env, fresh, watchdog, cmd, held,
                   announced, bounds>>

SettleRefresh ==
    /\ guard = "refresh"
    /\ outbox' = Refreshed(outbox)
    /\ guard' = IF FailedNow # {} THEN "failed" ELSE "settleSave"
    /\ UNCHANGED <<remote, retained, retries, open, phase, env, seen, fresh,
                   watchdog, cmd, held, announced, bounds>>

\* Another holds the bank's lock: settle_cap raises.
SettleLockTaken ==
    /\ guard = "refresh" /\ Fault /\ guard' = "failed"
    /\ UNCHANGED <<agent, open, phase, env, seen, fresh, watchdog, cmd, held,
                   announced>>

SettleSave ==
    /\ guard = "settleSave" /\ guard' = "settleAudit"
    /\ phase' = SettledPhase(seen.phase)
    /\ UNCHANGED <<agent, open, env, seen, fresh, watchdog, cmd, held,
                   announced, bounds>>

SettleAuditBlind ==
    /\ guard = "settleAudit" /\ guard' = "beat" /\ announced' = TRUE
    /\ UNCHANGED <<agent, open, phase, env, seen, fresh, watchdog, cmd, held,
                   bounds>>

\* The audit follows the save: its failure leaves the phase settled.
SettleAudit ==
    /\ guard = "settleAudit"
    /\ IF ExactlySettled(seen.phase)
         THEN guard' = "beat" /\ announced' = TRUE
         ELSE guard' = "failed" /\ UNCHANGED announced
    /\ UNCHANGED <<agent, open, phase, env, seen, fresh, watchdog, cmd, held,
                   bounds>>

\* The process dies and systemd starts it again, or hangs for good.
GuardDies ==
    /\ guard \in GuardSteps /\ Fault
    /\ guard' \in {"dead", "hung"} /\ seen' = NoLoop
    /\ UNCHANGED <<agent, open, phase, env, fresh, watchdog, cmd, held,
                   announced>>

GuardRestarts ==
    /\ guard = "dead" /\ guard' = "load"
    /\ UNCHANGED <<agent, open, phase, env, seen, fresh, watchdog, cmd, held,
                   announced, bounds>>

-----------------------------------------------------------------------------
(* run_watchdog                                                            *)

HeartbeatAges ==
    /\ guard \in {"dead", "hung"} /\ fresh /\ fresh' = FALSE
    /\ UNCHANGED <<agent, open, phase, env, guard, seen, watchdog, cmd, held,
                   announced, bounds>>

\* The startup hold; without its tunnel the process exits and is restarted.
WatchdogStarts ==
    /\ watchdog = "starting"
    /\ \/ EmergencyOpens /\ watchdog' = "running"
       \/ TunnelFails /\ UNCHANGED watchdog
    /\ UNCHANGED <<agent, phase, env, guard, seen, fresh, cmd, held, announced>>

\* watchdog_failure: the heartbeat's age, then the units' states; a guard
\* that hangs is still an active unit.
WatchdogFailure == phase.armed /\ (~fresh \/ guard = "dead")

WatchdogTick ==
    /\ watchdog = "running" /\ WatchdogFailure /\ ~open
    /\ EmergencyOpens \/ TunnelFails
    /\ UNCHANGED <<agent, phase, env, guard, seen, fresh, watchdog, cmd, held,
                   announced>>

WatchdogDies ==
    /\ watchdog = "running" /\ Fault /\ watchdog' = "starting"
    /\ UNCHANGED <<agent, open, phase, env, guard, seen, fresh, cmd, held,
                   announced>>

-----------------------------------------------------------------------------
(* release                                                                 *)

Continue(l) == cmd' = l /\ UNCHANGED held
Return == cmd' = "idle" /\ held' = NoCommand

ReleaseStart ==
    /\ cmd = "idle" /\ phase.name = "ready"
    /\ held' = [NoCommand EXCEPT !.phase = phase]
    /\ cmd' = "releaseCheck"
    /\ UNCHANGED <<agent, open, phase, env, guard, seen, fresh, watchdog,
                   announced, bounds>>

\* The last of the ten checks, with the full audit: the nine before it only
\* add occasions to give up.
ReleaseCheck ==
    /\ cmd = "releaseCheck"
    /\ IF FullFailures(held.phase) THEN Return
       ELSE cmd' = "releaseClose" /\ held' = [held EXCEPT !.base = Succeeded]
    /\ UNCHANGED <<agent, open, phase, env, guard, seen, fresh, watchdog,
                   announced, bounds>>

\* close_agent: exactly one open row must change.
ReleaseClose ==
    /\ cmd = "releaseClose"
    /\ IF open THEN Continue("releaseSave") ELSE Return
    /\ open' = FALSE
    /\ UNCHANGED <<agent, phase, env, guard, seen, fresh, watchdog,
                   announced, bounds>>

ReleaseSaveUnarmed ==
    /\ cmd = "releaseSave" /\ cmd' = "releaseWait"
    /\ phase' = [held.phase EXCEPT !.name = "running"]
    /\ held' = [held EXCEPT !.phase = Phase0]
    /\ byHand' = FALSE
    /\ UNCHANGED <<agent, open, drift, expected, guard, seen, fresh, watchdog,
                   announced, bounds>>

ReleaseSave ==
    /\ cmd = "releaseSave" /\ cmd' = "releaseWait"
    /\ phase' = [held.phase EXCEPT !.name = "running", !.armed = TRUE]
    /\ held' = [held EXCEPT !.phase = Phase0]
    /\ byHand' = FALSE
    /\ UNCHANGED <<agent, open, drift, expected, guard, seen, fresh, watchdog,
                   announced, bounds>>

\* The first wave: exactly MaxActive claims are expected; any other outcome,
\* or 90 seconds without it, opens the circuit again.
ReleaseWait ==
    /\ cmd = "releaseWait" /\ Return
    /\ \/ /\ Attempted = held.base + MaxActive /\ Active = MaxActive
          /\ UNCHANGED <<open, bounds>>
       \/ /\ Attempted # held.base + MaxActive \/ Active # MaxActive
          /\ EmergencyOpens \/ TunnelFails
    /\ UNCHANGED <<agent, phase, env, guard, seen, fresh, watchdog,
                   announced>>

-----------------------------------------------------------------------------
(* prepare-resume, refresh-retry and recover-provider-failures             *)

\* Audit, gate and the remote proof of every submitted row.
ResumeProve ==
    /\ cmd = "idle" /\ ResumeGate(phase) /\ ~FullFailures(phase)
    /\ CompletedNow = In({"submitted"})
    /\ held' = [held EXCEPT !.phase = phase, !.docs = In({"submitted"})]
    /\ cmd' = "resumeLocked"
    /\ UNCHANGED <<agent, open, phase, env, guard, seen, fresh, watchdog,
                   announced, bounds>>

ResumeLocked ==
    /\ cmd = "resumeLocked"
    /\ IF open /\ In({"submitted"}) = held.docs
         THEN /\ outbox' = Refreshed(outbox)
              /\ cmd' = "resumeSave" /\ held' = [held EXCEPT !.docs = {}]
         ELSE UNCHANGED outbox /\ Return
    /\ UNCHANGED <<remote, retained, retries, open, phase, env, guard, seen,
                   fresh, watchdog, announced, bounds>>

\* refresh-retry: a clean audit, and one submitted document whose operation
\* failed and which Hindsight does not hold.
HeldProve(d) ==
    /\ cmd = "idle" /\ ~FullFailures(phase)
    /\ d \in FailedNow \ Present
    /\ held' = [held EXCEPT !.phase = phase, !.docs = {d}]
    /\ cmd' = "heldLocked"
    /\ UNCHANGED <<agent, open, phase, env, guard, seen, fresh, watchdog,
                   announced, bounds>>

\* The refresh must end exactly that one row; otherwise the command raises
\* after the refresh.
HeldLocked ==
    /\ cmd = "heldLocked"
    /\ outbox' = Refreshed(outbox)
    /\ IF FailedNow = held.docs /\ CompletedNow = {}
         THEN Continue("heldRetry") ELSE Return
    /\ UNCHANGED <<remote, retained, retries, open, phase, env, guard, seen,
                   fresh, watchdog, announced, bounds>>

\* Documents whose operation failed and which Hindsight does not hold: none
\* was retried before, but for rows an interrupted run has queued again.
RecoverProve ==
    LET lost == {d \in Docs : remote[d] = "failed" /\ d \notin Present} IN
    /\ cmd = "idle" /\ open /\ Pending = {} /\ lost # {}
    /\ drift = "none" /\ failures = expected /\ Provenance
    /\ In({"submitted", "failed"}) \subseteq lost \ retries
    /\ In({"submitting"}) = {}
    /\ held' = [held EXCEPT !.phase = phase, !.docs = lost]
    /\ cmd' = "recoverLocked"
    /\ UNCHANGED <<agent, open, phase, env, guard, seen, fresh, watchdog,
                   announced, bounds>>

RecoverLocked ==
    /\ cmd = "recoverLocked"
    /\ IF open /\ In({"submitted"}) \subseteq held.docs
         THEN outbox' = Refreshed(outbox) /\ Continue("recoverRetry")
         ELSE UNCHANGED outbox /\ Return
    /\ UNCHANGED <<remote, retained, retries, open, phase, env, guard, seen,
                   fresh, watchdog, announced, bounds>>

\* retry_document, one transaction per document that is still failed;
\* refresh-retry then loads the phase again.
RecoverRetry ==
    /\ cmd \in {"recoverRetry", "heldRetry"}
    /\ \/ \E d \in held.docs \cap In({"failed"}) :
            /\ outbox' = [outbox EXCEPT ![d] = "queued"]
            /\ retries' = retries \cup {d}
            /\ UNCHANGED <<cmd, held>>
       \/ /\ held.docs \cap In({"failed"}) = {} /\ cmd' = "recoverSave"
          /\ held' = [held EXCEPT !.docs = {}, !.phase = IF cmd = "heldRetry" THEN phase ELSE @]
          /\ UNCHANGED <<outbox, retries>>
    /\ UNCHANGED <<remote, retained, open, phase, env, guard, seen, fresh,
                   watchdog, announced, bounds>>

SaveReadyRaw ==
    /\ cmd \in {"resumeSave", "recoverSave"} /\ Return
    /\ phase' = [name |-> "ready"]
    /\ UNCHANGED <<agent, open, env, guard, seen, fresh, watchdog,
                   announced, bounds>>

\* The phase becomes ready before the closing audit, which changes nothing
\* and whose failure does not take the phase back.
SaveReady ==
    /\ cmd \in {"resumeSave", "recoverSave"} /\ Return
    /\ phase' = [held.phase EXCEPT !.name = "ready",
                                 !.retry = IF cmd = "recoverSave"
                                             THEN Cardinality(retries) ELSE @]
    /\ UNCHANGED <<agent, open, env, guard, seen, fresh, watchdog,
                   announced, bounds>>

CmdInterrupted ==
    /\ cmd # "idle" /\ Fault /\ Return
    /\ UNCHANGED <<agent, open, phase, env, guard, seen, fresh, watchdog,
                   announced>>

-----------------------------------------------------------------------------
(* settle-cap, phase and emergency-open, run by the operator               *)

CmdSettleProve ==
    /\ cmd = "idle" /\ phase.name = "cap_hold" /\ ProveCap
    /\ held' = [held EXCEPT !.phase = phase] /\ cmd' = "settleLocked"
    /\ UNCHANGED <<agent, open, phase, env, guard, seen, fresh, watchdog,
                   announced, bounds>>

CmdSettleRefresh ==
    /\ cmd = "settleLocked"
    /\ outbox' = Refreshed(outbox)
    /\ IF FailedNow # {} THEN Return ELSE Continue("settleSave")
    /\ UNCHANGED <<remote, retained, retries, open, phase, env, guard, seen,
                   fresh, watchdog, announced, bounds>>

CmdSettleSave ==
    /\ cmd = "settleSave" /\ Continue("settleAudit")
    /\ phase' = SettledPhase(held.phase)
    /\ UNCHANGED <<agent, open, env, guard, seen, fresh, watchdog, announced,
                   bounds>>

CmdSettleAudit ==
    /\ cmd = "settleAudit" /\ Return
    /\ announced' = IF ExactlySettled(held.phase) THEN TRUE ELSE announced
    /\ UNCHANGED <<agent, open, phase, env, guard, seen, fresh, watchdog, bounds>>

\* phase: loads the file, sets a name, arms or disarms, says what retries to
\* expect, and saves.
PhaseLoad ==
    /\ cmd = "idle" /\ Fault /\ cmd' = "phaseSave"
    /\ \E new \in Hands :
          held' = [held EXCEPT !.phase = [name |-> new.name, armed |-> new.armed,
                                          retry |-> Cardinality(retries)]]
    /\ UNCHANGED <<agent, open, phase, env, guard, seen, fresh, watchdog,
                   announced>>

PhaseSave ==
    /\ cmd = "phaseSave" /\ Return
    /\ phase' = held.phase /\ byHand' = TRUE
    /\ UNCHANGED <<agent, open, drift, expected, guard, seen, fresh, watchdog,
                   announced, bounds>>

OperatorOpens ==
    /\ ~open /\ EmergencyOpens
    /\ UNCHANGED <<agent, phase, env, guard, seen, fresh, watchdog, cmd, held,
                   announced>>

\* The failures that were looked into are expected from now on, and the
\* services are started again with the new configuration.
Reconfigure ==
    /\ cmd = "idle" /\ expected # failures /\ expected' = failures
    /\ guard' = "dead" /\ seen' = NoLoop /\ watchdog' = "starting"
    /\ UNCHANGED <<agent, open, phase, drift, byHand, fresh, cmd, held, announced,
                   bounds>>

-----------------------------------------------------------------------------
Guard == \/ GuardLoad \/ GuardSnap \/ GuardCapOpen \/ GuardCapSave
         \/ GuardAudit(TRUE) \/ GuardAudit(FALSE) \/ GuardBeat \/ GuardFailed \/ GuardRestarts
         \/ SettleProve \/ SettleRefresh \/ SettleSave \/ SettleAudit
Watchdog == WatchdogStarts \/ WatchdogTick
Command == \/ ReleaseCheck \/ ReleaseClose \/ ReleaseSave \/ ReleaseWait
           \/ ResumeLocked \/ HeldLocked \/ RecoverLocked \/ RecoverRetry \/ SaveReady
           \/ CmdSettleRefresh \/ CmdSettleSave \/ CmdSettleAudit \/ PhaseSave

Next ==
    \/ \E d \in Docs : Claim(d) \/ Submit(d) \/ OperationEnds(d) \/ HeldProve(d)
    \/ WorkerRefresh \/ Drift
    \/ Guard \/ GuardDies \/ SettleLockTaken
    \/ HeartbeatAges \/ Watchdog \/ WatchdogDies
    \/ ReleaseStart \/ ResumeProve \/ RecoverProve \/ CmdSettleProve \/ PhaseLoad
    \/ Command \/ CmdInterrupted \/ OperatorOpens \/ Reconfigure

Spec == Init /\ [][Next]_vars

\* Both services run in endless loops under Restart=always, and time passes.
LiveSpec ==
    /\ Spec
    /\ WF_vars(Guard) /\ WF_vars(Watchdog) /\ WF_vars(HeartbeatAges)
    /\ SF_vars(GuardAudit(TRUE))

-----------------------------------------------------------------------------
(* Properties                                                              *)

\* Outbox, circuit, phase file and the three programs are in known states.
TypeOK ==
    /\ outbox \in [Docs -> {"queued", "submitting", "submitted", "succeeded", "failed"}]
    /\ remote \in [Docs -> {"none", "pending", "completed", "failed"}]
    /\ retries \subseteq Docs
    /\ open \in BOOLEAN /\ fresh \in BOOLEAN /\ announced \in BOOLEAN
    /\ phase \in Phases
    /\ drift \in {"none", "quick", "full"} /\ expected \in Nat /\ byHand \in BOOLEAN
    /\ guard \in GuardSteps \cup {"dead", "hung"}
    /\ seen \in [phase : Phases, bad : BOOLEAN,
                act : {"continue", "open", "violation"}]
    /\ watchdog \in {"starting", "running"}
    /\ cmd \in CmdSteps
    /\ held \in [phase : Phases, docs : SUBSET Docs, base : Nat]

\* Whatever commands run, are interrupted and run again, no document that
\* Hindsight has retained is submitted a second time: retained at most once.
RetainedOnce == \A d \in Docs : retained[d] <= 1

\* Once stage_settled was logged the stage stays as logged: exactly Cap
\* documents are in, the rest of the batch waits and no row is in progress,
\* whatever commands run later (a phase set back to ready by hand and released).
SettlementFinal ==
    announced => Succeeded = Cap /\ In({"queued", "succeeded"}) = Docs

\* A circuit left closed outside the running phase (a release that died
\* between its two writes, a phase written back by a slow guard) is opened.
ClosedHoldReopens == []<>(open \/ phase.name = "running" \/ guard = "hung")

\* A guard that hangs after a release leaves it to the watchdog, unless the
\* phase command has written the phase, and may have disarmed it, since.
SilentGuardReopens ==
    []<>(open \/ byHand \/ phase.name # "running" \/ guard # "hung")

\* What settle_cap asserts of a settled stage: only queued and succeeded rows.
SettledMeansDone ==
    phase.name = "settled" => In({"submitting", "submitted"}) = {}
=============================================================================
