---------------------------- MODULE BudgetProxy ----------------------------
(***************************************************************************)
(* The Hindsight budget proxy: one handler thread per request reserves the *)
(* maximum cost under the lock, calls the provider without it and settles  *)
(* the reservation under the lock again.  The ledger and the state file    *)
(* are two files written one after the other; the process may die between  *)
(* any two steps and any write may fail.  Two operator tools work on the   *)
(* files while the proxy is down.  Prices and token counts are abstracted  *)
(* to the cost they give, the rate limiter to an arbitrary delay.          *)
(***************************************************************************)
EXTENDS Integers, FiniteSets, Functions

CONSTANTS
    Requests,       \* requests that pass do_POST's authorisation and payload guards
    Endpoint,       \* endpoint of a request: "chat" or "embeddings"
    Cost,           \* cost at the request's token ceilings
    InitialSpend,   \* initial_provider_spend_usd
    Limit,          \* effective_provider_limit
    ScopeLimit,     \* limit of each scope
    MaxMonth,       \* bound: calendar months
    MaxFaults,      \* bound: crashes, failed writes and aborted tools
    NoRequest

Scopes == {"qwen_monthly", "hindsight_backfill", "hindsight_monthly"}
Reasons == {"none", "auth", "budget", "ambiguous"}
Months == 0..MaxMonth
All == -1           \* the period "all" of the backfill scope

ASSUME BudgetAssumption ==
    /\ IsFiniteSet(Requests) /\ NoRequest \notin Requests
    /\ Endpoint \in [Requests -> {"chat", "embeddings"}]
    /\ Cost \in [Requests -> Nat \ {0}]
    /\ InitialSpend \in Nat /\ Limit \in Nat
    /\ ScopeLimit \in [Scopes -> Nat]
    /\ MaxMonth \in Nat /\ MaxFaults \in Nat

VARIABLES
    up,             \* the proxy process runs
    booked,         \* ledger in memory: cost booked for each request
    flight,         \* in_flight in memory
    open, reason,   \* circuit_open and reason in memory
    dBooked,        \* ledger.json
    dFlight, dOpen, dReason,    \* state.json
    lock,           \* request whose record() is between its two writes
    pc,             \* handler thread of each request
    scope, period,  \* what reserve() took from _scope_for
    why,            \* message of the BudgetViolation a handler holds
    prov,           \* the provider's side of each call
    charge,         \* what the provider charged for each call
    phase,          \* HINDSIGHT_BUDGET_PHASE of the running process
    month,          \* UTC calendar month
    tool,           \* reconcile_ambiguous is between its two writes
    unsaved,        \* requests whose own reservation or ledger write failed
    faults

memVars  == <<booked, flight, open, reason>>
diskVars == <<dBooked, dFlight, dOpen, dReason>>
callVars == <<scope, period, why>>
provVars == <<prov, charge>>
envVars  == <<phase, month, tool>>
vars == <<up, memVars, diskVars, lock, pc, callVars, provVars, envVars, unsaved, faults>>

Fault == faults < MaxFaults /\ faults' = faults + 1

\* provider_spent_usd, and _scope_spend or _pending_cost over a set of requests.
Sum(f, S) == SumFunctionOnSet(f, S)
Tagged(S, sc, p) == {r \in S : scope[r] = sc /\ period[r] = p}

Init ==
    /\ up = FALSE
    /\ booked = [r \in Requests |-> 0] /\ flight = {} /\ open = FALSE /\ reason = "none"
    /\ dBooked = [r \in Requests |-> 0] /\ dFlight = {} /\ dOpen = FALSE /\ dReason = "none"
    /\ lock = NoRequest
    /\ pc = [r \in Requests |-> "idle"]
    /\ scope = [r \in Requests |-> "hindsight_backfill"]
    /\ period = [r \in Requests |-> All]
    /\ why = [r \in Requests |-> "none"]
    /\ prov = [r \in Requests |-> "none"] /\ charge = [r \in Requests |-> 0]
    /\ phase = "backfill" /\ month = 0 /\ tool = FALSE
    /\ unsaved = {} /\ faults = 0

-----------------------------------------------------------------------------
\* Mutants of Boot: reservations of an earlier life are taken over silently, and the
\* ledger is started afresh.
BootTrusting ==
    /\ ~up /\ ~tool
    /\ InitialSpend + Sum(dBooked, Requests) <= Limit
    /\ up' = TRUE
    /\ booked' = dBooked /\ flight' = dFlight /\ open' = dOpen /\ reason' = dReason
    /\ phase' \in {"backfill", "monthly"}
    /\ UNCHANGED <<diskVars, lock, pc, callVars, provVars, month, tool, unsaved, faults>>

\* BudgetState.__init__: the ledger and the state are read; reservations of an
\* earlier life open the circuit before the first request is accepted.  The
\* phase is read from the environment and is not part of the guard fingerprint.
Boot ==
    /\ ~up /\ ~tool
    /\ InitialSpend + Sum(dBooked, Requests) <= Limit
    /\ up' = TRUE
    /\ booked' = dBooked /\ flight' = dFlight
    /\ open' = (dOpen \/ dFlight # {})
    /\ reason' = IF dFlight # {} THEN "ambiguous" ELSE dReason
    /\ dOpen' = open' /\ dReason' = reason'
    /\ phase' \in {"backfill", "monthly"}
    /\ UNCHANGED <<dBooked, dFlight, lock, pc, callVars, provVars, month, tool, unsaved, faults>>

\* The process dies with its threads; only the files are left.
Crash ==
    /\ up
    /\ Fault
    /\ up' = FALSE
    /\ booked' = [r \in Requests |-> 0] /\ flight' = {} /\ open' = FALSE /\ reason' = "none"
    /\ lock' = NoRequest
    /\ pc' = [r \in Requests |-> IF pc[r] = "idle" THEN "idle" ELSE "gone"]
    /\ UNCHANGED <<diskVars, callVars, provVars, envVars, unsaved>>

\* save_state with the new memory, and its failure.
SaveState == dFlight' = flight' /\ dOpen' = open' /\ dReason' = reason' /\ UNCHANGED faults
SaveFails == Fault /\ UNCHANGED <<dFlight, dOpen, dReason>>

Goto(r, label) == pc' = [pc EXCEPT ![r] = label]

\* The lock is free and r's handler is at this label.
At(r, label) == up /\ lock = NoRequest /\ pc[r] = label

\* Mutant of OpenCircuit: the reason is not recorded.
OpenCircuitSilently(why_) == open' = TRUE /\ UNCHANGED reason

\* open_circuit: the newest reason replaces the one that was there.
OpenCircuit(why_) == open' = TRUE /\ reason' = why_

-----------------------------------------------------------------------------
\* do_POST accepts the request and reserve fixes scope and period before its
\* loop, without the lock.
Arrive(r) ==
    /\ up /\ pc[r] = "idle"
    /\ Goto(r, "waiting")
    /\ scope' = [scope EXCEPT ![r] =
           IF Endpoint[r] = "embeddings" THEN "qwen_monthly"
           ELSE IF phase = "backfill" THEN "hindsight_backfill" ELSE "hindsight_monthly"]
    /\ period' = [period EXCEPT ![r] =
           IF Endpoint[r] = "chat" /\ phase = "backfill" THEN All ELSE month]
    /\ UNCHANGED <<up, memVars, diskVars, lock, why, provVars, envVars, unsaved, faults>>

\* The two monetary guards of reserve, over memory as it is now.
WithinProvider(r) ==
    InitialSpend + Sum(booked, Requests) + Sum(Cost, flight) + Cost[r] <= Limit

\* Mutant of WithinScope: calls in flight are not counted.
WithinScopeBooked(r) ==
    Sum(booked, Tagged(Requests, scope[r], period[r])) + Cost[r] <= ScopeLimit[scope[r]]

WithinScope(r) ==
    LET S(T) == Tagged(T, scope[r], period[r])
    IN  Sum(booked, S(Requests)) + Sum(Cost, S(flight)) + Cost[r] <= ScopeLimit[scope[r]]

\* One pass of reserve's loop that the rate limiter lets through; a delayed pass
\* changes nothing.  The thread dies of a failed save, with the reservation in memory.
Reserve(r) ==
    /\ At(r, "waiting")
    /\ ~open /\ WithinProvider(r) /\ WithinScope(r)
    /\ flight' = flight \cup {r}
    /\ UNCHANGED <<booked, open, reason>>
    /\ \/ SaveState /\ Goto(r, "reserved") /\ UNCHANGED unsaved
       \/ SaveFails /\ Goto(r, "gone") /\ unsaved' = unsaved \cup {r}
    /\ UNCHANGED <<up, dBooked, lock, callVars, provVars, envVars>>

\* reserve raises BudgetViolation; the lock is released before open_circuit.
Refuse(r) ==
    /\ At(r, "waiting")
    /\ open \/ ~WithinProvider(r) \/ ~WithinScope(r)
    /\ why' = [why EXCEPT ![r] = IF open THEN reason ELSE "budget"]
    /\ Goto(r, "refused")
    /\ UNCHANGED <<up, memVars, diskVars, lock, scope, period, provVars, envVars, unsaved, faults>>

\* One request over the tokens-per-minute limit: a 400, and no circuit.
RejectOversized(r) ==
    /\ At(r, "waiting")
    /\ ~open /\ WithinProvider(r) /\ WithinScope(r)
    /\ Goto(r, "done")
    /\ UNCHANGED <<up, memVars, diskVars, lock, callVars, provVars, envVars, unsaved, faults>>

\* The except clause for BudgetViolation.
RefusalOpens(r) ==
    /\ At(r, "refused")
    /\ OpenCircuit(why[r])
    /\ UNCHANGED <<booked, flight>>
    /\ SaveState \/ SaveFails
    /\ Goto(r, "done")
    /\ UNCHANGED <<up, dBooked, lock, callVars, provVars, envVars, unsaved>>

\* httpx.post leaves the proxy.
Post(r) ==
    /\ up /\ pc[r] = "reserved"
    /\ Goto(r, "sent")
    /\ prov' = [prov EXCEPT ![r] = "pending"]
    /\ UNCHANGED <<up, memVars, diskVars, lock, callVars, charge, envVars, unsaved, faults>>

\* The provider, at any time and whether or not the proxy still listens, charges at
\* most the ceilings it was given, or refuses (401, 402) or fails without a charge.
ProviderAnswers(r) ==
    /\ prov[r] = "pending"
    /\ \/ \E c \in 1..Cost[r] :
              prov' = [prov EXCEPT ![r] = "paid"] /\ charge' = [charge EXCEPT ![r] = c]
       \/ prov' = [prov EXCEPT ![r] = "denied"] /\ UNCHANGED charge
       \/ prov' = [prov EXCEPT ![r] = "failed"] /\ UNCHANGED charge
    /\ UNCHANGED <<up, memVars, diskVars, lock, pc, callVars, envVars, unsaved, faults>>

\* A status of 401 or 402: the reservation is dropped and the circuit opened.
Denied(r) ==
    /\ At(r, "sent") /\ prov[r] = "denied"
    /\ flight' = flight \ {r} /\ OpenCircuit("auth")
    /\ \/ SaveState /\ Goto(r, "done")
       \/ SaveFails /\ Goto(r, "failing")
    /\ UNCHANGED <<up, booked, dBooked, lock, callVars, provVars, envVars, unsaved>>

\* discard: any other status from 400 on.
Discard(r) ==
    /\ At(r, "sent") /\ prov[r] = "failed"
    /\ flight' = flight \ {r} /\ UNCHANGED <<open, reason>>
    /\ \/ SaveState /\ Goto(r, "done")
       \/ SaveFails /\ Goto(r, "failing")
    /\ UNCHANGED <<up, booked, dBooked, lock, callVars, provVars, envVars, unsaved>>

\* record, up to and including the ledger write: memory has the call booked and the
\* reservation gone before anything is written.  Usage that leaves out the tokens is
\* booked at the reservation, and never below the provider's figure.
Record(r) ==
    /\ At(r, "sent") /\ prov[r] = "paid" /\ r \in flight
    /\ \E c \in {charge[r], Cost[r]} : booked' = [booked EXCEPT ![r] = @ + c]
    /\ flight' = flight \ {r}
    /\ \/ /\ dBooked' = booked' /\ UNCHANGED <<faults, unsaved>>
          /\ lock' = r /\ Goto(r, "recorded")
       \/ /\ Fault /\ unsaved' = unsaved \cup {r} /\ UNCHANGED dBooked
          /\ UNCHANGED lock /\ Goto(r, "failing")
    /\ UNCHANGED <<up, open, reason, dFlight, dOpen, dReason, callVars, provVars, envVars>>

\* record, the state write.
RecordState(r) ==
    /\ up /\ lock = r
    /\ UNCHANGED memVars
    /\ lock' = NoRequest
    /\ \/ SaveState /\ Goto(r, "done")
       \/ SaveFails /\ Goto(r, "failing")
    /\ UNCHANGED <<up, dBooked, callVars, provVars, envVars, unsaved>>

\* Timeout, lost connection, unreadable body or usage, or a reservation that
\* disappeared: the answer, if any, is unknown.
Raise(r) ==
    /\ up /\ pc[r] = "sent"
    /\ Goto(r, "failing")
    /\ UNCHANGED <<up, memVars, diskVars, lock, callVars, provVars, envVars, unsaved, faults>>

\* Mutant of Ambiguous: the reservation is dropped (keep_request=False).
AmbiguousDrops(r) ==
    /\ At(r, "failing")
    /\ OpenCircuit("ambiguous")
    /\ flight' = flight \ {r} /\ UNCHANGED booked
    /\ SaveState \/ SaveFails
    /\ Goto(r, "done")
    /\ UNCHANGED <<up, dBooked, lock, callVars, provVars, envVars, unsaved>>

\* The except clause of the provider call keeps whatever reservation is left.
Ambiguous(r) ==
    /\ At(r, "failing")
    /\ OpenCircuit("ambiguous")
    /\ UNCHANGED <<booked, flight>>
    /\ SaveState \/ SaveFails
    /\ Goto(r, "done")
    /\ UNCHANGED <<up, dBooked, lock, callVars, provVars, envVars, unsaved>>

-----------------------------------------------------------------------------
\* reconcile_ambiguous, the ledger write: every reservation at its maximum.
Reconcile ==
    /\ ~up /\ ~tool /\ dFlight # {}
    /\ dBooked' = [r \in Requests |-> dBooked[r] + IF r \in dFlight THEN Cost[r] ELSE 0]
    /\ tool' = TRUE
    /\ UNCHANGED <<up, memVars, dFlight, dOpen, dReason, lock, pc, callVars, provVars,
                   phase, month, unsaved, faults>>

\* reconcile_ambiguous, the state write: no reservation, closed whatever the reason.
ReconcileState ==
    /\ tool
    /\ tool' = FALSE
    /\ dFlight' = {} /\ dOpen' = FALSE /\ dReason' = "none"
    /\ UNCHANGED <<up, memVars, dBooked, lock, pc, callVars, provVars, phase, month,
                   unsaved, faults>>

\* The roll dies between the two writes.
ReconcileAborts ==
    /\ tool
    /\ Fault
    /\ tool' = FALSE
    /\ UNCHANGED <<up, memVars, diskVars, lock, pc, callVars, provVars, phase, month, unsaved>>

\* reset_provider_auth, run with a token that was not used before.
ResetAuth ==
    /\ ~up /\ ~tool
    /\ dOpen /\ dFlight = {} /\ dReason = "auth"
    /\ dOpen' = FALSE /\ dReason' = "none"
    /\ UNCHANGED <<up, memVars, dBooked, dFlight, lock, pc, callVars, provVars, envVars,
                   unsaved, faults>>

NextMonth ==
    /\ month < MaxMonth
    /\ month' = month + 1
    /\ UNCHANGED <<up, memVars, diskVars, lock, pc, callVars, provVars, phase, tool,
                   unsaved, faults>>

Handler(r) ==
    \/ Arrive(r) \/ Reserve(r) \/ Refuse(r) \/ RejectOversized(r) \/ RefusalOpens(r)
    \/ Post(r) \/ Denied(r) \/ Discard(r) \/ Record(r) \/ RecordState(r)
    \/ Raise(r) \/ Ambiguous(r)

Next ==
    \/ Boot \/ Crash \/ NextMonth
    \/ \E r \in Requests : Handler(r) \/ ProviderAnswers(r)
    \/ Reconcile \/ ReconcileState \/ ReconcileAborts \/ ResetAuth

Spec == Init /\ [][Next]_vars
-----------------------------------------------------------------------------
Labels == {"idle", "waiting", "reserved", "refused", "sent", "recorded", "failing",
           "done", "gone"}

\* record() alone keeps the lock between two steps, and tools run without the proxy.
ControlOK ==
    /\ up \in BOOLEAN /\ tool \in BOOLEAN
    /\ pc \in [Requests -> Labels]
    /\ lock \in Requests \cup {NoRequest}
    /\ \A r \in Requests : lock = r => pc[r] = "recorded"
    /\ phase \in {"backfill", "monthly"} /\ month \in Months
    /\ tool => ~up

FaultsOK == faults \in 0..MaxFaults

CallsOK ==
    /\ scope \in [Requests -> Scopes] /\ period \in [Requests -> Months \cup {All}]
    /\ prov \in [Requests -> {"none", "pending", "paid", "denied", "failed"}]
    /\ charge \in [Requests -> Nat]

AccountsOK ==
    /\ booked \in [Requests -> Nat] /\ dBooked \in [Requests -> Nat]
    /\ flight \subseteq Requests /\ dFlight \subseteq Requests /\ unsaved \subseteq Requests

\* An open circuit has a reason, in memory, on disk and in the handler that is about to
\* open it again: reserve hands it on and the reset tool decides by it.
CircuitOK ==
    /\ open \in BOOLEAN /\ dOpen \in BOOLEAN
    /\ reason \in Reasons /\ dReason \in Reasons /\ why \in [Requests -> Reasons]
    /\ open => reason # "none"
    /\ dOpen => dReason # "none"
    /\ \A r \in Requests : pc[r] = "refused" => why[r] # "none"

\* Types of the proxy's memory, its two files, its handlers and the provider; and
\* every circuit has its reason.
TypeOK == ControlOK /\ FaultsOK /\ CallsOK /\ AccountsOK /\ CircuitOK

\* Fail-closed accounting: whatever the provider has charged, even after the proxy
\* died or timed out, is in ledger.json or still reserved in state.json, through
\* crashes between the two writes, restarts and both tools.  The one exception is a
\* call whose own ledger write failed.
SpendAccounted ==
    \A r \in Requests \ unsaved :
        charge[r] > 0 => r \in dFlight \/ dBooked[r] >= charge[r]

\* The point of the proxy: however reservations, settlements, month changes, phase
\* changes and restarts interleave, the provider's real charges keep its spend below
\* the effective provider limit and stay, for each scope and period, below the scope's
\* limit (the calls whose own ledger write failed apart).
WithinBudget ==
    /\ LET spent == Sum(charge, Requests \ unsaved)
       IN  spent > 0 => InitialSpend + spent <= Limit
    /\ \A r \in Requests :
           LET S == Tagged(Requests \ unsaved, scope[r], period[r])
           IN  Sum(charge, S) <= ScopeLimit[scope[r]]

\* "An ambiguous in-flight call found after restart opens the circuit": a running
\* proxy that holds a reservation no handler will settle admits nothing more (a
\* reservation whose own write failed apart).
OrphanHaltsTraffic ==
    up => \A r \in flight \ unsaved : pc[r] \in {"done", "gone"} => open

\* Nothing takes a booked cost out of ledger.json again: not a restart, not a later
\* ledger write from memory, not a tool.
LedgerNeverShrinks == [][\A r \in Requests : dBooked'[r] >= dBooked[r]]_vars
=============================================================================
