-------------------------- MODULE BudgetProxyProofs --------------------------
(***************************************************************************)
(* The budget proxy keeps the provider's charges within every limit,       *)
(* forgets no charge and never shrinks its ledger, for every set of        *)
(* requests, every price and limit and any number of faults.               *)
(***************************************************************************)
EXTENDS BudgetProxy, FiniteSetTheorems, WellFoundedInduction, TLAPS

\* What the ledger must hold for a call before its reservation may go: the charge, or
\* the maximum while the provider has not answered.
Due(r) == IF prov[r] = "paid" THEN charge[r] ELSE Cost[r]

Owed(r) == r \notin unsaved /\ prov[r] \in {"pending", "paid"}

\* Where a reservation is, by the label of its handler.
Placement ==
    \A r \in Requests :
        /\ pc[r] \in {"idle", "waiting", "refused"} => r \notin flight /\ r \notin dFlight
        /\ pc[r] \in {"reserved", "sent"} => up /\ r \in flight /\ r \in dFlight
        /\ pc[r] = "recorded" => up /\ r \notin flight

\* A call is charged only after it was sent, and at most its reservation.
Charging ==
    \A r \in Requests :
        /\ charge[r] <= Cost[r]
        /\ prov[r] # "paid" => charge[r] = 0
        /\ prov[r] # "none" => pc[r] \notin {"idle", "waiting", "refused", "reserved"}

\* Disk covers what is owed, memory does too while the proxy runs (memory is what the
\* next save writes), and the tool has booked what it is about to release.
Coverage ==
    /\ \A r \in Requests : Owed(r) => r \in dFlight \/ dBooked[r] >= Due(r)
    /\ \A r \in Requests : up /\ Owed(r) => r \in flight \/ dBooked[r] >= Due(r)
    /\ tool => \A r \in dFlight : dBooked[r] >= Cost[r]

\* Memory is never behind the file it will overwrite.
Ahead == up => \A r \in Requests : booked[r] >= dBooked[r]

Inv == TypeOK /\ Placement /\ Charging /\ Coverage /\ Ahead /\ OrphanHaltsTraffic

\* The handlers' labels and the lock, across crashes and failed writes.
LEMMA ControlStep ==
    ASSUME ControlOK, [Next]_vars
    PROVE  ControlOK'
<1>1. CASE Boot
      BY <1>1, BudgetAssumption DEF Boot, memVars, diskVars, callVars, provVars,
         envVars, ControlOK, Labels, Months
<1>2. CASE Crash
      BY <1>2, BudgetAssumption DEF Crash, memVars, diskVars, callVars, provVars,
         envVars, ControlOK, Labels, Months
<1>3. CASE NextMonth
      BY <1>3, BudgetAssumption DEF NextMonth, memVars, diskVars, callVars,
         provVars, envVars, ControlOK, Labels, Months
<1>4. CASE Reconcile
      BY <1>4, BudgetAssumption DEF Reconcile, memVars, diskVars, callVars,
         provVars, envVars, ControlOK, Labels, Months
<1>5. CASE ReconcileState
      BY <1>5, BudgetAssumption DEF ReconcileState, memVars, diskVars, callVars,
         provVars, envVars, ControlOK, Labels, Months
<1>6. CASE ReconcileAborts
      BY <1>6, BudgetAssumption DEF ReconcileAborts, memVars, diskVars, callVars,
         provVars, envVars, ControlOK, Labels, Months
<1>7. CASE ResetAuth
      BY <1>7, BudgetAssumption DEF ResetAuth, memVars, diskVars, callVars,
         provVars, envVars, ControlOK, Labels, Months
<1>8. ASSUME NEW r \in Requests, Handler(r) \/ ProviderAnswers(r)
      PROVE  ControlOK'
  <2>1. CASE Arrive(r)
        BY <2>1, BudgetAssumption DEF Arrive, Goto, memVars, diskVars, callVars,
           provVars, envVars, ControlOK, Labels, Months
  <2>2. CASE Reserve(r)
        BY <2>2, BudgetAssumption DEF Reserve, At, Goto, SaveState, SaveFails,
           memVars, diskVars, callVars, provVars, envVars, ControlOK, Labels, Months
  <2>3. CASE Refuse(r)
        BY <2>3, BudgetAssumption DEF Refuse, At, Goto, memVars, diskVars, callVars,
           provVars, envVars, ControlOK, Labels, Months
  <2>4. CASE RejectOversized(r)
        BY <2>4, BudgetAssumption DEF RejectOversized, At, Goto, memVars, diskVars,
           callVars, provVars, envVars, ControlOK, Labels, Months
  <2>5. CASE RefusalOpens(r)
        BY <2>5, BudgetAssumption DEF RefusalOpens, At, Goto, SaveState, SaveFails,
           OpenCircuit, memVars, diskVars, callVars, provVars, envVars, ControlOK,
           Labels, Months
  <2>6. CASE Post(r)
        BY <2>6, BudgetAssumption DEF Post, Goto, memVars, diskVars, callVars,
           provVars, envVars, ControlOK, Labels, Months
  <2>7. CASE Denied(r)
        BY <2>7, BudgetAssumption DEF Denied, At, Goto, SaveState, SaveFails,
           OpenCircuit, memVars, diskVars, callVars, provVars, envVars, ControlOK,
           Labels, Months
  <2>8. CASE Discard(r)
        BY <2>8, BudgetAssumption DEF Discard, At, Goto, SaveState, SaveFails,
           memVars, diskVars, callVars, provVars, envVars, ControlOK, Labels, Months
  <2>9. CASE Record(r)
        BY <2>9, BudgetAssumption DEF Record, At, Goto, memVars, diskVars, callVars,
           provVars, envVars, ControlOK, Labels, Months
  <2>10. CASE RecordState(r)
        BY <2>10, BudgetAssumption DEF RecordState, Goto, SaveState, SaveFails,
           memVars, diskVars, callVars, provVars, envVars, ControlOK, Labels, Months
  <2>11. CASE Raise(r)
        BY <2>11, BudgetAssumption DEF Raise, Goto, memVars, diskVars, callVars,
           provVars, envVars, ControlOK, Labels, Months
  <2>12. CASE Ambiguous(r)
        BY <2>12, BudgetAssumption DEF Ambiguous, At, Goto, SaveState, SaveFails,
           OpenCircuit, memVars, diskVars, callVars, provVars, envVars, ControlOK,
           Labels, Months
  <2>13. CASE ProviderAnswers(r)
        BY <2>13, BudgetAssumption DEF ProviderAnswers, memVars, diskVars, callVars,
           provVars, envVars, ControlOK, Labels, Months
  <2> QED
        BY <1>8, <2>1, <2>2, <2>3, <2>4, <2>5, <2>6, <2>7, <2>8, <2>9, <2>10, <2>11, <2>12, <2>13 DEF Handler
<1>9. CASE UNCHANGED vars
      BY <1>9 DEF vars, memVars, diskVars, callVars, provVars, envVars, ControlOK,
         Labels, Months
<1> QED
      BY <1>1, <1>2, <1>3, <1>4, <1>5, <1>6, <1>7, <1>8, <1>9 DEF Next

\* The bound on faults.
LEMMA FaultsStep ==
    ASSUME FaultsOK, [Next]_vars
    PROVE  FaultsOK'
<1>1. Fault \/ UNCHANGED faults
      BY DEF Next, Handler, vars, SaveState, SaveFails, Boot, Crash, NextMonth, Reconcile,
         ReconcileState, ReconcileAborts, ResetAuth, Arrive, Reserve, Refuse,
         RejectOversized, RefusalOpens, Post, Denied, Discard, Record, RecordState, Raise,
         Ambiguous, ProviderAnswers
<1> QED
      BY <1>1, BudgetAssumption DEF FaultsOK, Fault

\* Scope, period and the provider's side of every call.
LEMMA CallsStep ==
    ASSUME ControlOK, CallsOK, [Next]_vars
    PROVE  CallsOK'
<1>1. ASSUME NEW r \in Requests, Arrive(r)
      PROVE  CallsOK'
      BY <1>1, BudgetAssumption DEF Arrive, Goto, memVars, diskVars, callVars,
         provVars, envVars, CallsOK, ControlOK, Scopes, Months, All
<1>2. ASSUME NEW r \in Requests, Post(r)
      PROVE  CallsOK'
      BY <1>2, BudgetAssumption DEF Post, Goto, memVars, diskVars, callVars,
         provVars, envVars, CallsOK, ControlOK, Scopes, Months, All
<1>3. ASSUME NEW r \in Requests, ProviderAnswers(r)
      PROVE  CallsOK'
      BY <1>3, BudgetAssumption DEF ProviderAnswers, memVars, diskVars, callVars,
         provVars, envVars, CallsOK, ControlOK, Scopes, Months, All
<1>4. CASE UNCHANGED <<scope, period, prov, charge>>
      BY <1>4 DEF CallsOK, ControlOK, Scopes, Months, All
<1>5. (\E r \in Requests : Arrive(r) \/ Post(r) \/ ProviderAnswers(r)) \/ UNCHANGED
      <<scope, period, prov, charge>>
      BY DEF Next, Handler, vars, memVars, diskVars, callVars, provVars, envVars,
         Boot, Crash, NextMonth, Reconcile, ReconcileState, ReconcileAborts,
         ResetAuth, Reserve, Refuse, RejectOversized, RefusalOpens, Denied, Discard,
         Record, RecordState, Raise, Ambiguous
<1> QED
      BY <1>1, <1>2, <1>3, <1>4, <1>5

\* Ledger and reservations, in memory and on disk.
LEMMA AccountsStep ==
    ASSUME CallsOK, AccountsOK, [Next]_vars
    PROVE  AccountsOK'
<1>1. CASE Boot
      BY <1>1, BudgetAssumption DEF Boot, memVars, diskVars, callVars, provVars,
         envVars, CallsOK, AccountsOK
<1>2. CASE Crash
      BY <1>2, BudgetAssumption DEF Crash, Fault, memVars, diskVars, callVars,
         provVars, envVars, CallsOK, AccountsOK
<1>3. CASE Reconcile
      BY <1>3, BudgetAssumption DEF Reconcile, memVars, diskVars, callVars,
         provVars, envVars, CallsOK, AccountsOK
<1>4. CASE ReconcileState
      BY <1>4, BudgetAssumption DEF ReconcileState, memVars, diskVars, callVars,
         provVars, envVars, CallsOK, AccountsOK
<1>5. ASSUME NEW r \in Requests, Reserve(r)
      PROVE  AccountsOK'
      BY <1>5, BudgetAssumption DEF Reserve, At, Goto, Fault, SaveState, SaveFails,
         memVars, diskVars, callVars, provVars, envVars, CallsOK, AccountsOK
<1>6. ASSUME NEW r \in Requests, RefusalOpens(r)
      PROVE  AccountsOK'
      BY <1>6, BudgetAssumption DEF RefusalOpens, At, Goto, Fault, SaveState,
         SaveFails, OpenCircuit, memVars, diskVars, callVars, provVars, envVars,
         CallsOK, AccountsOK
<1>7. ASSUME NEW r \in Requests, Denied(r)
      PROVE  AccountsOK'
      BY <1>7, BudgetAssumption DEF Denied, At, Goto, Fault, SaveState, SaveFails,
         OpenCircuit, memVars, diskVars, callVars, provVars, envVars, CallsOK,
         AccountsOK
<1>8. ASSUME NEW r \in Requests, Discard(r)
      PROVE  AccountsOK'
      BY <1>8, BudgetAssumption DEF Discard, At, Goto, Fault, SaveState, SaveFails,
         memVars, diskVars, callVars, provVars, envVars, CallsOK, AccountsOK
<1>9. ASSUME NEW r \in Requests, Record(r)
      PROVE  AccountsOK'
  <2>1. PICK c \in {charge[r], Cost[r]} : booked' = [booked EXCEPT ![r] = @ + c]
        BY <1>9 DEF Record
  <2>2. c \in Nat
        BY <2>1, BudgetAssumption DEF CallsOK
  <2>3. booked' \in [Requests -> Nat]
        BY <2>1, <2>2 DEF AccountsOK
  <2> QED
        BY <1>9, <2>3 DEF Record, AccountsOK
<1>10. ASSUME NEW r \in Requests, RecordState(r)
      PROVE  AccountsOK'
      BY <1>10, BudgetAssumption DEF RecordState, Goto, Fault, SaveState, SaveFails,
         memVars, diskVars, callVars, provVars, envVars, CallsOK, AccountsOK
<1>11. ASSUME NEW r \in Requests, Ambiguous(r)
      PROVE  AccountsOK'
      BY <1>11, BudgetAssumption DEF Ambiguous, At, Goto, Fault, SaveState,
         SaveFails, OpenCircuit, memVars, diskVars, callVars, provVars, envVars,
         CallsOK, AccountsOK
<1>12. CASE UNCHANGED <<booked, dBooked, flight, dFlight, unsaved>>
      BY <1>12 DEF CallsOK, AccountsOK
<1>13. Boot \/ Crash \/ Reconcile \/ ReconcileState \/ (\E r \in Requests : Reserve(r)
      \/ RefusalOpens(r) \/ Denied(r) \/ Discard(r) \/ Record(r) \/
      RecordState(r) \/ Ambiguous(r)) \/ UNCHANGED <<booked, dBooked, flight,
      dFlight, unsaved>>
      BY DEF Next, Handler, vars, memVars, diskVars, callVars, provVars, envVars,
         NextMonth, ReconcileAborts, ResetAuth, Arrive, Refuse, RejectOversized,
         Post, Raise, ProviderAnswers
<1> QED
      BY <1>1, <1>2, <1>3, <1>4, <1>5, <1>6, <1>7, <1>8, <1>9, <1>10, <1>11, <1>12, <1>13

\* The state file after open_circuit, whether its save failed or not.
LEMMA CircuitSaved ==
    ASSUME CircuitOK, open' = TRUE, reason' \in Reasons \ {"none"},
           (dOpen' = open' /\ dReason' = reason') \/ (dOpen' = dOpen /\ dReason' = dReason)
    PROVE  dOpen' \in BOOLEAN /\ dReason' \in Reasons /\ (dOpen' => dReason' # "none")
<1>1. CASE dOpen' = open' /\ dReason' = reason'
  <2>1. dOpen' = TRUE
        BY <1>1
  <2>2. dReason' \in Reasons \ {"none"}
        BY <1>1
  <2> QED
        BY <2>1, <2>2
<1>2. CASE dOpen' = dOpen /\ dReason' = dReason
      BY <1>2 DEF CircuitOK
<1> QED
      BY <1>1, <1>2

\* Every way to open the circuit gives a reason, the refusal that passes on the reason it
\* read included, and every way to close it clears it.
LEMMA CircuitStep ==
    ASSUME ControlOK, CircuitOK, [Next]_vars
    PROVE  CircuitOK'
<1>1. CASE Boot
      BY <1>1, BudgetAssumption DEF Boot, memVars, diskVars, callVars, provVars,
         envVars, ControlOK, CircuitOK, Reasons
<1>2. CASE Crash
      BY <1>2, BudgetAssumption DEF Crash, memVars, diskVars, callVars, provVars,
         envVars, ControlOK, CircuitOK, Reasons
<1>3. CASE NextMonth
      BY <1>3, BudgetAssumption DEF NextMonth, memVars, diskVars, callVars,
         provVars, envVars, ControlOK, CircuitOK, Reasons
<1>4. CASE Reconcile
      BY <1>4, BudgetAssumption DEF Reconcile, memVars, diskVars, callVars,
         provVars, envVars, ControlOK, CircuitOK, Reasons
<1>5. CASE ReconcileState
      BY <1>5, BudgetAssumption DEF ReconcileState, memVars, diskVars, callVars,
         provVars, envVars, ControlOK, CircuitOK, Reasons
<1>6. CASE ReconcileAborts
      BY <1>6, BudgetAssumption DEF ReconcileAborts, memVars, diskVars, callVars,
         provVars, envVars, ControlOK, CircuitOK, Reasons
<1>7. CASE ResetAuth
      BY <1>7, BudgetAssumption DEF ResetAuth, memVars, diskVars, callVars,
         provVars, envVars, ControlOK, CircuitOK, Reasons
<1>8. ASSUME NEW r \in Requests, Handler(r) \/ ProviderAnswers(r)
      PROVE  CircuitOK'
  <2>1. CASE Arrive(r)
        BY <2>1, BudgetAssumption DEF Arrive, Goto, memVars, diskVars, callVars,
           provVars, envVars, ControlOK, CircuitOK, Reasons
  <2>2. CASE Reserve(r)
        BY <2>2, BudgetAssumption DEF Reserve, At, Goto, SaveState, SaveFails,
           memVars, diskVars, callVars, provVars, envVars, ControlOK, CircuitOK,
           Reasons
  <2>3. CASE Refuse(r)
        BY <2>3, BudgetAssumption DEF Refuse, At, Goto, memVars, diskVars, callVars,
           provVars, envVars, ControlOK, CircuitOK, Reasons
  <2>4. CASE RejectOversized(r)
        BY <2>4, BudgetAssumption DEF RejectOversized, At, Goto, memVars, diskVars,
           callVars, provVars, envVars, ControlOK, CircuitOK, Reasons
  <2>5. CASE RefusalOpens(r)
    <3>1. open' = TRUE /\ reason' \in Reasons \ {"none"}
          BY <2>5 DEF RefusalOpens, At, OpenCircuit, CircuitOK, Reasons
    <3>2. (dOpen' = open' /\ dReason' = reason') \/ (dOpen' = dOpen /\ dReason' = dReason)
          BY <2>5 DEF RefusalOpens, SaveState, SaveFails
    <3>3. dOpen' \in BOOLEAN /\ dReason' \in Reasons /\ (dOpen' => dReason' # "none")
          BY <3>1, <3>2, CircuitSaved
    <3>4. why' = why /\ \A s \in Requests : pc'[s] = "refused" => pc[s] = "refused"
          BY <2>5 DEF RefusalOpens, Goto, callVars, ControlOK
    <3> QED
          BY <3>1, <3>3, <3>4 DEF CircuitOK
  <2>6. CASE Post(r)
        BY <2>6, BudgetAssumption DEF Post, Goto, memVars, diskVars, callVars,
           provVars, envVars, ControlOK, CircuitOK, Reasons
  <2>7. CASE Denied(r)
    <3>1. open' = TRUE /\ reason' \in Reasons \ {"none"}
          BY <2>7 DEF Denied, At, OpenCircuit, CircuitOK, Reasons
    <3>2. (dOpen' = open' /\ dReason' = reason') \/ (dOpen' = dOpen /\ dReason' = dReason)
          BY <2>7 DEF Denied, SaveState, SaveFails
    <3>3. dOpen' \in BOOLEAN /\ dReason' \in Reasons /\ (dOpen' => dReason' # "none")
          BY <3>1, <3>2, CircuitSaved
    <3>4. why' = why /\ \A s \in Requests : pc'[s] = "refused" => pc[s] = "refused"
          BY <2>7 DEF Denied, Goto, callVars, ControlOK
    <3> QED
          BY <3>1, <3>3, <3>4 DEF CircuitOK
  <2>8. CASE Discard(r)
        BY <2>8, BudgetAssumption DEF Discard, At, Goto, SaveState, SaveFails,
           memVars, diskVars, callVars, provVars, envVars, ControlOK, CircuitOK,
           Reasons
  <2>9. CASE Record(r)
        BY <2>9, BudgetAssumption DEF Record, At, Goto, memVars, diskVars, callVars,
           provVars, envVars, ControlOK, CircuitOK, Reasons
  <2>10. CASE RecordState(r)
        BY <2>10, BudgetAssumption DEF RecordState, Goto, SaveState, SaveFails,
           memVars, diskVars, callVars, provVars, envVars, ControlOK, CircuitOK,
           Reasons
  <2>11. CASE Raise(r)
        BY <2>11, BudgetAssumption DEF Raise, Goto, memVars, diskVars, callVars,
           provVars, envVars, ControlOK, CircuitOK, Reasons
  <2>12. CASE Ambiguous(r)
    <3>1. open' = TRUE /\ reason' \in Reasons \ {"none"}
          BY <2>12 DEF Ambiguous, At, OpenCircuit, CircuitOK, Reasons
    <3>2. (dOpen' = open' /\ dReason' = reason') \/ (dOpen' = dOpen /\ dReason' = dReason)
          BY <2>12 DEF Ambiguous, SaveState, SaveFails
    <3>3. dOpen' \in BOOLEAN /\ dReason' \in Reasons /\ (dOpen' => dReason' # "none")
          BY <3>1, <3>2, CircuitSaved
    <3>4. why' = why /\ \A s \in Requests : pc'[s] = "refused" => pc[s] = "refused"
          BY <2>12 DEF Ambiguous, Goto, callVars, ControlOK
    <3> QED
          BY <3>1, <3>3, <3>4 DEF CircuitOK
  <2>13. CASE ProviderAnswers(r)
        BY <2>13, BudgetAssumption DEF ProviderAnswers, memVars, diskVars, callVars,
           provVars, envVars, ControlOK, CircuitOK, Reasons
  <2> QED
        BY <1>8, <2>1, <2>2, <2>3, <2>4, <2>5, <2>6, <2>7, <2>8, <2>9, <2>10, <2>11, <2>12, <2>13 DEF Handler
<1>9. CASE UNCHANGED vars
      BY <1>9 DEF vars, memVars, diskVars, callVars, provVars, envVars, ControlOK,
         CircuitOK, Reasons
<1> QED
      BY <1>1, <1>2, <1>3, <1>4, <1>5, <1>6, <1>7, <1>8, <1>9 DEF Next

\* Handlers and tools keep every reservation where its handler's label says.
LEMMA PlacementStep ==
    ASSUME ControlOK, AccountsOK, Placement, [Next]_vars
    PROVE  Placement'
<1>1. CASE Boot
      BY <1>1, BudgetAssumption DEF Boot, memVars, diskVars, callVars, provVars,
         envVars, ControlOK, AccountsOK, Placement
<1>2. CASE Crash
      BY <1>2, BudgetAssumption DEF Crash, Fault, memVars, diskVars, callVars,
         provVars, envVars, ControlOK, AccountsOK, Placement
<1>3. CASE NextMonth
      BY <1>3, BudgetAssumption DEF NextMonth, memVars, diskVars, callVars,
         provVars, envVars, ControlOK, AccountsOK, Placement
<1>4. CASE Reconcile
      BY <1>4, BudgetAssumption DEF Reconcile, memVars, diskVars, callVars,
         provVars, envVars, ControlOK, AccountsOK, Placement
<1>5. CASE ReconcileState
      BY <1>5, BudgetAssumption DEF ReconcileState, memVars, diskVars, callVars,
         provVars, envVars, ControlOK, AccountsOK, Placement
<1>6. CASE ReconcileAborts
      BY <1>6, BudgetAssumption DEF ReconcileAborts, Fault, memVars, diskVars,
         callVars, provVars, envVars, ControlOK, AccountsOK, Placement
<1>7. CASE ResetAuth
      BY <1>7, BudgetAssumption DEF ResetAuth, memVars, diskVars, callVars,
         provVars, envVars, ControlOK, AccountsOK, Placement
<1>8. ASSUME NEW r \in Requests, Handler(r) \/ ProviderAnswers(r)
      PROVE  Placement'
  <2>1. CASE Arrive(r)
        BY <2>1, BudgetAssumption DEF Arrive, Goto, memVars, diskVars, callVars,
           provVars, envVars, ControlOK, AccountsOK, Placement
  <2>2. CASE Reserve(r)
        BY <2>2, BudgetAssumption DEF Reserve, At, Goto, Fault, SaveState,
           SaveFails, memVars, diskVars, callVars, provVars, envVars, ControlOK,
           AccountsOK, Placement
  <2>3. CASE Refuse(r)
        BY <2>3, BudgetAssumption DEF Refuse, At, Goto, memVars, diskVars, callVars,
           provVars, envVars, ControlOK, AccountsOK, Placement
  <2>4. CASE RejectOversized(r)
        BY <2>4, BudgetAssumption DEF RejectOversized, At, Goto, memVars, diskVars,
           callVars, provVars, envVars, ControlOK, AccountsOK, Placement
  <2>5. CASE RefusalOpens(r)
        BY <2>5, BudgetAssumption DEF RefusalOpens, At, Goto, Fault, SaveState,
           SaveFails, OpenCircuit, memVars, diskVars, callVars, provVars, envVars,
           ControlOK, AccountsOK, Placement
  <2>6. CASE Post(r)
        BY <2>6, BudgetAssumption DEF Post, Goto, memVars, diskVars, callVars,
           provVars, envVars, ControlOK, AccountsOK, Placement
  <2>7. CASE Denied(r)
        BY <2>7, BudgetAssumption DEF Denied, At, Goto, Fault, SaveState, SaveFails,
           OpenCircuit, memVars, diskVars, callVars, provVars, envVars, ControlOK,
           AccountsOK, Placement
  <2>8. CASE Discard(r)
        BY <2>8, BudgetAssumption DEF Discard, At, Goto, Fault, SaveState,
           SaveFails, memVars, diskVars, callVars, provVars, envVars, ControlOK,
           AccountsOK, Placement
  <2>9. CASE Record(r)
        BY <2>9, BudgetAssumption DEF Record, At, Goto, Fault, memVars, diskVars,
           callVars, provVars, envVars, ControlOK, AccountsOK, Placement
  <2>10. CASE RecordState(r)
        BY <2>10, BudgetAssumption DEF RecordState, Goto, Fault, SaveState,
           SaveFails, memVars, diskVars, callVars, provVars, envVars, ControlOK,
           AccountsOK, Placement
  <2>11. CASE Raise(r)
        BY <2>11, BudgetAssumption DEF Raise, Goto, memVars, diskVars, callVars,
           provVars, envVars, ControlOK, AccountsOK, Placement
  <2>12. CASE Ambiguous(r)
        BY <2>12, BudgetAssumption DEF Ambiguous, At, Goto, Fault, SaveState,
           SaveFails, OpenCircuit, memVars, diskVars, callVars, provVars, envVars,
           ControlOK, AccountsOK, Placement
  <2>13. CASE ProviderAnswers(r)
        BY <2>13, BudgetAssumption DEF ProviderAnswers, memVars, diskVars, callVars,
           provVars, envVars, ControlOK, AccountsOK, Placement
  <2> QED
        BY <1>8, <2>1, <2>2, <2>3, <2>4, <2>5, <2>6, <2>7, <2>8, <2>9, <2>10, <2>11, <2>12, <2>13 DEF Handler
<1>9. CASE UNCHANGED vars
      BY <1>9 DEF vars, memVars, diskVars, callVars, provVars, envVars, ControlOK,
         AccountsOK, Placement
<1> QED
      BY <1>1, <1>2, <1>3, <1>4, <1>5, <1>6, <1>7, <1>8, <1>9 DEF Next

\* The provider charges only calls that were sent.
LEMMA ChargingStep ==
    ASSUME ControlOK, CallsOK, Charging, [Next]_vars
    PROVE  Charging'
<1>1. CASE Boot
      BY <1>1, BudgetAssumption DEF Boot, memVars, diskVars, callVars, provVars,
         envVars, ControlOK, CallsOK, Charging
<1>2. CASE Crash
      BY <1>2, BudgetAssumption DEF Crash, Fault, memVars, diskVars, callVars,
         provVars, envVars, ControlOK, CallsOK, Charging
<1>3. CASE NextMonth
      BY <1>3, BudgetAssumption DEF NextMonth, memVars, diskVars, callVars,
         provVars, envVars, ControlOK, CallsOK, Charging
<1>4. CASE Reconcile
      BY <1>4, BudgetAssumption DEF Reconcile, memVars, diskVars, callVars,
         provVars, envVars, ControlOK, CallsOK, Charging
<1>5. CASE ReconcileState
      BY <1>5, BudgetAssumption DEF ReconcileState, memVars, diskVars, callVars,
         provVars, envVars, ControlOK, CallsOK, Charging
<1>6. CASE ReconcileAborts
      BY <1>6, BudgetAssumption DEF ReconcileAborts, Fault, memVars, diskVars,
         callVars, provVars, envVars, ControlOK, CallsOK, Charging
<1>7. CASE ResetAuth
      BY <1>7, BudgetAssumption DEF ResetAuth, memVars, diskVars, callVars,
         provVars, envVars, ControlOK, CallsOK, Charging
<1>8. ASSUME NEW r \in Requests, Handler(r) \/ ProviderAnswers(r)
      PROVE  Charging'
  <2>1. CASE Arrive(r)
        BY <2>1, BudgetAssumption DEF Arrive, Goto, memVars, diskVars, callVars,
           provVars, envVars, ControlOK, CallsOK, Charging
  <2>2. CASE Reserve(r)
        BY <2>2, BudgetAssumption DEF Reserve, At, Goto, Fault, SaveState,
           SaveFails, memVars, diskVars, callVars, provVars, envVars, ControlOK,
           CallsOK, Charging
  <2>3. CASE Refuse(r)
        BY <2>3, BudgetAssumption DEF Refuse, At, Goto, memVars, diskVars, callVars,
           provVars, envVars, ControlOK, CallsOK, Charging
  <2>4. CASE RejectOversized(r)
        BY <2>4, BudgetAssumption DEF RejectOversized, At, Goto, memVars, diskVars,
           callVars, provVars, envVars, ControlOK, CallsOK, Charging
  <2>5. CASE RefusalOpens(r)
        BY <2>5, BudgetAssumption DEF RefusalOpens, At, Goto, Fault, SaveState,
           SaveFails, OpenCircuit, memVars, diskVars, callVars, provVars, envVars,
           ControlOK, CallsOK, Charging
  <2>6. CASE Post(r)
        BY <2>6, BudgetAssumption DEF Post, Goto, memVars, diskVars, callVars,
           provVars, envVars, ControlOK, CallsOK, Charging
  <2>7. CASE Denied(r)
        BY <2>7, BudgetAssumption DEF Denied, At, Goto, Fault, SaveState, SaveFails,
           OpenCircuit, memVars, diskVars, callVars, provVars, envVars, ControlOK,
           CallsOK, Charging
  <2>8. CASE Discard(r)
        BY <2>8, BudgetAssumption DEF Discard, At, Goto, Fault, SaveState,
           SaveFails, memVars, diskVars, callVars, provVars, envVars, ControlOK,
           CallsOK, Charging
  <2>9. CASE Record(r)
        BY <2>9, BudgetAssumption DEF Record, At, Goto, Fault, memVars, diskVars,
           callVars, provVars, envVars, ControlOK, CallsOK, Charging
  <2>10. CASE RecordState(r)
        BY <2>10, BudgetAssumption DEF RecordState, Goto, Fault, SaveState,
           SaveFails, memVars, diskVars, callVars, provVars, envVars, ControlOK,
           CallsOK, Charging
  <2>11. CASE Raise(r)
        BY <2>11, BudgetAssumption DEF Raise, Goto, memVars, diskVars, callVars,
           provVars, envVars, ControlOK, CallsOK, Charging
  <2>12. CASE Ambiguous(r)
        BY <2>12, BudgetAssumption DEF Ambiguous, At, Goto, Fault, SaveState,
           SaveFails, OpenCircuit, memVars, diskVars, callVars, provVars, envVars,
           ControlOK, CallsOK, Charging
  <2>13. CASE ProviderAnswers(r)
        BY <2>13, BudgetAssumption DEF ProviderAnswers, memVars, diskVars, callVars,
           provVars, envVars, ControlOK, CallsOK, Charging
  <2> QED
        BY <1>8, <2>1, <2>2, <2>3, <2>4, <2>5, <2>6, <2>7, <2>8, <2>9, <2>10, <2>11, <2>12, <2>13 DEF Handler
<1>9. CASE UNCHANGED vars
      BY <1>9 DEF vars, memVars, diskVars, callVars, provVars, envVars, ControlOK,
         CallsOK, Charging
<1> QED
      BY <1>1, <1>2, <1>3, <1>4, <1>5, <1>6, <1>7, <1>8, <1>9 DEF Next

\* Only record() and the tools write the ledger.
LEMMA AheadStep ==
    ASSUME CallsOK, AccountsOK, Ahead, [Next]_vars
    PROVE  Ahead'
<1>1. CASE Boot
      BY <1>1, BudgetAssumption DEF Boot, memVars, diskVars, callVars, provVars,
         envVars, CallsOK, AccountsOK, Ahead
<1>2. CASE Crash
      BY <1>2, BudgetAssumption DEF Crash, Fault, memVars, diskVars, callVars,
         provVars, envVars, CallsOK, AccountsOK, Ahead
<1>3. CASE Reconcile
      BY <1>3, BudgetAssumption DEF Reconcile, memVars, diskVars, callVars,
         provVars, envVars, CallsOK, AccountsOK, Ahead
<1>4. ASSUME NEW r \in Requests, Record(r)
      PROVE  Ahead'
  <2>1. PICK c \in {charge[r], Cost[r]} : booked' = [booked EXCEPT ![r] = @ + c]
        BY <1>4 DEF Record
  <2>2. c \in Nat
        BY <2>1, BudgetAssumption DEF CallsOK
  <2>3. \A s \in Requests : booked'[s] >= booked[s]
        BY <2>1, <2>2 DEF AccountsOK
  <2>4. dBooked' = booked' \/ dBooked' = dBooked
        BY <1>4 DEF Record
  <2>5. booked' \in [Requests -> Nat]
        BY <2>1, <2>2 DEF AccountsOK
  <2>6. up
        BY <1>4 DEF Record, At
  <2> QED
        BY <2>3, <2>4, <2>5, <2>6 DEF Ahead, AccountsOK
<1>5. CASE UNCHANGED <<up, booked, dBooked>>
      BY <1>5 DEF CallsOK, AccountsOK, Ahead
<1>6. Boot \/ Crash \/ Reconcile \/ (\E r \in Requests : Record(r)) \/ UNCHANGED <<up,
      booked, dBooked>>
      BY DEF Next, Handler, vars, memVars, diskVars, callVars, provVars, envVars,
         NextMonth, ReconcileState, ReconcileAborts, ResetAuth, Arrive, Reserve,
         Refuse, RejectOversized, RefusalOpens, Post, Denied, Discard, RecordState,
         Raise, Ambiguous, ProviderAnswers
<1> QED
      BY <1>1, <1>2, <1>3, <1>4, <1>5, <1>6

\* No write and no tool uncovers a call that is owed.
LEMMA CoverageStep ==
    ASSUME ControlOK, CallsOK, AccountsOK, Placement, Charging, Ahead, Coverage, [Next]_vars
    PROVE  Coverage'
<1>1. CASE Boot
      BY <1>1, BudgetAssumption DEF Boot, memVars, diskVars, callVars, provVars,
         envVars, ControlOK, CallsOK, AccountsOK, Placement, Charging, Ahead,
         Coverage, Owed, Due
<1>2. CASE Crash
      BY <1>2, BudgetAssumption DEF Crash, Fault, memVars, diskVars, callVars,
         provVars, envVars, ControlOK, CallsOK, AccountsOK, Placement, Charging,
         Ahead, Coverage, Owed, Due
<1>3. CASE NextMonth
      BY <1>3, BudgetAssumption DEF NextMonth, memVars, diskVars, callVars,
         provVars, envVars, ControlOK, CallsOK, AccountsOK, Placement, Charging,
         Ahead, Coverage, Owed, Due
<1>4. CASE Reconcile
      BY <1>4, BudgetAssumption DEF Reconcile, memVars, diskVars, callVars,
         provVars, envVars, ControlOK, CallsOK, AccountsOK, Placement, Charging,
         Ahead, Coverage, Owed, Due
<1>5. CASE ReconcileState
      BY <1>5, BudgetAssumption DEF ReconcileState, memVars, diskVars, callVars,
         provVars, envVars, ControlOK, CallsOK, AccountsOK, Placement, Charging,
         Ahead, Coverage, Owed, Due
<1>6. CASE ReconcileAborts
      BY <1>6, BudgetAssumption DEF ReconcileAborts, Fault, memVars, diskVars,
         callVars, provVars, envVars, ControlOK, CallsOK, AccountsOK, Placement,
         Charging, Ahead, Coverage, Owed, Due
<1>7. CASE ResetAuth
      BY <1>7, BudgetAssumption DEF ResetAuth, memVars, diskVars, callVars,
         provVars, envVars, ControlOK, CallsOK, AccountsOK, Placement, Charging,
         Ahead, Coverage, Owed, Due
<1>8. ASSUME NEW r \in Requests, Handler(r) \/ ProviderAnswers(r)
      PROVE  Coverage'
  <2>1. CASE Arrive(r)
        BY <2>1, BudgetAssumption DEF Arrive, Goto, memVars, diskVars, callVars,
           provVars, envVars, ControlOK, CallsOK, AccountsOK, Placement, Charging,
           Ahead, Coverage, Owed, Due
  <2>2. CASE Reserve(r)
        BY <2>2, BudgetAssumption DEF Reserve, At, Goto, Fault, SaveState,
           SaveFails, memVars, diskVars, callVars, provVars, envVars, ControlOK,
           CallsOK, AccountsOK, Placement, Charging, Ahead, Coverage, Owed, Due
  <2>3. CASE Refuse(r)
        BY <2>3, BudgetAssumption DEF Refuse, At, Goto, memVars, diskVars, callVars,
           provVars, envVars, ControlOK, CallsOK, AccountsOK, Placement, Charging,
           Ahead, Coverage, Owed, Due
  <2>4. CASE RejectOversized(r)
        BY <2>4, BudgetAssumption DEF RejectOversized, At, Goto, memVars, diskVars,
           callVars, provVars, envVars, ControlOK, CallsOK, AccountsOK, Placement,
           Charging, Ahead, Coverage, Owed, Due
  <2>5. CASE RefusalOpens(r)
        BY <2>5, BudgetAssumption DEF RefusalOpens, At, Goto, Fault, SaveState,
           SaveFails, OpenCircuit, memVars, diskVars, callVars, provVars, envVars,
           ControlOK, CallsOK, AccountsOK, Placement, Charging, Ahead, Coverage,
           Owed, Due
  <2>6. CASE Post(r)
        BY <2>6, BudgetAssumption DEF Post, Goto, memVars, diskVars, callVars,
           provVars, envVars, ControlOK, CallsOK, AccountsOK, Placement, Charging,
           Ahead, Coverage, Owed, Due
  <2>7. CASE Denied(r)
        BY <2>7, BudgetAssumption DEF Denied, At, Goto, Fault, SaveState, SaveFails,
           OpenCircuit, memVars, diskVars, callVars, provVars, envVars, ControlOK,
           CallsOK, AccountsOK, Placement, Charging, Ahead, Coverage, Owed, Due
  <2>8. CASE Discard(r)
        BY <2>8, BudgetAssumption DEF Discard, At, Goto, Fault, SaveState,
           SaveFails, memVars, diskVars, callVars, provVars, envVars, ControlOK,
           CallsOK, AccountsOK, Placement, Charging, Ahead, Coverage, Owed, Due
  <2>9. CASE Record(r)
    <3>1. PICK c \in {charge[r], Cost[r]} : booked' = [booked EXCEPT ![r] = @ + c]
          BY <2>9 DEF Record
    <3>2. c \in Nat
          BY <3>1, BudgetAssumption DEF CallsOK
    <3>3. booked' \in [Requests -> Nat] /\ \A s \in Requests : booked'[s] >= booked[s]
          BY <3>1, <3>2 DEF AccountsOK
    <3>4. \A s \in Requests : dBooked'[s] >= dBooked[s]
          BY <2>9, <3>3 DEF Record, At, Ahead, AccountsOK
    <3>5. r \notin unsaved' => dBooked'[r] >= charge[r]
      <4>1. SUFFICES ASSUME r \notin unsaved'
                     PROVE  dBooked' = booked'
            BY <3>1, <3>2, <4>1, BudgetAssumption DEF CallsOK, AccountsOK, Charging
      <4> QED
            BY <2>9, <4>1 DEF Record
    <3>6. /\ charge' = charge /\ prov' = prov /\ dFlight' = dFlight /\ up' = up /\ tool' = tool
          /\ flight' = flight \ {r} /\ unsaved \subseteq unsaved' /\ prov[r] = "paid" /\ up
          BY <2>9 DEF Record, At, provVars, envVars
    <3>7. dBooked' \in [Requests -> Nat]
          BY <2>9, <3>3 DEF Record, AccountsOK
    <3> QED
          BY <3>4, <3>5, <3>6, <3>7, BudgetAssumption
          DEF Coverage, Owed, Due, ControlOK, CallsOK, AccountsOK
  <2>10. CASE RecordState(r)
        BY <2>10, BudgetAssumption DEF RecordState, Goto, Fault, SaveState,
           SaveFails, memVars, diskVars, callVars, provVars, envVars, ControlOK,
           CallsOK, AccountsOK, Placement, Charging, Ahead, Coverage, Owed, Due
  <2>11. CASE Raise(r)
        BY <2>11, BudgetAssumption DEF Raise, Goto, memVars, diskVars, callVars,
           provVars, envVars, ControlOK, CallsOK, AccountsOK, Placement, Charging,
           Ahead, Coverage, Owed, Due
  <2>12. CASE Ambiguous(r)
        BY <2>12, BudgetAssumption DEF Ambiguous, At, Goto, Fault, SaveState,
           SaveFails, OpenCircuit, memVars, diskVars, callVars, provVars, envVars,
           ControlOK, CallsOK, AccountsOK, Placement, Charging, Ahead, Coverage,
           Owed, Due
  <2>13. CASE ProviderAnswers(r)
        BY <2>13, BudgetAssumption DEF ProviderAnswers, memVars, diskVars, callVars,
           provVars, envVars, ControlOK, CallsOK, AccountsOK, Placement, Charging,
           Ahead, Coverage, Owed, Due
  <2> QED
        BY <1>8, <2>1, <2>2, <2>3, <2>4, <2>5, <2>6, <2>7, <2>8, <2>9, <2>10, <2>11, <2>12, <2>13 DEF Handler
<1>9. CASE UNCHANGED vars
      BY <1>9 DEF vars, memVars, diskVars, callVars, provVars, envVars, ControlOK,
         CallsOK, AccountsOK, Placement, Charging, Ahead, Coverage, Owed, Due
<1> QED
      BY <1>1, <1>2, <1>3, <1>4, <1>5, <1>6, <1>7, <1>8, <1>9 DEF Next

\* A handler that leaves its reservation behind opens the circuit first.
LEMMA OrphanStep ==
    ASSUME ControlOK, AccountsOK, Placement, OrphanHaltsTraffic, [Next]_vars
    PROVE  OrphanHaltsTraffic'
<1>1. CASE Boot
      BY <1>1, BudgetAssumption DEF Boot, memVars, diskVars, callVars, provVars,
         envVars, ControlOK, AccountsOK, Placement, OrphanHaltsTraffic
<1>2. CASE Crash
      BY <1>2, BudgetAssumption DEF Crash, Fault, memVars, diskVars, callVars,
         provVars, envVars, ControlOK, AccountsOK, Placement, OrphanHaltsTraffic
<1>3. CASE NextMonth
      BY <1>3, BudgetAssumption DEF NextMonth, memVars, diskVars, callVars,
         provVars, envVars, ControlOK, AccountsOK, Placement, OrphanHaltsTraffic
<1>4. CASE Reconcile
      BY <1>4, BudgetAssumption DEF Reconcile, memVars, diskVars, callVars,
         provVars, envVars, ControlOK, AccountsOK, Placement, OrphanHaltsTraffic
<1>5. CASE ReconcileState
      BY <1>5, BudgetAssumption DEF ReconcileState, memVars, diskVars, callVars,
         provVars, envVars, ControlOK, AccountsOK, Placement, OrphanHaltsTraffic
<1>6. CASE ReconcileAborts
      BY <1>6, BudgetAssumption DEF ReconcileAborts, Fault, memVars, diskVars,
         callVars, provVars, envVars, ControlOK, AccountsOK, Placement,
         OrphanHaltsTraffic
<1>7. CASE ResetAuth
      BY <1>7, BudgetAssumption DEF ResetAuth, memVars, diskVars, callVars,
         provVars, envVars, ControlOK, AccountsOK, Placement, OrphanHaltsTraffic
<1>8. ASSUME NEW r \in Requests, Handler(r) \/ ProviderAnswers(r)
      PROVE  OrphanHaltsTraffic'
  <2>1. CASE Arrive(r)
        BY <2>1, BudgetAssumption DEF Arrive, Goto, memVars, diskVars, callVars,
           provVars, envVars, ControlOK, AccountsOK, Placement, OrphanHaltsTraffic
  <2>2. CASE Reserve(r)
        BY <2>2, BudgetAssumption DEF Reserve, At, Goto, Fault, SaveState,
           SaveFails, memVars, diskVars, callVars, provVars, envVars, ControlOK,
           AccountsOK, Placement, OrphanHaltsTraffic
  <2>3. CASE Refuse(r)
        BY <2>3, BudgetAssumption DEF Refuse, At, Goto, memVars, diskVars, callVars,
           provVars, envVars, ControlOK, AccountsOK, Placement, OrphanHaltsTraffic
  <2>4. CASE RejectOversized(r)
        BY <2>4, BudgetAssumption DEF RejectOversized, At, Goto, memVars, diskVars,
           callVars, provVars, envVars, ControlOK, AccountsOK, Placement,
           OrphanHaltsTraffic
  <2>5. CASE RefusalOpens(r)
        BY <2>5, BudgetAssumption DEF RefusalOpens, At, Goto, Fault, SaveState,
           SaveFails, OpenCircuit, memVars, diskVars, callVars, provVars, envVars,
           ControlOK, AccountsOK, Placement, OrphanHaltsTraffic
  <2>6. CASE Post(r)
        BY <2>6, BudgetAssumption DEF Post, Goto, memVars, diskVars, callVars,
           provVars, envVars, ControlOK, AccountsOK, Placement, OrphanHaltsTraffic
  <2>7. CASE Denied(r)
        BY <2>7, BudgetAssumption DEF Denied, At, Goto, Fault, SaveState, SaveFails,
           OpenCircuit, memVars, diskVars, callVars, provVars, envVars, ControlOK,
           AccountsOK, Placement, OrphanHaltsTraffic
  <2>8. CASE Discard(r)
        BY <2>8, BudgetAssumption DEF Discard, At, Goto, Fault, SaveState,
           SaveFails, memVars, diskVars, callVars, provVars, envVars, ControlOK,
           AccountsOK, Placement, OrphanHaltsTraffic
  <2>9. CASE Record(r)
        BY <2>9, BudgetAssumption DEF Record, At, Goto, Fault, memVars, diskVars,
           callVars, provVars, envVars, ControlOK, AccountsOK, Placement,
           OrphanHaltsTraffic
  <2>10. CASE RecordState(r)
        BY <2>10, BudgetAssumption DEF RecordState, Goto, Fault, SaveState,
           SaveFails, memVars, diskVars, callVars, provVars, envVars, ControlOK,
           AccountsOK, Placement, OrphanHaltsTraffic
  <2>11. CASE Raise(r)
        BY <2>11, BudgetAssumption DEF Raise, Goto, memVars, diskVars, callVars,
           provVars, envVars, ControlOK, AccountsOK, Placement, OrphanHaltsTraffic
  <2>12. CASE Ambiguous(r)
        BY <2>12, BudgetAssumption DEF Ambiguous, At, Goto, Fault, SaveState,
           SaveFails, OpenCircuit, memVars, diskVars, callVars, provVars, envVars,
           ControlOK, AccountsOK, Placement, OrphanHaltsTraffic
  <2>13. CASE ProviderAnswers(r)
        BY <2>13, BudgetAssumption DEF ProviderAnswers, memVars, diskVars, callVars,
           provVars, envVars, ControlOK, AccountsOK, Placement, OrphanHaltsTraffic
  <2> QED
        BY <1>8, <2>1, <2>2, <2>3, <2>4, <2>5, <2>6, <2>7, <2>8, <2>9, <2>10, <2>11, <2>12, <2>13 DEF Handler
<1>9. CASE UNCHANGED vars
      BY <1>9 DEF vars, memVars, diskVars, callVars, provVars, envVars, ControlOK,
         AccountsOK, Placement, OrphanHaltsTraffic
<1> QED
      BY <1>1, <1>2, <1>3, <1>4, <1>5, <1>6, <1>7, <1>8, <1>9 DEF Next

\* The files exist and are empty, and no process runs.
LEMMA InitInv == Init => Inv
<1> SUFFICES ASSUME Init PROVE Inv
      OBVIOUS
<1>0. FaultsOK /\ month \in Months
      BY BudgetAssumption DEF Init, FaultsOK, Months
<1>1. ControlOK
      BY <1>0, BudgetAssumption DEF Init, ControlOK, Labels
<1>2. CallsOK
      BY DEF Init, CallsOK, Scopes, All
<1>3. AccountsOK /\ Ahead
      BY DEF Init, AccountsOK, Ahead
<1>4. CircuitOK
      BY DEF Init, CircuitOK, Reasons
<1>5. Placement /\ OrphanHaltsTraffic
      BY DEF Init, Placement, OrphanHaltsTraffic
<1>6. Charging /\ Coverage
      BY BudgetAssumption DEF Init, Charging, Coverage, Owed
<1> QED
      BY <1>0, <1>1, <1>2, <1>3, <1>4, <1>5, <1>6 DEF Inv, TypeOK

\* The inductive invariant: what is owed is covered on disk and in memory.
THEOREM Invariance == Spec => []Inv
<1>1. Inv /\ [Next]_vars => Inv'
      BY ControlStep, FaultsStep, CallsStep, AccountsStep, CircuitStep, PlacementStep,
         ChargingStep, AheadStep, CoverageStep, OrphanStep DEF Inv, TypeOK
<1> QED
      BY <1>1, InitInv, PTL DEF Spec

\* The proxy's memory and files are well-formed and no circuit is open without a reason.
THEOREM TypeCorrect == Spec => []TypeOK
<1>1. Inv => TypeOK
      BY DEF Inv
<1> QED
      BY <1>1, Invariance, PTL

\* What the provider charged is in ledger.json or reserved in state.json, for any number
\* of crashes, failed writes and aborted tool runs (a failed ledger write apart).
THEOREM NoChargeForgotten == Spec => []SpendAccounted
<1>1. Inv => SpendAccounted
      BY DEF Inv, TypeOK, CallsOK, Charging, Coverage, Owed, Due, SpendAccounted
<1> QED
      BY <1>1, Invariance, PTL

\* A reservation nobody will settle stops all further admissions.
THEOREM OrphansHalt == Spec => []OrphanHaltsTraffic
<1>1. Inv => OrphanHaltsTraffic
      BY DEF Inv
<1> QED
      BY <1>1, Invariance, PTL

\* No write of ledger.json, from memory or by a tool, loses a booked cost.
THEOREM LedgerMonotone == Spec => LedgerNeverShrinks
<1> DEFINE Grows == \A r \in Requests : dBooked'[r] >= dBooked[r]
<1>1. Inv /\ [Next]_vars => [\A r \in Requests : dBooked'[r] >= dBooked[r]]_vars
  <2> SUFFICES ASSUME Inv, [Next]_vars
               PROVE  Grows
        OBVIOUS
  <2>1. CASE Reconcile
        BY <2>1, BudgetAssumption DEF Inv, TypeOK, AccountsOK, Reconcile
  <2>2. ASSUME NEW r \in Requests, Record(r)
        PROVE  Grows
    <3>1. dBooked' = dBooked \/ dBooked' = booked'
          BY <2>2 DEF Record
    <3>2. up
          BY <2>2 DEF Record, At
    <3>3. PICK c \in {charge[r], Cost[r]} : booked' = [booked EXCEPT ![r] = @ + c]
          BY <2>2 DEF Record
    <3>4. c \in Nat
          BY <3>3, BudgetAssumption DEF Inv, TypeOK, CallsOK
    <3> QED
          BY <3>1, <3>2, <3>3, <3>4 DEF Inv, TypeOK, AccountsOK, Ahead
  <2>3. CASE dBooked' = dBooked
        BY <2>3 DEF Inv, TypeOK, AccountsOK
  <2>4. Reconcile \/ (\E r \in Requests : Record(r)) \/ dBooked' = dBooked
        BY DEF Next, Handler, vars, diskVars, Boot, Crash, NextMonth, ReconcileState,
           ReconcileAborts, ResetAuth, Arrive, Reserve, Refuse, RejectOversized, RefusalOpens,
           Post, Denied, Discard, RecordState, Raise, Ambiguous, ProviderAnswers
  <2> QED
        BY <2>1, <2>2, <2>3, <2>4
<1> QED
      BY <1>1, Invariance, PTL DEF Spec, LedgerNeverShrinks

-----------------------------------------------------------------------------
(***************************************************************************)
(* Sums over finite sets.  A fold is a recursive function on the subsets   *)
(* of its index set; that it exists and what it computes is shown by       *)
(* taking a smallest set for which the claim fails.                        *)
(***************************************************************************)

\* A non-empty collection of subsets of a finite set has a smallest member: the form
\* of induction the lemmas below use.
LEMMA MinimalSet ==
    ASSUME NEW S, IsFiniteSet(S), NEW B \in SUBSET SUBSET S, B # {}
    PROVE  \E T \in B : \A U \in B : U \subseteq T => U = T
<1>1. IsWellFoundedOn(StrictSubsetOrdering(S), FiniteSubsetsOf(S))
      BY FS_StrictSubsetOrderingWellFounded
<1>2. B \subseteq FiniteSubsetsOf(S)
      BY FS_Subset DEF FiniteSubsetsOf
<1>3. \E T \in B : \A U \in B : <<U, T>> \notin StrictSubsetOrdering(S)
      BY <1>1, <1>2, WFMin
<1> QED
      BY <1>3 DEF StrictSubsetOrdering

\* The element a fold takes next, and the function of subsets that it computes.
Pick(s) == CHOOSE x \in s : TRUE
IsSum(g, f, T) == g = [s \in SUBSET T |-> IF s = {} THEN 0 ELSE f[Pick(s)] + g[s \ {Pick(s)}]]
TheSum(f, T) == CHOOSE g : IsSum(g, f, T)

\* The library's fold, unfolded.
LEMMA SumDef ==
    ASSUME NEW f, NEW S
    PROVE  Sum(f, S) = TheSum(f, S)[S]
BY DEF Sum, SumFunctionOnSet, FoldFunctionOnSet, MapThenFoldSet, IsSum, Pick,
   TheSum

\* Two such functions agree where both are defined.
LEMMA SameSum ==
    ASSUME NEW f, NEW T, IsFiniteSet(T), NEW U,
           NEW g, IsSum(g, f, T), NEW h, IsSum(h, f, U)
    PROVE  \A s \in SUBSET (T \cap U) : g[s] = h[s]
<1> DEFINE B == {s \in SUBSET (T \cap U) : g[s] # h[s]}
<1> SUFFICES ASSUME B # {} PROVE FALSE
    OBVIOUS
<1>1. PICK s \in B : \A u \in B : u \subseteq s => u = s
  <2>1. B \in SUBSET SUBSET T
        OBVIOUS
  <2> HIDE DEF B
  <2> QED
        BY <2>1, MinimalSet
<1>2. ASSUME NEW u \in SUBSET (T \cap U)
      PROVE  /\ g[u] = IF u = {} THEN 0 ELSE f[Pick(u)] + g[u \ {Pick(u)}]
             /\ h[u] = IF u = {} THEN 0 ELSE f[Pick(u)] + h[u \ {Pick(u)}]
  <2>1. u \in SUBSET T /\ u \in SUBSET U
        OBVIOUS
  <2> QED
        BY <2>1 DEF IsSum
<1>3. s # {}
      BY <1>2
<1>4. Pick(s) \in s
      BY <1>3 DEF Pick
<1>5. s \ {Pick(s)} \in SUBSET (T \cap U) /\ s \ {Pick(s)} \notin B
      BY <1>1, <1>4
<1>6. g[s \ {Pick(s)}] = h[s \ {Pick(s)}]
      BY <1>5
<1> QED
      BY <1>2, <1>3, <1>6

\* There is one for every subset of a finite set.
LEMMA SumExists ==
    ASSUME NEW f, NEW S, IsFiniteSet(S)
    PROVE  \A T \in SUBSET S : IsSum(TheSum(f, T), f, T)
<1> DEFINE B == {T \in SUBSET S : ~ IsSum(TheSum(f, T), f, T)}
<1> SUFFICES ASSUME B # {} PROVE FALSE
    OBVIOUS
<1>1. PICK T \in B : \A U \in B : U \subseteq T => U = T
  <2>1. B \in SUBSET SUBSET S
        OBVIOUS
  <2> HIDE DEF B
  <2> QED
        BY <2>1, MinimalSet
<1> DEFINE Rest(s) == s \ {Pick(s)}
           g == [s \in SUBSET T |-> IF s = {} THEN 0
                                    ELSE f[Pick(s)] + TheSum(f, Rest(s))[Rest(s)]]
<1>2. ASSUME NEW s \in SUBSET T, s # {}
      PROVE  /\ Rest(s) \in SUBSET T
             /\ Pick(s) \in s
             /\ IsSum(TheSum(f, Rest(s)), f, Rest(s))
  <2>1. Pick(s) \in s
        BY <1>2 DEF Pick
  <2> QED
        BY <1>1, <2>1
<1>3. ASSUME NEW s \in SUBSET T, s # {}
      PROVE  TheSum(f, Rest(s))[Rest(s)] = g[Rest(s)]
  <2> DEFINE r == Rest(s)
  <2>1. r \in SUBSET T /\ r \in SUBSET r /\ IsSum(TheSum(f, r), f, r)
        BY <1>2, <1>3
  <2>2. TheSum(f, r)[r] = IF r = {} THEN 0 ELSE f[Pick(r)] + TheSum(f, r)[Rest(r)]
    <3> HIDE DEF r
    <3> QED  BY <2>1 DEF IsSum
  <2>3. ASSUME r # {} PROVE TheSum(f, r)[Rest(r)] = TheSum(f, Rest(r))[Rest(r)]
    <3>1. IsSum(TheSum(f, Rest(r)), f, Rest(r)) /\ Pick(r) \in r
          BY <1>2, <2>1, <2>3
    <3>2. IsFiniteSet(r) /\ Rest(r) \in SUBSET (r \cap Rest(r))
          BY <2>1, FS_Subset
    <3> HIDE DEF r, Rest
    <3> QED
          BY <2>1, <3>1, <3>2, SameSum
  <2> QED
    <3> HIDE DEF r
    <3>1. g[r] = IF r = {} THEN 0 ELSE f[Pick(r)] + TheSum(f, Rest(r))[Rest(r)]
          BY <2>1
    <3>2. TheSum(f, r)[r] = g[r]
          BY <2>2, <2>3, <3>1
    <3> QED
          BY <3>2 DEF r
<1>4. IsSum(g, f, T)
  <2>1. \A s \in SUBSET T : g[s] = IF s = {} THEN 0 ELSE f[Pick(s)] + g[Rest(s)]
    <3> TAKE s \in SUBSET T
    <3>1. g[s] = IF s = {} THEN 0 ELSE f[Pick(s)] + TheSum(f, Rest(s))[Rest(s)]
          OBVIOUS
    <3> HIDE DEF g, Rest
    <3> QED BY <3>1, <1>3
  <2>2. g = [s \in SUBSET T |-> g[s]]
        OBVIOUS
  <2> HIDE DEF g
  <2>3. g = [s \in SUBSET T |-> IF s = {} THEN 0 ELSE f[Pick(s)] + g[Rest(s)]]
        BY <2>1, <2>2
  <2> QED BY <2>3 DEF IsSum
<1>5. IsSum(TheSum(f, T), f, T)
  <2> HIDE DEF g
  <2> QED BY <1>4 DEF TheSum
<1> QED
      BY <1>1, <1>5

\* A sum is the picked element's value plus the sum of the rest.
LEMMA SumPick ==
    ASSUME NEW f, NEW S, IsFiniteSet(S)
    PROVE  Sum(f, S) = IF S = {} THEN 0 ELSE f[Pick(S)] + Sum(f, S \ {Pick(S)})
<1> DEFINE R == S \ {Pick(S)}
<1>1. Sum(f, S) = TheSum(f, S)[S] /\ Sum(f, R) = TheSum(f, R)[R]
      BY SumDef
<1>2. IsSum(TheSum(f, S), f, S) /\ IsSum(TheSum(f, R), f, R)
      BY SumExists
<1>3. TheSum(f, S)[S] = IF S = {} THEN 0 ELSE f[Pick(S)] + TheSum(f, S)[R]
      BY <1>2 DEF IsSum
<1>4. R \in SUBSET (S \cap R)
      OBVIOUS
<1>5. TheSum(f, S)[R] = TheSum(f, R)[R]
  <2> DEFINE g == TheSum(f, S)
             h == TheSum(f, R)
  <2>1. IsSum(g, f, S) /\ IsSum(h, f, R)
        BY <1>2
  <2> HIDE DEF R, g, h
  <2>2. \A s \in SUBSET (S \cap R) : g[s] = h[s]
        BY <2>1, SameSum
  <2>3. g[R] = h[R]
        BY <1>4, <2>2
  <2> QED
        BY <2>3 DEF g, h
<1> QED
      BY <1>1, <1>3, <1>5

\* A sum of natural numbers is one.
LEMMA SumNat ==
    ASSUME NEW S, IsFiniteSet(S), NEW f \in [S -> Nat]
    PROVE  \A T \in SUBSET S : Sum(f, T) \in Nat
<1> DEFINE B == {T \in SUBSET S : Sum(f, T) \notin Nat}
<1> SUFFICES ASSUME B # {} PROVE FALSE
    OBVIOUS
<1>1. PICK T \in B : \A U \in B : U \subseteq T => U = T
  <2>1. B \in SUBSET SUBSET S
        OBVIOUS
  <2> HIDE DEF B
  <2> QED
        BY <2>1, MinimalSet
<1>2. IsFiniteSet(T)
      BY FS_Subset
<1>3. T # {}
  <2>1. Sum(f, {}) = 0
        BY SumPick, FS_EmptySet
  <2> QED
        BY <2>1
<1>4. Pick(T) \in T
      BY <1>3 DEF Pick
<1>5. T \ {Pick(T)} \in SUBSET S /\ T \ {Pick(T)} \notin B
      BY <1>1, <1>4
<1>6. Sum(f, T) = f[Pick(T)] + Sum(f, T \ {Pick(T)})
      BY <1>2, <1>3, SumPick
<1> QED
      BY <1>4, <1>5, <1>6

\* The element that is split off may be any.
LEMMA SumRemove ==
    ASSUME NEW S, IsFiniteSet(S), NEW f \in [S -> Nat]
    PROVE  \A T \in SUBSET S : \A x \in T : Sum(f, T) = f[x] + Sum(f, T \ {x})
<1> DEFINE Fits(T) == \A x \in T : Sum(f, T) = f[x] + Sum(f, T \ {x})
           B == {T \in SUBSET S : ~ Fits(T)}
<1> SUFFICES ASSUME B # {} PROVE FALSE
    OBVIOUS
<1>1. PICK T \in B : \A U \in B : U \subseteq T => U = T
  <2>1. B \in SUBSET SUBSET S
        OBVIOUS
  <2> HIDE DEF B
  <2> QED
        BY <2>1, MinimalSet
<1>2. PICK x \in T : Sum(f, T) # f[x] + Sum(f, T \ {x})
      OBVIOUS
<1> DEFINE p == Pick(T)
<1>3. p \in T
      BY <1>2 DEF Pick
<1>4. IsFiniteSet(T) /\ IsFiniteSet(T \ {x})
      BY FS_Subset
<1>5. Sum(f, T) = f[p] + Sum(f, T \ {p})
      BY <1>2, <1>4, SumPick
<1>6. p # x
      BY <1>2, <1>5
<1>7. Sum(f, T \ {p}) = f[x] + Sum(f, (T \ {p}) \ {x})
  <2>1. T \ {p} \in SUBSET S /\ T \ {p} \notin B /\ x \in T \ {p}
        BY <1>1, <1>3, <1>6
  <2> HIDE DEF p
  <2>2. Fits(T \ {p})
        BY <2>1
  <2> QED
        BY <2>1, <2>2
<1>8. Sum(f, T \ {x}) = f[p] + Sum(f, (T \ {x}) \ {p})
  <2>1. T \ {x} \in SUBSET S /\ T \ {x} \notin B /\ p \in T \ {x}
        BY <1>1, <1>3, <1>6
  <2> HIDE DEF p
  <2>2. Fits(T \ {x})
        BY <2>1
  <2> QED
        BY <2>1, <2>2
<1>9. (T \ {x}) \ {p} = (T \ {p}) \ {x} /\ (T \ {x}) \ {p} \in SUBSET S
      OBVIOUS
<1>10. Sum(f, (T \ {x}) \ {p}) \in Nat
      BY <1>9, SumNat
<1>11. f[p] \in Nat /\ f[x] \in Nat
      BY <1>3
<1> HIDE DEF p
<1> QED
      BY <1>2, <1>5, <1>7, <1>8, <1>9, <1>10, <1>11

\* A sum is monotone in its terms and in its index set (a term that is left out
\* counts as zero).
LEMMA SumMono ==
    ASSUME NEW S, IsFiniteSet(S), NEW f \in [S -> Nat], NEW g \in [S -> Nat],
           \A x \in S : f[x] <= g[x]
    PROVE  \A T \in SUBSET S : Sum(f, T) <= Sum(g, T)
<1> DEFINE B == {T \in SUBSET S : ~ (Sum(f, T) <= Sum(g, T))}
<1> SUFFICES ASSUME B # {} PROVE FALSE
    OBVIOUS
<1>1. PICK T \in B : \A U \in B : U \subseteq T => U = T
  <2>1. B \in SUBSET SUBSET S
        OBVIOUS
  <2> HIDE DEF B
  <2> QED
        BY <2>1, MinimalSet
<1>2. IsFiniteSet(T)
      BY FS_Subset
<1>3. T # {}
  <2>1. Sum(f, {}) = 0 /\ Sum(g, {}) = 0
        BY SumPick, FS_EmptySet
  <2> QED
        BY <2>1
<1> DEFINE x == Pick(T)
<1>4. x \in T
      BY <1>3 DEF Pick
<1>5. T \ {x} \in SUBSET S /\ T \ {x} \notin B
      BY <1>1, <1>4
<1>6. Sum(f, T) = f[x] + Sum(f, T \ {x}) /\ Sum(g, T) = g[x] + Sum(g, T \ {x})
      BY <1>2, <1>3, SumPick
<1>7. Sum(f, T \ {x}) \in Nat /\ Sum(g, T \ {x}) \in Nat
      BY <1>5, SumNat
<1> HIDE DEF x
<1> QED
      BY <1>4, <1>5, <1>6, <1>7

\* The sum of two terms.
LEMMA SumAdd ==
    ASSUME NEW S, IsFiniteSet(S), NEW f \in [S -> Nat], NEW g \in [S -> Nat],
           NEW h \in [S -> Nat], \A x \in S : h[x] = f[x] + g[x]
    PROVE  \A T \in SUBSET S : Sum(h, T) = Sum(f, T) + Sum(g, T)
<1> DEFINE B == {T \in SUBSET S : Sum(h, T) # Sum(f, T) + Sum(g, T)}
<1> SUFFICES ASSUME B # {} PROVE FALSE
    OBVIOUS
<1>1. PICK T \in B : \A U \in B : U \subseteq T => U = T
  <2>1. B \in SUBSET SUBSET S
        OBVIOUS
  <2> HIDE DEF B
  <2> QED
        BY <2>1, MinimalSet
<1>2. IsFiniteSet(T)
      BY FS_Subset
<1>3. T # {}
  <2>1. Sum(f, {}) = 0 /\ Sum(g, {}) = 0 /\ Sum(h, {}) = 0
        BY SumPick, FS_EmptySet
  <2>2. Sum(h, T) # Sum(f, T) + Sum(g, T)
        OBVIOUS
  <2>3. Sum(f, {}) + Sum(g, {}) = 0
        BY <2>1
  <2> HIDE DEF B
  <2> QED
        BY <2>1, <2>2, <2>3
<1> DEFINE x == Pick(T)
<1>4. x \in T
      BY <1>3 DEF Pick
<1>5. T \ {x} \in SUBSET S /\ T \ {x} \notin B
      BY <1>1, <1>4
<1>6. /\ Sum(f, T) = f[x] + Sum(f, T \ {x})
      /\ Sum(g, T) = g[x] + Sum(g, T \ {x})
      /\ Sum(h, T) = h[x] + Sum(h, T \ {x})
      BY <1>2, <1>3, SumPick
<1>7. Sum(f, T \ {x}) \in Nat /\ Sum(g, T \ {x}) \in Nat
      BY <1>5, SumNat
<1>8. f[x] \in Nat /\ g[x] \in Nat /\ h[x] = f[x] + g[x]
      BY <1>4
<1> HIDE DEF x
<1> QED
      BY <1>5, <1>6, <1>7, <1>8

\* A sum over a part of S is the sum over S of the terms that are zero elsewhere.
LEMMA SumPart ==
    ASSUME NEW S, IsFiniteSet(S), NEW f \in [S -> Nat], NEW P \in SUBSET S,
           NEW h \in [S -> Nat], \A x \in S : h[x] = IF x \in P THEN f[x] ELSE 0
    PROVE  Sum(h, S) = Sum(f, P)
<1> DEFINE B == {T \in SUBSET S : Sum(h, T) # Sum(f, T \cap P)}
<1> SUFFICES ASSUME B # {} PROVE FALSE
  <2>1. S \cap P = P
        OBVIOUS
  <2> QED
        BY <2>1
<1>1. PICK T \in B : \A U \in B : U \subseteq T => U = T
  <2>1. B \in SUBSET SUBSET S
        OBVIOUS
  <2> HIDE DEF B
  <2> QED
        BY <2>1, MinimalSet
<1>2. IsFiniteSet(T)
      BY FS_Subset
<1>3. T # {}
  <2>1. Sum(f, {}) = 0 /\ Sum(h, {}) = 0
        BY SumPick, FS_EmptySet
  <2>2. {} \cap P = {}
        OBVIOUS
  <2> QED
        BY <2>1, <2>2
<1> DEFINE x == Pick(T)
<1>4. x \in T
      BY <1>3 DEF Pick
<1>5. Sum(h, T \ {x}) = Sum(f, (T \ {x}) \cap P)
      BY <1>1, <1>4
<1>6. Sum(h, T) = h[x] + Sum(h, T \ {x})
      BY <1>2, <1>3, SumPick
<1>7. (T \ {x}) \cap P \in SUBSET S
      OBVIOUS
<1>8. Sum(f, (T \ {x}) \cap P) \in Nat
      BY <1>7, SumNat
<1> HIDE DEF x
<1>9. CASE x \in P
  <2>1. T \cap P \in SUBSET S /\ x \in T \cap P /\ (T \cap P) \ {x} = (T \ {x}) \cap P
        BY <1>4, <1>9
  <2>2. Sum(f, T \cap P) = f[x] + Sum(f, (T \cap P) \ {x})
        BY <2>1, SumRemove
  <2> QED
        BY <1>4, <1>5, <1>6, <1>9, <2>1, <2>2
<1>10. CASE x \notin P
  <2>1. (T \ {x}) \cap P = T \cap P /\ h[x] = 0
        BY <1>4, <1>10
  <2>2. Sum(h, T) # Sum(f, T \cap P)
        OBVIOUS
  <2> HIDE DEF B
  <2> QED
        BY <1>5, <1>6, <1>8, <2>1, <2>2
<1> QED
      BY <1>9, <1>10

\* What a reservation adds to the guard of reserve covers what it adds to the
\* liabilities: P the calls of a scope, F those of them in flight.
LEMMA AdmissionBound ==
    ASSUME NEW S, IsFiniteSet(S), NEW b \in [S -> Nat], NEW c \in [S -> Nat],
           NEW P \in SUBSET S, NEW F \in SUBSET P, NEW r \in P, r \notin F,
           NEW l \in [S -> Nat],
           \A x \in S : l[x] <= (IF x \in P THEN b[x] ELSE 0)
                                 + (IF x \in F \cup {r} THEN c[x] ELSE 0)
    PROVE  Sum(l, S) <= Sum(b, P) + Sum(c, F) + c[r]
<1> DEFINE bp == [x \in S |-> IF x \in P THEN b[x] ELSE 0]
           cp == [x \in S |-> IF x \in F \cup {r} THEN c[x] ELSE 0]
           h == [x \in S |-> bp[x] + cp[x]]
<1>1. /\ bp \in [S -> Nat] /\ cp \in [S -> Nat] /\ h \in [S -> Nat]
      /\ \A x \in S : bp[x] = IF x \in P THEN b[x] ELSE 0
      /\ \A x \in S : cp[x] = IF x \in F \cup {r} THEN c[x] ELSE 0
      /\ \A x \in S : h[x] = bp[x] + cp[x]
      /\ \A x \in S : l[x] <= h[x]
      OBVIOUS
<1> HIDE DEF bp, cp, h
<1>2. Sum(bp, S) = Sum(b, P)
      BY <1>1, SumPart
<1>3. F \cup {r} \in SUBSET S /\ r \in F \cup {r} /\ (F \cup {r}) \ {r} = F
      OBVIOUS
<1>4. Sum(cp, S) = Sum(c, F \cup {r})
      BY <1>1, <1>3, SumPart
<1>5. Sum(c, F \cup {r}) = c[r] + Sum(c, F)
      BY <1>3, SumRemove
<1>6. S \in SUBSET S /\ F \in SUBSET S
      OBVIOUS
<1>7. Sum(h, S) = Sum(bp, S) + Sum(cp, S)
  <2>1. bp \in [S -> Nat] /\ cp \in [S -> Nat] /\ h \in [S -> Nat]
        BY <1>1
  <2>2. \A x \in S : h[x] = bp[x] + cp[x]
        BY <1>1
  <2> QED
        BY <1>6, <2>1, <2>2, SumAdd
<1>8. Sum(l, S) <= Sum(h, S)
      BY <1>1, <1>6, SumMono
<1>9. Sum(b, P) \in Nat /\ Sum(c, F) \in Nat /\ c[r] \in Nat /\ Sum(l, S) \in Nat
      BY <1>6, SumNat
<1> QED
      BY <1>2, <1>4, <1>5, <1>7, <1>8, <1>9

-----------------------------------------------------------------------------
(***************************************************************************)
(* The budget.  A call that may still be charged counts at its maximum, a  *)
(* settled one at its charge; the liabilities stay within every limit.     *)
(***************************************************************************)

Liable(r) ==
    IF r \in unsaved THEN 0
    ELSE IF pc[r] = "reserved" \/ prov[r] = "pending" THEN Cost[r]
    ELSE charge[r]

Liability == [r \in Requests |-> Liable(r)]

ScopeLiability(sc, p) ==
    [r \in Requests |-> IF scope[r] = sc /\ period[r] = p THEN Liable(r) ELSE 0]

Solvent ==
    /\ Sum(Liability, Requests) > 0 => InitialSpend + Sum(Liability, Requests) <= Limit
    /\ \A sc \in Scopes, p \in Months \cup {All} :
           Sum(ScopeLiability(sc, p), Requests) <= ScopeLimit[sc]

\* Liabilities are amounts.
LEMMA LiableType ==
    ASSUME Inv
    PROVE  /\ \A x \in Requests : Liable(x) \in Nat
           /\ Liability \in [Requests -> Nat]
           /\ \A sc, p : ScopeLiability(sc, p) \in [Requests -> Nat]
<1>1. \A x \in Requests : Liable(x) \in Nat
      BY BudgetAssumption DEF Inv, TypeOK, CallsOK, Liable
<1> QED
      BY <1>1 DEF Liability, ScopeLiability

LEMMA LiableTypeNext ==
    ASSUME Inv'
    PROVE  /\ \A x \in Requests : Liable(x)' \in Nat
           /\ Liability' \in [Requests -> Nat]
           /\ \A sc, p : ScopeLiability(sc, p)' \in [Requests -> Nat]
<1>1. \A x \in Requests : Liable(x)' \in Nat
      BY BudgetAssumption DEF Inv, TypeOK, CallsOK, Liable
<1> QED
      BY <1>1 DEF Liability, ScopeLiability

\* What memory holds covers every liability, so reserve's guards see all of them.
LEMMA LiableCovered ==
    ASSUME Inv, up
    PROVE  \A x \in Requests :
               Liable(x) <= booked[x] + (IF x \in flight THEN Cost[x] ELSE 0)
<1> SUFFICES ASSUME NEW x \in Requests, x \notin unsaved
             PROVE  Liable(x) <= booked[x] + (IF x \in flight THEN Cost[x] ELSE 0)
      BY BudgetAssumption DEF Inv, TypeOK, AccountsOK, Liable
<1>0. /\ booked[x] \in Nat /\ dBooked[x] \in Nat /\ Cost[x] \in Nat /\ charge[x] \in Nat
      /\ booked[x] >= dBooked[x] /\ charge[x] <= Cost[x]
      /\ prov[x] \in {"none", "pending", "paid", "denied", "failed"}
      BY BudgetAssumption DEF Inv, TypeOK, AccountsOK, CallsOK, Ahead, Charging
<1>1. CASE pc[x] = "reserved"
      BY <1>0, <1>1 DEF Inv, Placement, Liable
<1>2. CASE pc[x] # "reserved" /\ prov[x] \in {"pending", "paid"}
  <2>1. x \in flight \/ dBooked[x] >= Due(x)
        BY <1>2 DEF Inv, Coverage, Owed
  <2>2. Liable(x) = Due(x) /\ Liable(x) <= Cost[x] /\ Due(x) \in Nat
        BY <1>0, <1>2 DEF Liable, Due
  <2> QED
        BY <1>0, <2>1, <2>2
<1>3. CASE pc[x] # "reserved" /\ prov[x] \notin {"pending", "paid"}
      BY <1>0, <1>3 DEF Inv, Charging, Liable
<1> QED
      BY <1>1, <1>2, <1>3

\* No step but a reservation raises a liability, and a call with one keeps its scope
\* and period.
LiableSteady(x) ==
    /\ Liable(x)' <= Liable(x)
    /\ Liable(x)' # 0 => scope'[x] = scope[x] /\ period'[x] = period[x]

LEMMA LiableUnchanged ==
    ASSUME Inv, NEW x \in Requests,
           UNCHANGED <<prov, charge, scope, period>>, unsaved \subseteq unsaved',
           pc'[x] = "reserved" => pc[x] = "reserved"
    PROVE  LiableSteady(x)
<1>1. Cost[x] \in Nat /\ charge[x] \in Nat /\ charge[x] <= Cost[x] /\ charge'[x] = charge[x]
      BY BudgetAssumption DEF Inv, TypeOK, CallsOK, Charging
<1> QED
      BY <1>1 DEF LiableSteady, Liable

LEMMA LiableStep ==
    ASSUME Inv, [Next]_vars, NEW x \in Requests, ~ Reserve(x)
    PROVE  LiableSteady(x)
<1>0. /\ Cost[x] \in Nat /\ charge[x] \in Nat /\ charge[x] <= Cost[x]
      /\ prov[x] # "paid" => charge[x] = 0
      /\ pc \in [Requests -> Labels]
      BY BudgetAssumption DEF Inv, TypeOK, CallsOK, Charging, ControlOK
<1>1. ASSUME NEW r \in Requests, Arrive(r)
      PROVE  LiableSteady(x)
  <2>1. CASE x = r
    <3>1. prov[x] = "none" /\ charge[x] = 0
          BY <1>0, <1>1, <2>1 DEF Arrive, Inv, Charging, TypeOK, CallsOK
    <3>2. Liable(x)' = 0 /\ Liable(x) = 0
          BY <1>0, <1>1, <2>1, <3>1 DEF Arrive, Goto, provVars, Liable
    <3> QED
          BY <3>2 DEF LiableSteady
  <2>2. CASE x # r
    <3>1. pc'[x] = pc[x] /\ scope'[x] = scope[x] /\ period'[x] = period[x]
          BY <1>0, <1>1, <2>2 DEF Arrive, Goto, Inv, TypeOK, CallsOK
    <3>2. Liable(x)' = Liable(x) /\ Liable(x) \in Nat
          BY <1>0, <1>1, <3>1 DEF Arrive, provVars, Liable
    <3> QED
          BY <3>1, <3>2 DEF LiableSteady
  <2> QED
        BY <2>1, <2>2
<1>2. ASSUME NEW r \in Requests, Post(r)
      PROVE  LiableSteady(x)
  <2>1. scope' = scope /\ period' = period /\ charge' = charge /\ unsaved' = unsaved
        BY <1>2 DEF Post, callVars
  <2>2. CASE x = r
        BY <1>0, <1>2, <2>1, <2>2 DEF Post, Liable, LiableSteady
  <2>3. CASE x # r
    <3>1. pc'[x] = pc[x] /\ prov'[x] = prov[x]
          BY <1>0, <1>2, <2>3 DEF Post, Goto, Inv, TypeOK, CallsOK
    <3> QED
          BY <1>0, <2>1, <3>1 DEF Liable, LiableSteady
  <2> QED
        BY <2>2, <2>3
<1>3. ASSUME NEW r \in Requests, ProviderAnswers(r)
      PROVE  LiableSteady(x)
  <2>1. scope' = scope /\ period' = period /\ unsaved' = unsaved /\ pc' = pc
        BY <1>3 DEF ProviderAnswers, callVars
  <2>2. CASE x = r
    <3>1. Liable(x) = IF x \in unsaved THEN 0 ELSE Cost[x]
          BY <1>3, <2>2 DEF ProviderAnswers, Liable
    <3>2. charge'[x] \in 0 .. Cost[x]
          BY <1>0, <1>3, <2>2 DEF ProviderAnswers, Inv, TypeOK, CallsOK
    <3>3. Liable(x)' <= Liable(x)
          BY <1>0, <2>1, <3>1, <3>2 DEF Liable
    <3> QED
          BY <2>1, <3>3 DEF LiableSteady
  <2>3. CASE x # r
    <3>1. charge'[x] = charge[x] /\ prov'[x] = prov[x]
          BY <1>0, <1>3, <2>3 DEF ProviderAnswers, Inv, TypeOK, CallsOK
    <3> QED
          BY <1>0, <2>1, <3>1 DEF Liable, LiableSteady
  <2> QED
        BY <2>2, <2>3
<1>4. ASSUME NEW r \in Requests,
             \/ Reserve(r) \/ Refuse(r) \/ RejectOversized(r) \/ RefusalOpens(r) \/ Denied(r)
             \/ Discard(r) \/ Record(r) \/ RecordState(r) \/ Raise(r) \/ Ambiguous(r)
      PROVE  LiableSteady(x)
  <2>1. UNCHANGED <<prov, charge, scope, period>> /\ unsaved \subseteq unsaved'
        BY <1>4 DEF Reserve, Refuse, RejectOversized, RefusalOpens, Denied, Discard,
           Record, RecordState, Raise, Ambiguous, callVars, provVars
  <2>2. pc'[x] = "reserved" => pc[x] = "reserved"
    <3>1. CASE x # r
          BY <1>0, <1>4, <3>1 DEF Reserve, Refuse, RejectOversized, RefusalOpens, Denied,
             Discard, Record, RecordState, Raise, Ambiguous, Goto
    <3>2. CASE x = r
          BY <1>0, <1>4, <3>2 DEF Refuse, RejectOversized, RefusalOpens, Denied,
             Discard, Record, RecordState, Raise, Ambiguous, Goto
    <3> QED
          BY <3>1, <3>2
  <2> QED
        BY <2>1, <2>2, LiableUnchanged
<1>5. CASE Boot \/ Crash \/ NextMonth \/ Reconcile \/ ReconcileState \/ ReconcileAborts
           \/ ResetAuth \/ UNCHANGED vars
  <2>1. UNCHANGED <<prov, charge, scope, period, unsaved>>
        BY <1>5 DEF Boot, Crash, NextMonth, Reconcile, ReconcileState, ReconcileAborts,
           ResetAuth, vars, callVars, provVars
  <2>2. pc'[x] = "reserved" => pc[x] = "reserved"
        BY <1>5 DEF Boot, Crash, NextMonth, Reconcile, ReconcileState, ReconcileAborts,
           ResetAuth, vars
  <2> QED
        BY <2>1, <2>2, LiableUnchanged
<1> QED
      BY <1>1, <1>2, <1>3, <1>4, <1>5 DEF Next, Handler

\* A step that raises no liability raises no sum of them.
LEMMA SolventSteady ==
    ASSUME Inv, Inv', Solvent, \A x \in Requests : LiableSteady(x)
    PROVE  Solvent'
<1>0. IsFiniteSet(Requests)
      BY BudgetAssumption
<1>1. ASSUME NEW l \in [Requests -> Nat], NEW m \in [Requests -> Nat],
             \A x \in Requests : m[x] <= l[x]
      PROVE  /\ Sum(m, Requests) <= Sum(l, Requests)
             /\ Sum(m, Requests) \in Nat /\ Sum(l, Requests) \in Nat
  <2>1. \A T \in SUBSET Requests : Sum(m, T) <= Sum(l, T)
        BY <1>0, <1>1, SumMono
  <2>2. \A T \in SUBSET Requests : Sum(m, T) \in Nat
        BY <1>0, SumNat
  <2>3. \A T \in SUBSET Requests : Sum(l, T) \in Nat
        BY <1>0, SumNat
  <2> QED
        BY <2>1, <2>2, <2>3
<1>2. Sum(Liability', Requests) > 0 => InitialSpend + Sum(Liability', Requests) <= Limit
  <2> DEFINE l == Liability
             m == Liability'
  <2>1. l \in [Requests -> Nat] /\ m \in [Requests -> Nat]
        BY LiableType, LiableTypeNext
  <2>2. \A x \in Requests : m[x] <= l[x]
        BY DEF Liability, LiableSteady
  <2>3. Sum(l, Requests) > 0 => InitialSpend + Sum(l, Requests) <= Limit
        BY DEF Solvent
  <2> HIDE DEF l, m
  <2>4. Sum(m, Requests) > 0 => InitialSpend + Sum(m, Requests) <= Limit
        BY <1>1, <2>1, <2>2, <2>3, BudgetAssumption
  <2> QED
        BY <2>4 DEF m
<1>3. ASSUME NEW sc \in Scopes, NEW p \in Months \cup {All}
      PROVE  Sum(ScopeLiability(sc, p)', Requests) <= ScopeLimit[sc]
  <2> DEFINE l == ScopeLiability(sc, p)
             m == ScopeLiability(sc, p)'
  <2>1. l \in [Requests -> Nat] /\ m \in [Requests -> Nat]
        BY LiableType, LiableTypeNext
  <2>2. \A x \in Requests : Liable(x) \in Nat
        BY LiableType, LiableTypeNext
  <2>3. \A x \in Requests : m[x] <= l[x]
        BY <2>2 DEF ScopeLiability, LiableSteady
  <2>4. Sum(l, Requests) <= ScopeLimit[sc]
        BY <1>3 DEF Solvent
  <2> HIDE DEF l, m
  <2>5. Sum(m, Requests) <= ScopeLimit[sc]
        BY <1>1, <2>1, <2>3, <2>4, BudgetAssumption
  <2> QED
        BY <2>5 DEF m
<1> QED
      BY <1>2, <1>3 DEF Solvent

\* reserve's guards, evaluated with the lock held, admit only what every limit bears.
LEMMA SolventReserve ==
    ASSUME Inv, Inv', Solvent, NEW r \in Requests, Reserve(r),
           \A x \in Requests \ {r} : LiableSteady(x)
    PROVE  Solvent'
<1>0. /\ IsFiniteSet(Requests) /\ Cost \in [Requests -> Nat] /\ booked \in [Requests -> Nat]
      /\ flight \in SUBSET Requests /\ scope' = scope /\ period' = period
      BY BudgetAssumption DEF Inv, TypeOK, AccountsOK, Reserve, callVars
<1>1. /\ up /\ r \notin flight /\ Liable(r)' \in 0 .. Cost[r]
      /\ WithinProvider(r) /\ WithinScope(r)
  <2>1. up /\ pc[r] = "waiting" /\ WithinProvider(r) /\ WithinScope(r)
        BY DEF Reserve, At
  <2>2. r \notin flight /\ charge'[r] = 0
        BY <2>1 DEF Inv, Placement, Charging, Reserve, provVars
  <2> QED
        BY <1>0, <2>1, <2>2 DEF Liable
<1>2. \A x \in Requests : Liable(x)' \in Nat /\ Liable(x) \in Nat
      BY LiableType, LiableTypeNext
<1>3. \A x \in Requests :
          Liable(x)' <= booked[x] + (IF x \in flight \cup {r} THEN Cost[x] ELSE 0)
      BY <1>0, <1>1, <1>2, LiableCovered DEF LiableSteady
<1>4. InitialSpend + Sum(Liability', Requests) <= Limit
  <2> DEFINE m == Liability'
  <2>1. m \in [Requests -> Nat]
        BY LiableType, LiableTypeNext
  <2>2. \A x \in Requests : m[x] <= (IF x \in Requests THEN booked[x] ELSE 0)
                                     + (IF x \in flight \cup {r} THEN Cost[x] ELSE 0)
        BY <1>3 DEF Liability
  <2> HIDE DEF m
  <2>3. Sum(m, Requests) <= Sum(booked, Requests) + Sum(Cost, flight) + Cost[r]
        BY <1>0, <1>1, <2>1, <2>2, AdmissionBound
  <2>4. /\ Sum(m, Requests) \in Nat /\ Sum(booked, Requests) \in Nat
        /\ Sum(Cost, flight) \in Nat /\ Cost[r] \in Nat
        BY <1>0, <2>1, SumNat
  <2>5. InitialSpend + Sum(m, Requests) <= Limit
        BY <1>1, <2>3, <2>4, BudgetAssumption DEF WithinProvider
  <2> QED
        BY <2>5 DEF m
<1>5. ASSUME NEW sc \in Scopes, NEW p \in Months \cup {All}
      PROVE  Sum(ScopeLiability(sc, p)', Requests) <= ScopeLimit[sc]
  <2> DEFINE l == ScopeLiability(sc, p)
             m == ScopeLiability(sc, p)'
             P == Tagged(Requests, sc, p)
             F == Tagged(flight, sc, p)
  <2>1. l \in [Requests -> Nat] /\ m \in [Requests -> Nat]
        BY LiableType, LiableTypeNext
  <2>2. ScopeLimit[sc] \in Nat
        BY <1>5, BudgetAssumption
  <2>3. CASE sc = scope[r] /\ p = period[r]
    <3>1. P \in SUBSET Requests /\ F \in SUBSET P /\ r \in P /\ r \notin F
          BY <1>0, <1>1, <2>3 DEF Tagged
    <3>2. \A x \in Requests : m[x] <= (IF x \in P THEN booked[x] ELSE 0)
                                       + (IF x \in F \cup {r} THEN Cost[x] ELSE 0)
          BY <1>0, <1>2, <1>3, <2>3 DEF ScopeLiability, Tagged
    <3>3. Sum(booked, P) + Sum(Cost, F) + Cost[r] <= ScopeLimit[sc]
          BY <1>1, <2>3 DEF WithinScope
    <3> HIDE DEF m, P, F
    <3>4. Sum(m, Requests) <= Sum(booked, P) + Sum(Cost, F) + Cost[r]
          BY <1>0, <2>1, <3>1, <3>2, AdmissionBound
    <3>5. /\ Sum(m, Requests) \in Nat /\ Sum(booked, P) \in Nat
          /\ Sum(Cost, F) \in Nat /\ Cost[r] \in Nat
      <4>1. F \in SUBSET Requests
            BY <3>1
      <4> QED
            BY <1>0, <2>1, <3>1, <4>1, SumNat
    <3>6. Sum(m, Requests) <= ScopeLimit[sc]
          BY <2>2, <3>3, <3>4, <3>5
    <3> QED
          BY <3>6 DEF m
  <2>4. CASE ~ (sc = scope[r] /\ p = period[r])
    <3>1. \A x \in Requests : m[x] <= l[x]
          BY <1>0, <1>2, <2>4 DEF ScopeLiability, LiableSteady
    <3>2. Sum(l, Requests) <= ScopeLimit[sc]
          BY <1>5 DEF Solvent
    <3> HIDE DEF l, m
    <3>3. \A T \in SUBSET Requests : Sum(m, T) <= Sum(l, T)
          BY <1>0, <2>1, <3>1, SumMono
    <3>4. Sum(m, Requests) \in Nat /\ Sum(l, Requests) \in Nat
          BY <1>0, <2>1, SumNat
    <3>5. Sum(m, Requests) <= ScopeLimit[sc]
          BY <2>2, <3>2, <3>3, <3>4
    <3> QED
          BY <3>5 DEF m
  <2> QED
        BY <2>3, <2>4
<1> QED
      BY <1>4, <1>5 DEF Solvent

\* The budget's invariant holds of the empty files and every step keeps it.
LEMMA SolventInit == Init => Solvent
<1> SUFFICES ASSUME Init PROVE Solvent
      OBVIOUS
<1>0. IsFiniteSet(Requests)
      BY BudgetAssumption
<1>1. ASSUME NEW l \in [Requests -> Nat], \A x \in Requests : l[x] = 0
      PROVE  Sum(l, Requests) = 0
  <2>1. {} \in SUBSET Requests /\ \A x \in Requests : l[x] = IF x \in {} THEN l[x] ELSE 0
        BY <1>1
  <2>2. Sum(l, Requests) = Sum(l, {})
        BY <1>0, <2>1, SumPart
  <2> QED
        BY <2>2, SumPick, FS_EmptySet
<1>2. \A x \in Requests : Liable(x) = 0
      BY DEF Init, Liable
<1>3. Sum(Liability, Requests) = 0
  <2>1. Liability \in [Requests -> Nat] /\ \A x \in Requests : Liability[x] = 0
        BY <1>2 DEF Liability
  <2> QED
        BY <1>1, <2>1
<1>4. ASSUME NEW sc \in Scopes, NEW p \in Months \cup {All}
      PROVE  Sum(ScopeLiability(sc, p), Requests) <= ScopeLimit[sc]
  <2>1. /\ ScopeLiability(sc, p) \in [Requests -> Nat]
        /\ \A x \in Requests : ScopeLiability(sc, p)[x] = 0
        BY <1>2 DEF ScopeLiability
  <2>2. Sum(ScopeLiability(sc, p), Requests) = 0
        BY <1>1, <2>1
  <2> QED
        BY <1>4, <2>2, BudgetAssumption
<1> QED
      BY <1>3, <1>4 DEF Solvent

\* The liabilities stay within the provider limit and every scope's limit.
THEOREM Solvency == Spec => []Solvent
<1>1. Inv /\ Inv' /\ Solvent /\ [Next]_vars => Solvent'
  <2> SUFFICES ASSUME Inv, Inv', Solvent, [Next]_vars
               PROVE  Solvent'
        OBVIOUS
  <2>1. CASE \A x \in Requests : ~ Reserve(x)
    <3>1. \A x \in Requests : LiableSteady(x)
          BY <2>1, LiableStep
    <3> QED
          BY <3>1, SolventSteady
  <2>2. ASSUME NEW r \in Requests, Reserve(r)
        PROVE  Solvent'
    <3>1. ASSUME NEW x \in Requests \ {r}
          PROVE  LiableSteady(x)
      <4>1. pc'[x] = pc[x] /\ UNCHANGED <<prov, charge, scope, period>>
            /\ unsaved \subseteq unsaved'
            BY <2>2 DEF Reserve, Goto, Inv, TypeOK, ControlOK, callVars, provVars
      <4> QED
            BY <4>1, LiableUnchanged
    <3> QED
          BY <2>2, <3>1, SolventReserve
  <2> QED
        BY <2>1, <2>2
<1> QED
      BY <1>1, SolventInit, Invariance, PTL DEF Spec

\* The provider's real charges stay within the effective provider limit and, for every
\* scope and period, within the scope's limit: for any requests, prices and limits and
\* any number of restarts, month changes and faults (failed ledger writes apart).
THEOREM BudgetKept == Spec => []WithinBudget
<1>1. Inv /\ Solvent => WithinBudget
  <2> SUFFICES ASSUME Inv, Solvent PROVE WithinBudget
        OBVIOUS
  <2>0. IsFiniteSet(Requests) /\ charge \in [Requests -> Nat]
        BY BudgetAssumption DEF Inv, TypeOK, CallsOK
  <2>1. \A x \in Requests : x \notin unsaved => charge[x] <= Liable(x)
        BY <2>0, BudgetAssumption DEF Inv, Charging, Liable
  <2>2. ASSUME NEW P \in SUBSET Requests, NEW l \in [Requests -> Nat],
               \A x \in P : charge[x] <= l[x]
        PROVE  Sum(charge, P) <= Sum(l, Requests) /\ Sum(charge, P) \in Nat
               /\ Sum(l, Requests) \in Nat
    <3> DEFINE h == [x \in Requests |-> IF x \in P THEN charge[x] ELSE 0]
    <3>1. /\ h \in [Requests -> Nat]
          /\ \A x \in Requests : h[x] = IF x \in P THEN charge[x] ELSE 0
          /\ \A x \in Requests : h[x] <= l[x]
          BY <2>0, <2>2
    <3> HIDE DEF h
    <3>2. Sum(h, Requests) = Sum(charge, P)
          BY <2>0, <3>1, SumPart
    <3>3. \A T \in SUBSET Requests : Sum(h, T) <= Sum(l, T)
          BY <2>0, <3>1, SumMono
    <3>4. Sum(charge, P) \in Nat /\ Sum(l, Requests) \in Nat
          BY <2>0, SumNat
    <3> QED
          BY <3>2, <3>3, <3>4
  <2>3. Sum(charge, Requests \ unsaved) > 0
          => InitialSpend + Sum(charge, Requests \ unsaved) <= Limit
    <3>1. /\ Liability \in [Requests -> Nat]
          /\ \A x \in Requests \ unsaved : charge[x] <= Liability[x]
          BY <2>1, LiableType DEF Liability
    <3>2. /\ Sum(charge, Requests \ unsaved) <= Sum(Liability, Requests)
          /\ Sum(charge, Requests \ unsaved) \in Nat /\ Sum(Liability, Requests) \in Nat
          BY <2>2, <3>1
    <3> QED
          BY <3>2, BudgetAssumption DEF Solvent
  <2>4. ASSUME NEW r \in Requests
        PROVE  Sum(charge, Tagged(Requests \ unsaved, scope[r], period[r]))
                 <= ScopeLimit[scope[r]]
    <3> DEFINE P == Tagged(Requests \ unsaved, scope[r], period[r])
               l == ScopeLiability(scope[r], period[r])
    <3>1. scope[r] \in Scopes /\ period[r] \in Months \cup {All}
          BY DEF Inv, TypeOK, CallsOK
    <3>2. l \in [Requests -> Nat] /\ P \in SUBSET Requests
          BY LiableType DEF Tagged
    <3>3. \A x \in P : charge[x] <= l[x]
          BY <2>1 DEF Tagged, ScopeLiability
    <3>4. Sum(l, Requests) <= ScopeLimit[scope[r]] /\ ScopeLimit[scope[r]] \in Nat
          BY <3>1, BudgetAssumption DEF Solvent
    <3> HIDE DEF P, l
    <3>5. Sum(charge, P) <= Sum(l, Requests) /\ Sum(charge, P) \in Nat
          /\ Sum(l, Requests) \in Nat
          BY <2>2, <3>2, <3>3
    <3>6. Sum(charge, P) <= ScopeLimit[scope[r]]
          BY <3>4, <3>5
    <3> QED
          BY <3>6 DEF P
  <2> QED
        BY <2>3, <2>4 DEF WithinBudget
<1> QED
      BY <1>1, Invariance, Solvency, PTL
=============================================================================
