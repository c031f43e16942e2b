----------------------------- MODULE FuguRouter -----------------------------
(***************************************************************************)
(* The front door of the subscription pool: fugu_session_router.py and the *)
(* credit ledger it shares with LiteLLM's callback (fugu_credit.py).       *)
(*                                                                         *)
(* A request is handled by one coroutine.  Every helper it calls opens its *)
(* own autocommit connection, so the handlers of concurrent requests meet  *)
(* in the database between any two statements:                             *)
(*                                                                         *)
(*   read the sticky row -> rank the accounts -> (assign) -> send          *)
(*     -> book -> done | cool down and try the next account | fall over    *)
(*                     | content-policy fallback                           *)
(*                                                                         *)
(* A streamed answer is returned before it is booked: its ledger row is    *)
(* written when the stream ends.  LiteLLM's callback books the same call   *)
(* on its own, before or after the router, under the same or another id.   *)
(*                                                                         *)
(* Sessions and cooldowns are kept per public model; one model is shown.   *)
(* An account's short window is the current epoch and its long windows are *)
(* all epochs.  A call's usage is SQL NULL (None) when a writer's response *)
(* object has no usage, else a number, and zero is one: no two writers     *)
(* need find the same number for a call.  Rows of calls that were refused  *)
(* have status failure and an id of their own and enter no sum: the ledger *)
(* here holds the rows of the calls that were answered.                    *)
(***************************************************************************)
EXTENDS Naturals, FiniteSets, FiniteSetsExt

CONSTANTS Requests,      \* requests for a known model
          Sessions,      \* session keys
          SessionOf,     \* the key _session_key computes for a request
          Streamed,      \* the requests with "stream": true
          Accounts,      \* subscriptions seeded in fugu_accounts
          Priority,      \* fugu_accounts.priority
          Sub1,          \* the account used when the database offers none
          None,          \* SQL NULL: no account, usage unknown
          Usages,        \* the usage_units a call may have
          MaxEpoch,      \* bound on the short windows that pass
          MaxFaults      \* bound on failed statements, calls and restarts

ASSUME RouterAssumption ==
    /\ SessionOf \in [Requests -> Sessions]
    /\ Streamed \subseteq Requests
    /\ Sub1 \in Accounts /\ None \notin Accounts /\ None \notin Nat
    /\ Priority \in [Accounts -> Nat]
    /\ MaxEpoch \in Nat /\ MaxFaults \in Nat /\ Usages \subseteq Nat
    /\ IsFiniteSet(Requests)

VARIABLES
    row,        \* fugu_session_assignments: session -> account
    failovers,  \* its failover_count
    cooled,     \* accounts with cooldown_until > now()
    ledger,     \* fugu_credit_ledger: id -> row
    epoch,      \* the current short window
    pc,         \* what a handler does next
    left,       \* accounts the handler has still to try
    order,      \* their places in its ranking
    at,         \* the account it is trying
    tried,      \* accounts that refused it for a limit
    sent,       \* the window in which its answered call was sent
    reply,      \* the verdict on the last answer
    streams,    \* answers still being streamed
    calls,      \* successful calls LiteLLM's callback has not booked yet
    faults,
    \* history, read by the properties only
    seen,       \* the usable account a handler read from its session's row
    offered,    \* the accounts that were not cooling down when it ranked
    counted,    \* requests whose failover was counted
    known,      \* rows some writer reported a usage for
    unbooked    \* calls whose ledger write failed or died with the router

db == <<row, failovers, cooled, epoch>>
loop == <<left, order, at, tried>>
handler == <<loop, sent>>
books == <<ledger, known>>
history == <<seen, offered, counted>>
vars == <<db, books, pc, handler, reply, streams, calls, faults, history,
          unbooked>>

Session(r) == SessionOf[r]
Busy == {"candidates", "assign", "attempt", "book", "cooldown", "failover",
         "count", "fallback"}
Verdicts == {"none", "ok", "limit", "policy", "error", "raised"}

\* A call is a request at an account, or at the fallback model (None); its
\* row's id is the response's or LiteLLM's own.
Calls == Requests \X (Accounts \cup {None})
Ids == Calls \X {"response", "litellm"}
Units == Usages \cup {None}
NoRow == [status |-> "absent", units |-> None, start |-> 0]
Rows == [status : {"success", "failure"}, units : Units, start : 0 .. MaxEpoch]

-----------------------------------------------------------------------------
\* The tables init_schema creates.
Schema ==
    /\ row = [s \in Sessions |-> None]
    /\ failovers = [s \in Sessions |-> 0]
    /\ cooled = {}
    /\ ledger = [i \in Ids |-> NoRow]

Init ==
    /\ Schema
    /\ epoch = 0
    /\ pc = [r \in Requests |-> "idle"]
    /\ left = [r \in Requests |-> {}]
    /\ order = [r \in Requests |-> [a \in Accounts |-> 0]]
    /\ at = [r \in Requests |-> None]
    /\ tried = [r \in Requests |-> {}]
    /\ sent = [r \in Requests |-> 0]
    /\ reply = [r \in Requests |-> "none"]
    /\ streams = {}
    /\ calls = {}
    /\ faults = 0
    /\ seen = [r \in Requests |-> None]
    /\ offered = [r \in Requests |-> {}]
    /\ counted = {}
    /\ known = {}
    /\ unbooked = {}

Fault == faults < MaxFaults /\ faults' = faults + 1
Goto(r, l) == pc' = [pc EXCEPT ![r] = l]

-----------------------------------------------------------------------------
(* Choosing an account                                                     *)

Available == Accounts \ cooled

\* The usage summed for a over the successful calls sent since window w began.
Used(a, w) ==
    MapThenSumSet(LAMBDA i : ledger[i].units,
                  {i \in Ids : /\ i[1][2] = a /\ ledger[i].status = "success"
                              /\ ledger[i].units # None /\ ledger[i].start >= w})

\* The sort key: the 5h window, the longer ones, the priority.
Before(a, b) ==
    \/ Used(a, epoch) < Used(b, epoch)
    \/ /\ Used(a, epoch) = Used(b, epoch)
       /\ \/ Used(a, 0) < Used(b, 0)
          \/ Used(a, 0) = Used(b, 0) /\ Priority[a] < Priority[b]
Places(S) ==
    [a \in Accounts |-> IF a \in S THEN Cardinality({b \in S : Before(b, a)}) ELSE 0]
First(o, S) == {a \in S : \A b \in S : o[a] <= o[b]}

\* _assignment, first statement: the session's active row, if its account
\* is enabled and not cooling down.
Arrive(r) ==
    /\ pc[r] = "idle"
    /\ Goto(r, "candidates")
    /\ at' = [at EXCEPT ![r] =
                IF row[Session(r)] \in Available THEN row[Session(r)] ELSE None]
    /\ seen' = [seen EXCEPT ![r] = at'[r]]
    /\ UNCHANGED <<db, books, left, order, tried, sent, reply, streams, calls,
                   faults, offered, counted, unbooked>>

RankAnew(r) ==
    /\ pc[r] = "candidates" /\ Available # {}
    /\ offered' = [offered EXCEPT ![r] = Accounts \ cooled]
    /\ \E a \in First(Places(Available), Available) :
          /\ at' = [at EXCEPT ![r] = a]
          /\ left' = [left EXCEPT ![r] = Available \ {a}]
    /\ order' = [order EXCEPT ![r] = Places(left'[r])]
    /\ Goto(r, "assign")
    /\ UNCHANGED <<db, books, tried, sent, reply, streams, calls, faults, seen,
                   counted, unbooked>>

RankNoFallback(r) ==
    /\ pc[r] = "candidates" /\ Goto(r, "attempt")
    /\ offered' = [offered EXCEPT ![r] = Accounts \ cooled]
    /\ left' = [left EXCEPT ![r] = Available \ {at[r]}]
    /\ UNCHANGED <<db, books, at, order, tried, sent, reply, streams, calls,
                   faults, seen, counted, unbooked>>

\* _routing_candidates, and the three ways on from it.
Rank(r) ==
    /\ pc[r] = "candidates"
    /\ offered' = [offered EXCEPT ![r] = Accounts \ cooled]
    /\ \/ /\ at[r] # None                                \* sticky
          /\ left' = [left EXCEPT ![r] = Available \ {at[r]}]
          /\ Goto(r, "attempt") /\ UNCHANGED at
       \/ /\ at[r] = None /\ Available = {}              \* fallback-no-db-candidates
          /\ at' = [at EXCEPT ![r] = Sub1]
          /\ Goto(r, "attempt") /\ UNCHANGED left
       \/ /\ at[r] = None /\ Available # {}              \* new
          /\ \E a \in First(Places(Available), Available) :
                /\ at' = [at EXCEPT ![r] = a]
                /\ left' = [left EXCEPT ![r] = Available \ {a}]
          /\ Goto(r, "assign")
    /\ order' = [order EXCEPT ![r] = Places(left'[r])]
    /\ UNCHANGED <<db, books, tried, sent, reply, streams, calls, faults, seen,
                   counted, unbooked>>

\* _upsert_assignment: the conflicting row keeps its failover_count.
Upsert(r) ==
    /\ row' = [row EXCEPT ![Session(r)] = at[r]]
    /\ UNCHANGED failovers

\* The decision log _record_decision adds to is read by nobody.
Assign(r) ==
    /\ pc[r] = "assign" /\ Goto(r, "attempt") /\ Upsert(r)
    /\ UNCHANGED <<cooled, epoch, books, handler, reply, streams, calls,
                   faults, history, unbooked>>

-----------------------------------------------------------------------------
(* The attempt loop                                                        *)

\* What the body of an error says, as far as the router looks for it.
Texts == {"plain", "quota", "policy"}
Statuses == {200, 403, 404, 429, 451, 503}
LimitError(st, text) ==
    \/ st \in {402, 408, 409, 425, 429, 529}
    \/ st \in {400, 403, 500, 502, 503, 504} /\ text = "quota"
PolicyError(st, text) == st = 451 \/ text = "policy"
Verdict(st, text) ==
    IF st < 400 THEN "ok"
    ELSE IF PolicyError(st, text) THEN "policy"
    ELSE IF LimitError(st, text) THEN "limit" ELSE "error"
Answers == {Verdict(st, text) : st \in Statuses, text \in Texts}

\* Where the loop goes with verdict v; a call of the fallback model (a = None)
\* is the last one.
After(r, a, v) ==
    IF a = None THEN "done"
    ELSE CASE v = "ok" -> IF tried[r] = {} THEN "done" ELSE "failover"
           [] v = "policy" -> "fallback"
           [] v = "limit" -> "cooldown"
           [] OTHER -> "done"

\* A call of account a, from started_at to its answer: a stream is handed on
\* at once.
Answered(r, a, v) ==
    /\ reply' = [reply EXCEPT ![r] = v]
    /\ IF v = "ok"
         THEN /\ calls' = calls \cup {<<r, a>>}
              /\ sent' = [sent EXCEPT ![r] = epoch]
              /\ IF r \in Streamed
                   THEN streams' = streams \cup {<<r, a>>} /\ Goto(r, After(r, a, v))
                   ELSE UNCHANGED streams /\ Goto(r, "book")
         ELSE UNCHANGED <<calls, streams, sent>> /\ Goto(r, After(r, a, v))

Answer(r) ==
    /\ pc[r] = "attempt"
    /\ \E v \in Answers : Answered(r, at[r], v)
    /\ UNCHANGED <<db, books, loop, faults, history, unbooked>>

\* The call raises, or the decision log or the touch of the sticky row before
\* it: the handler ends with a 500 and nothing is booked.
CallRaises(r) ==
    /\ pc[r] \in {"attempt", "fallback"} /\ Fault
    /\ Goto(r, "done") /\ reply' = [reply EXCEPT ![r] = "raised"]
    /\ UNCHANGED <<db, books, handler, streams, calls, history, unbooked>>

MergeOverwrites(old, new) ==
    IF old = NoRow THEN new ELSE [new EXCEPT !.start = old.start]

\* write_ledger: insert, or update the row with this id.  The status is the
\* new event's, the start stays, and COALESCE keeps the old usage only when
\* the new one is NULL.
Merge(old, new) ==
    IF old = NoRow THEN new
    ELSE [new EXCEPT !.start = old.start,
                     !.units = IF @ = None THEN old.units ELSE @]

WriteLedger(c, id, status, units) ==
    /\ ledger' = [ledger EXCEPT ![<<c, id>>] =
          Merge(@, [status |-> status, units |-> units, start |-> sent[c[1]]])]
    /\ known' = IF units = None THEN known ELSE known \cup {<<c, id>>}

\* A write that raises is swallowed.
Swallow(c) ==
    /\ Fault /\ unbooked' = unbooked \cup {c} /\ UNCHANGED books

\* The router books the answer with the usage extract_usage finds in it.
BookCall(c) ==
    \/ /\ \E units \in Units : WriteLedger(c, "response", "success", units)
       /\ UNCHANGED <<faults, unbooked>>
    \/ Swallow(c)

Book(r) ==
    /\ pc[r] = "book" /\ Goto(r, After(r, at[r], "ok"))
    /\ BookCall(<<r, at[r]>>)
    /\ UNCHANGED <<db, handler, reply, streams, calls, history>>

\* _cooldown, and on to the next candidate or out of the loop.
Cooldown(r) ==
    /\ pc[r] = "cooldown"
    /\ cooled' = cooled \cup {at[r]}
    /\ tried' = [tried EXCEPT ![r] = @ \cup {at[r]}]
    /\ \/ /\ left[r] = {} /\ Goto(r, "done") /\ UNCHANGED <<left, at>>
       \/ /\ left[r] # {} /\ Goto(r, "attempt")
          /\ \E a \in First(order[r], left[r]) :
                /\ at' = [at EXCEPT ![r] = a]
                /\ left' = [left EXCEPT ![r] = @ \ {a}]
    /\ UNCHANGED <<row, failovers, epoch, books, order, sent, reply, streams,
                   calls, faults, history, unbooked>>

\* _mark_failover_assignment: two statements.
Failover(r) ==
    /\ pc[r] = "failover" /\ Goto(r, "count") /\ Upsert(r)
    /\ UNCHANGED <<cooled, epoch, books, handler, reply, streams, calls,
                   faults, history, unbooked>>

CountFailover(r) ==
    /\ pc[r] = "count" /\ Goto(r, "done")
    /\ failovers' = [failovers EXCEPT ![Session(r)] = @ + 1]
    /\ counted' = counted \cup {r}
    /\ UNCHANGED <<row, cooled, epoch, books, handler, reply, streams, calls,
                   faults, seen, offered, unbooked>>

FallbackRetries(r) ==
    /\ pc[r] = "fallback"
    /\ \/ /\ at' = [at EXCEPT ![r] = None] /\ Answered(r, None, "ok")
       \/ Goto(r, "attempt") /\ UNCHANGED <<reply, at, sent, streams, calls>>
    /\ UNCHANGED <<db, books, left, order, tried, faults, history, unbooked>>

\* _content_policy_fallback: one call of the fallback model, booked under no
\* account; off the chat path the refusal is returned at once.
Fallback(r) ==
    /\ pc[r] = "fallback"
    /\ at' = [at EXCEPT ![r] = None]
    /\ \/ Goto(r, "done") /\ UNCHANGED <<reply, sent, streams, calls>>
       \/ \E v \in {"ok", "policy"} : Answered(r, None, v)
    /\ UNCHANGED <<db, books, left, order, tried, faults, history, unbooked>>

\* _direct_model_proxy: a request for a direct model makes one call, booked
\* under no account.
Direct(r) ==
    /\ pc[r] = "idle"
    /\ \E v \in {"ok", "error"} : Answered(r, None, v)
    /\ UNCHANGED <<db, books, loop, faults, history, unbooked>>

\* A statement of the routing database fails: the handler ends with a 500.
DbFails(r) ==
    /\ pc[r] \in {"candidates", "assign", "cooldown", "failover", "count"}
    /\ Fault
    /\ Goto(r, "done") /\ reply' = [reply EXCEPT ![r] = "raised"]
    /\ UNCHANGED <<db, books, handler, streams, calls, history, unbooked>>

-----------------------------------------------------------------------------
(* What happens beside the handlers                                        *)

\* The finally of a stream's generator: the usage event may not have come.
StreamEnds(c) ==
    /\ c \in streams /\ streams' = streams \ {c}
    /\ BookCall(c)
    /\ UNCHANGED <<db, pc, handler, reply, calls, history>>

\* LiteLLM's callback books a call it made: its payload has the response's
\* id, or the call id LiteLLM gave it.  log_success_event reports a usage or
\* none; a stream that broke off may be reported by log_failure_event, which
\* knows none.  A write that raises is swallowed.
Telemetry(c) ==
    /\ c \in calls /\ calls' = calls \ {c}
    /\ \/ /\ \E id \in {"response", "litellm"} :
             \/ \E units \in Units : WriteLedger(c, id, "success", units)
             \/ c[1] \in Streamed /\ WriteLedger(c, id, "failure", None)
          /\ UNCHANGED faults
       \/ Fault /\ UNCHANGED books
    /\ UNCHANGED <<db, pc, handler, reply, streams, history, unbooked>>

CooldownExpires(a) ==
    /\ a \in cooled /\ cooled' = cooled \ {a}
    /\ UNCHANGED <<row, failovers, epoch, books, pc, handler, reply, streams,
                   calls, faults, history, unbooked>>

\* A short window ends: _window_start moves on.
NextWindow ==
    /\ epoch < MaxEpoch /\ epoch' = epoch + 1
    /\ UNCHANGED <<row, failovers, cooled, books, pc, handler, reply,
                   streams, calls, faults, history, unbooked>>

\* The router restarts: handlers and open streams are gone, the tables stay.
Restart ==
    /\ \E r \in Requests : pc[r] \in Busy
    /\ Fault
    /\ pc' = [r \in Requests |-> IF pc[r] \in Busy THEN "done" ELSE pc[r]]
    /\ reply' = [r \in Requests |-> IF pc[r] \in Busy THEN "raised" ELSE reply[r]]
    /\ streams' = {}
    /\ unbooked' = unbooked \cup streams
         \cup {<<r, at[r]>> : r \in {q \in Requests : pc[q] = "book"}}
    /\ UNCHANGED <<db, books, handler, calls, history>>

Step(r) == \/ Rank(r) \/ Assign(r) \/ Answer(r) \/ Book(r) \/ Cooldown(r)
           \/ Failover(r) \/ CountFailover(r) \/ Fallback(r)

Next ==
    \/ \E r \in Requests : \/ Arrive(r) \/ Direct(r) \/ Step(r)
                        \/ CallRaises(r) \/ DbFails(r)
    \/ \E c \in Calls : StreamEnds(c) \/ Telemetry(c)
    \/ \E a \in Accounts : CooldownExpires(a)
    \/ NextWindow
    \/ Restart

Spec == Init /\ [][Next]_vars

\* The event loop runs every ready coroutine, and calls have httpx timeouts.
LiveSpec == Spec /\ \A r \in Requests : WF_vars(Step(r))

-----------------------------------------------------------------------------
(* Properties                                                              *)

\* Tables, handlers and ledger are well-formed, and a handler that sends has
\* an account to send to: proxy never runs into an empty attempt list.
TypeOK ==
    /\ row \in [Sessions -> Accounts \cup {None}]
    /\ failovers \in [Sessions -> Nat]
    /\ cooled \subseteq Accounts
    /\ ledger \in [Ids -> Rows \cup {NoRow}]
    /\ epoch \in 0 .. MaxEpoch
    /\ pc \in [Requests -> Busy \cup {"idle", "done"}]
    /\ left \in [Requests -> SUBSET Accounts]
    /\ at \in [Requests -> Accounts \cup {None}]
    /\ tried \in [Requests -> SUBSET Accounts]
    /\ sent \in [Requests -> 0 .. MaxEpoch]
    /\ reply \in [Requests -> Verdicts]
    /\ streams \subseteq Calls
    /\ calls \subseteq Calls
    /\ \A r \in Requests :
          pc[r] \in {"assign", "attempt", "cooldown", "failover",
                    "count"} => at[r] \in Accounts

\* A request is sent only to accounts that were not cooling down when it read
\* its session or when it ranked the accounts, however long it takes; when
\* none was left at the ranking, the account of last resort is the exception.
CooledNotTried ==
    \A r \in Requests :
        /\ pc[r] = "attempt"
        /\ offered[r] # {}
        => at[r] \in offered[r] \cup {seen[r]}

\* A limit error reaches the client only when every account the ranking
\* offered has refused this very request.
LimitMeansAllRefused ==
    \A r \in Requests :
        pc[r] = "done" /\ reply[r] = "limit" => offered[r] \subseteq tried[r]

\* A request is tried at most once at an account: what it has still to try,
\* what it tries and what refused it stay apart until it ends.
NoAccountTwice ==
    \A r \in Requests :
        /\ left[r] \cap tried[r] = {}
        /\ pc[r] \in {"attempt", "book", "cooldown"} => at[r] \notin left[r] \cup tried[r]

\* No failover is lost or counted twice: failover_count is the number of the
\* session's requests that recorded one, whatever other requests upsert.
FailoversCounted ==
    \A s \in Sessions :
        failovers[s] = Cardinality({r \in counted : Session(r) = s})

\* A call that was answered, and whose booking neither failed nor died with
\* the router, has a row under its own account, streamed or not; and when one
\* of a row's writers knew its usage, the row has a usage, whichever writer
\* came last and whatever the other one knew (a stream cut short).
SuccessBooked ==
    /\ \A r \in Requests :
          LET c == <<r, at[r]>> IN
          /\ pc[r] = "done" /\ reply[r] = "ok"
          /\ c \notin streams \cup unbooked
          => ledger[<<c, "response">>] # NoRow
    /\ \A i \in known : ledger[i].units # None

\* A request that read its session's account as usable moves the session only
\* after that account refused it: no handler gives up a session on a ranking.
MovedForCause ==
    [][\A r \in Requests :
          /\ pc[r] \in {"assign", "failover"} /\ pc'[r] # "done"
          /\ seen[r] # None
          => seen[r] \in tried[r]]_vars

\* Every request comes to an end, the attempt loop with its candidates: no
\* handler stays busy for ever (requests are finitely many and arrive once).
EveryRequestEnds == []<>(\A r \in Requests : pc[r] \notin Busy)

\* What the provider's documentation says: the router keeps "a live Hermes
\* session on the same Sakana subscription unless that subscription hits a
\* limit".
SessionStays ==
    [][\A s \in Sessions :
          row[s] # None /\ row'[s] # row[s] =>
              \E r \in Requests : row[s] \in tried[r]]_vars

\* What the ranking would need to count an account's load: the usage booked
\* for a call does not fall again.  It may: COALESCE prefers a later number
\* that is smaller, zero included, to the one in the row.
UsageNeverFalls ==
    [][\A i \in known :
          ledger'[i].units \in Nat /\ ledger'[i].units >= ledger[i].units]_vars
=============================================================================
