-------------------------- MODULE FuguRouterProofs --------------------------
(***************************************************************************)
(* For any requests, sessions and accounts and any number of faults: the   *)
(* attempt loop of the router tries an account at most once, returns a     *)
(* limit only when every offered account refused, moves a session only for *)
(* cause, and loses neither a booking nor a known usage nor a failover.    *)
(***************************************************************************)
EXTENDS FuguRouter, FiniteSetTheorems, TLAPS

(* The history variables are well-formed.                                  *)
HistoryOK ==
    /\ seen \in [Requests -> Accounts \cup {None}]
    /\ offered \in [Requests -> SUBSET Accounts]
    /\ unbooked \subseteq Calls
    /\ faults \in Nat

(* What a handler has still to try, tries and has tried stay apart, and    *)
(* together they are what the ranking offered.                             *)
Candidates(r) ==
    /\ left[r] \cap tried[r] = {}
    /\ left[r] \subseteq offered[r]
    /\ pc[r] \in {"assign", "attempt", "book", "cooldown"} =>
          at[r] \notin left[r] \cup tried[r]
    /\ pc[r] \in {"idle", "candidates"} => left[r] = {} /\ tried[r] = {}
    /\ pc[r] \in {"assign", "attempt", "cooldown"} =>
          offered[r] \subseteq left[r] \cup tried[r] \cup {at[r]}

(* What the verdict on the last answer says at each step.                  *)
Replies(r) ==
    /\ pc[r] \in {"book", "failover", "count"} => reply[r] = "ok"
    /\ pc[r] = "fallback" => reply[r] = "policy"
    /\ pc[r] = "cooldown" => reply[r] = "limit"
    /\ pc[r] = "done" /\ reply[r] = "limit" => offered[r] \subseteq tried[r]

(* The account a handler works with, against what it read when it began.   *)
Sticky(r) ==
    /\ pc[r] = "idle" => at[r] = None /\ seen[r] = None
    /\ pc[r] = "candidates" => at[r] = seen[r]
    /\ pc[r] = "assign" => seen[r] = None /\ at[r] \in offered[r]
    /\ pc[r] \in {"attempt", "cooldown"} =>
          offered[r] = {} \/ at[r] \in offered[r] \/ at[r] = seen[r]
    /\ pc[r] \in {"attempt", "cooldown", "book", "failover"} /\ at[r] # None =>
          \/ seen[r] = None \/ seen[r] \in tried[r]
          \/ tried[r] = {} /\ at[r] = seen[r]
    /\ pc[r] = "failover" => tried[r] # {}

Handler(r) == Candidates(r) /\ Replies(r) /\ Sticky(r)

(* An answered call is being streamed, booked or known not to be.          *)
Booked(r) ==
    LET c == <<r, at[r]>> IN
    pc[r] \in {"failover", "count", "done"} /\ reply[r] = "ok" =>
        c \in streams \cup unbooked \/ ledger[<<c, "response">>] # NoRow

(* A row whose usage some writer knew has a usage.                         *)
UsageKnown == known \subseteq Ids /\ \A i \in known : ledger[i].units # None

(* Only a handler that has ended has counted its failover.                 *)
CountedEnded == counted \subseteq {r \in Requests : pc[r] = "done"}

Inv ==
    /\ TypeOK
    /\ HistoryOK
    /\ \A r \in Requests : Handler(r)
    /\ \A r \in Requests : Booked(r)
    /\ UsageKnown
    /\ CountedEnded
    /\ FailoversCounted

-----------------------------------------------------------------------------
(* The ledger: write_ledger never removes a row, nor makes a usage unknown. *)

LEMMA MergeFacts ==
    ASSUME NEW old \in Rows \cup {NoRow}, NEW new \in Rows
    PROVE  /\ Merge(old, new) \in Rows
           /\ Merge(old, new) # NoRow
           /\ old.units # None \/ new.units # None => Merge(old, new).units # None
<1>1. NoRow \notin Rows
  BY DEF NoRow, Rows
<1>2. CASE old = NoRow
  BY <1>1, <1>2 DEF Merge, NoRow
<1>3. CASE old \in Rows /\ old # NoRow
  <2> DEFINE u == IF new.units = None THEN old.units ELSE new.units
  <2>1. Merge(old, new) = [status |-> new.status, units |-> u, start |-> old.start]
    BY <1>3 DEF Merge, Rows
  <2>2. /\ new.status \in {"success", "failure"}
        /\ u \in Units /\ old.start \in 0 .. MaxEpoch
    BY <1>3 DEF Rows
  <2>3. Merge(old, new) \in Rows
    BY <2>1, <2>2 DEF Rows
  <2>4. Merge(old, new).units = u
    BY <2>1
  <2> QED
    BY <1>1, <2>3, <2>4
<1> QED
  BY <1>2, <1>3

(* A write of one row: what BookCall and Telemetry do to the books.        *)
Write == \E c \in Calls, id \in {"response", "litellm"},
            st \in {"success", "failure"}, u \in Units : WriteLedger(c, id, st, u)

LEMMA WriteFacts ==
    ASSUME TypeOK, UsageKnown, NEW c \in Calls,
           NEW id \in {"response", "litellm"}, NEW st \in {"success", "failure"}, NEW u \in Units,
           WriteLedger(c, id, st, u)
    PROVE  /\ ledger' \in [Ids -> Rows \cup {NoRow}]
           /\ ledger'[<<c, id>>] # NoRow
           /\ \A i \in Ids : ledger[i] # NoRow => ledger'[i] # NoRow
           /\ UsageKnown'
<1> DEFINE i0 == <<c, id>>
           new == [status |-> st, units |-> u, start |-> sent[c[1]]]
<1>1. i0 \in Ids /\ c[1] \in Requests
  BY DEF Ids, Calls
<1>2. ledger \in [Ids -> Rows \cup {NoRow}] /\ sent[c[1]] \in 0 .. MaxEpoch
  BY <1>1 DEF TypeOK
<1>3. new \in Rows /\ new.units = u
  BY <1>2 DEF Rows
<1>4. ledger[i0] \in Rows \cup {NoRow}
  BY <1>1, <1>2
<1>5. /\ ledger' = [ledger EXCEPT ![i0] = Merge(ledger[i0], new)]
      /\ known' = IF u = None THEN known ELSE known \cup {i0}
  BY DEF WriteLedger
<1>6. /\ Merge(ledger[i0], new) \in Rows
      /\ Merge(ledger[i0], new) # NoRow
      /\ ledger[i0].units # None \/ u # None => Merge(ledger[i0], new).units # None
  BY <1>3, <1>4, MergeFacts
<1> HIDE DEF new, i0
<1>7. /\ ledger' \in [Ids -> Rows \cup {NoRow}]
      /\ ledger'[i0] = Merge(ledger[i0], new)
      /\ \A i \in Ids : i # i0 => ledger'[i] = ledger[i]
  BY <1>1, <1>2, <1>5, <1>6
<1>8. known' \subseteq Ids
  BY <1>1, <1>5 DEF UsageKnown
<1>9. ASSUME NEW i \in known' PROVE ledger'[i].units # None
  <2>1. CASE i # i0
    BY <1>5, <1>7, <1>8, <1>9, <2>1 DEF UsageKnown
  <2>2. CASE i = i0
    BY <1>5, <1>6, <1>7, <1>9, <2>2 DEF UsageKnown
  <2> QED BY <2>1, <2>2
<1> QED
  BY <1>6, <1>7, <1>8, <1>9 DEF UsageKnown, i0

(* Every step of the books is a write or leaves them alone.                *)
LEMMA LedgerGrows ==
    ASSUME TypeOK, UsageKnown, Next
    PROVE  /\ ledger' \in [Ids -> Rows \cup {NoRow}]
           /\ \A i \in Ids : ledger[i] # NoRow => ledger'[i] # NoRow
           /\ UsageKnown'
<1>1. CASE UNCHANGED books
  BY <1>1 DEF TypeOK, UsageKnown, books
<1>2. ASSUME NEW c \in Calls, BookCall(c), ~UNCHANGED books
      PROVE  Write
  BY <1>2 DEF BookCall, Swallow, Write
<1>3. ASSUME NEW r \in Requests, Book(r), ~UNCHANGED books
      PROVE  Write
  <2>1. <<r, at[r]>> \in Calls
    BY DEF TypeOK, Calls
  <2> QED
    BY <1>2, <1>3, <2>1 DEF Book
<1>4. ASSUME NEW c \in Calls, Telemetry(c), ~UNCHANGED books
      PROVE  Write
  BY <1>4 DEF Telemetry, Write, Units
<1>5. ASSUME ~UNCHANGED books
      PROVE  Write
  <2>1. \/ \E r \in Requests : Book(r)
        \/ \E c \in Calls : StreamEnds(c) \/ Telemetry(c)
    BY <1>5 DEF Next, Step, Arrive, Direct, Rank, Assign, Answer, Cooldown,
       Failover, CountFailover, Fallback, CallRaises, DbFails,
       CooldownExpires, NextWindow, Restart
  <2> QED
    BY <1>2, <1>3, <1>4, <1>5, <2>1 DEF StreamEnds
<1> QED
  BY <1>1, <1>5, WriteFacts DEF Write

-----------------------------------------------------------------------------
(* One step of a handler keeps its own invariant ...                       *)

Local(r) == <<pc[r], left[r], at[r], tried[r], reply[r], seen[r], offered[r]>>

LEMMA HandlerFrame ==
    ASSUME NEW r \in Requests, Handler(r), UNCHANGED Local(r)
    PROVE  Handler(r)'
BY DEF Handler, Candidates, Replies, Sticky, Local

(* ... whether the answer is handed on, booked, or leads to the next step. *)
LEMMA AnsweredFacts ==
    ASSUME TypeOK, NEW r \in Requests, NEW a, NEW v \in Verdicts, Answered(r, a, v)
    PROVE  /\ reply' = [reply EXCEPT ![r] = v]
           /\ \E l \in {"done", "failover", "fallback", "cooldown", "book"} :
                /\ Goto(r, l)
                /\ l = "book" => v = "ok"
                /\ l # "book" => l = After(r, a, v)
           /\ v = "ok" => \/ pc'[r] = "book" \/ <<r, a>> \in streams'
           /\ calls' \subseteq calls \cup {<<r, a>>}
           /\ streams \subseteq streams' /\ streams' \subseteq streams \cup {<<r, a>>}
<1>1. After(r, a, v) \in {"done", "failover", "fallback", "cooldown"}
  BY DEF After
<1>2. CASE v = "ok" /\ r \notin Streamed
  BY <1>2 DEF Answered, TypeOK, Goto
<1>3. CASE ~(v = "ok" /\ r \notin Streamed)
  BY <1>1, <1>3 DEF Answered
<1> QED
  BY <1>2, <1>3

LEMMA HandlerStep ==
    ASSUME TypeOK, HistoryOK, NEW r \in Requests, Handler(r),
           \/ Arrive(r) \/ Direct(r) \/ Step(r) \/ CallRaises(r) \/ DbFails(r)
    PROVE  Handler(r)'
<1> USE DEF Handler
<1>t. /\ pc \in [Requests -> Busy \cup {"idle", "done"}]
      /\ left \in [Requests -> SUBSET Accounts]
      /\ at \in [Requests -> Accounts \cup {None}]
      /\ tried \in [Requests -> SUBSET Accounts]
      /\ reply \in [Requests -> Verdicts]
      /\ cooled \subseteq Accounts
      /\ row[Session(r)] \in Accounts \cup {None}
      /\ None \notin Accounts
      /\ pc[r] \in {"assign", "attempt", "cooldown", "failover", "count"} =>
            at[r] \in Accounts
      /\ seen \in [Requests -> Accounts \cup {None}]
      /\ offered \in [Requests -> SUBSET Accounts]
  BY RouterAssumption DEF TypeOK, HistoryOK, Session
<1>1. CASE Arrive(r)
  <2>1. /\ pc'[r] = "candidates" /\ left'[r] = {} /\ tried'[r] = {}
        /\ offered'[r] = offered[r] /\ reply'[r] = reply[r]
        /\ at'[r] = IF row[Session(r)] \in Available THEN row[Session(r)] ELSE None
        /\ seen'[r] = at'[r]
    BY <1>1, <1>t DEF Arrive, Goto, Candidates
  <2>3. Candidates(r)' /\ Replies(r)'
    BY <2>1 DEF Candidates, Replies
  <2>4. Sticky(r)'
    BY <2>1 DEF Sticky
  <2> QED
    BY <2>3, <2>4
<1>2. CASE Rank(r)
  <2>1. /\ tried'[r] = {} /\ left[r] = {} /\ seen'[r] = seen[r]
        /\ reply'[r] = reply[r] /\ offered'[r] = Available
    BY <1>2, <1>t DEF Rank, Candidates, Available
  <2>2. \/ /\ pc'[r] = "attempt" /\ at'[r] = at[r] /\ at[r] # None
           /\ left'[r] = Available \ {at[r]}
        \/ /\ pc'[r] = "attempt" /\ at[r] = None /\ Available = {}
           /\ left'[r] = {}
        \/ /\ pc'[r] = "assign" /\ at[r] = None
           /\ at'[r] \in Available /\ left'[r] = Available \ {at'[r]}
    BY <1>2, <1>t, <2>1 DEF Rank, Goto, First
  <2>3. pc[r] = "candidates"
    BY <1>2 DEF Rank
  <2>4. Candidates(r)' /\ Replies(r)'
    BY <2>1, <2>2 DEF Candidates, Replies
  <2>5. Sticky(r)'
    BY <1>t, <2>1, <2>2, <2>3 DEF Sticky
  <2> QED
    BY <2>4, <2>5
<1>3. CASE Assign(r)
  <2>1. /\ pc[r] = "assign" /\ pc'[r] = "attempt"
        /\ UNCHANGED <<left[r], at[r], tried[r], reply[r], seen[r], offered[r]>>
    BY <1>3, <1>t DEF Assign, Goto, handler, loop, history
  <2> QED
    BY <2>1 DEF Candidates, Replies, Sticky
<1>4. CASE Answer(r)
  <2>1. PICK v \in {"ok", "policy", "limit", "error"} : Answered(r, at[r], v)
    BY <1>4 DEF Answer, Answers, Verdict
  <2>2. /\ pc[r] = "attempt" /\ at[r] \in Accounts /\ reply'[r] = v
        /\ UNCHANGED <<left[r], at[r], tried[r], seen[r], offered[r]>>
    BY <1>4, <1>t, <2>1 DEF Answer, Answered, handler, loop, history
  <2>3. \/ pc'[r] = "book" /\ v = "ok"
        \/ pc'[r] = "done" /\ v \in {"ok", "error"}
        \/ pc'[r] = "failover" /\ v = "ok" /\ tried[r] # {}
        \/ pc'[r] = "fallback" /\ v = "policy"
        \/ pc'[r] = "cooldown" /\ v = "limit"
    BY <1>t, <2>1, <2>2 DEF Answered, After, Goto
  <2> QED
    BY <2>2, <2>3 DEF Candidates, Replies, Sticky
<1>5. CASE Book(r)
  <2>1. /\ pc[r] = "book"
        /\ UNCHANGED <<left[r], at[r], tried[r], reply[r], seen[r], offered[r]>>
    BY <1>5 DEF Book, handler, loop, history
  <2>2. \/ pc'[r] = "done"
        \/ pc'[r] = "failover" /\ at[r] # None /\ tried[r] # {}
    BY <1>5, <1>t DEF Book, After, Goto
  <2> QED
    BY <2>1, <2>2 DEF Candidates, Replies, Sticky
<1>6. CASE Cooldown(r)
  <2>1. /\ pc[r] = "cooldown" /\ tried'[r] = tried[r] \cup {at[r]}
        /\ UNCHANGED <<reply[r], seen[r], offered[r]>>
    BY <1>6, <1>t DEF Cooldown, history
  <2>2. \/ pc'[r] = "done" /\ left[r] = {} /\ left'[r] = {} /\ at'[r] = at[r]
        \/ /\ pc'[r] = "attempt" /\ at'[r] \in left[r]
           /\ left'[r] = left[r] \ {at'[r]}
    BY <1>6, <1>t DEF Cooldown, Goto, First
  <2>3. Candidates(r)'
    BY <2>1, <2>2 DEF Candidates
  <2>4. Replies(r)'
    BY <2>1, <2>2 DEF Candidates, Replies
  <2>5. Sticky(r)'
    BY <1>t, <2>1, <2>2 DEF Candidates, Sticky
  <2> QED
    BY <2>3, <2>4, <2>5
<1>7. CASE Failover(r) \/ CountFailover(r)
  <2>1. /\ pc[r] \in {"failover", "count"} /\ pc'[r] \in {"count", "done"}
        /\ UNCHANGED <<left[r], at[r], tried[r], reply[r], seen[r], offered[r]>>
    BY <1>7, <1>t DEF Failover, CountFailover, Goto, handler, loop, history
  <2> QED
    BY <2>1 DEF Candidates, Replies, Sticky
<1>8. CASE Fallback(r)
  <2>1. /\ pc[r] = "fallback" /\ at'[r] = None
        /\ UNCHANGED <<left[r], tried[r], seen[r], offered[r]>>
    BY <1>8, <1>t DEF Fallback, history
  <2>2. \/ pc'[r] = "done" /\ reply'[r] \in {"policy", "ok"}
        \/ pc'[r] = "book" /\ reply'[r] = "ok"
    <3>1. CASE Goto(r, "done") /\ UNCHANGED reply
      BY <1>t, <2>1, <3>1 DEF Goto, Replies
    <3>2. ASSUME NEW v \in {"ok", "policy"}, Answered(r, None, v)
          PROVE  /\ reply'[r] = v
                 /\ pc'[r] = "done" \/ (pc'[r] = "book" /\ v = "ok")
      BY <1>t, <3>2 DEF Answered, After, Goto
    <3> QED
      BY <1>8, <3>1, <3>2 DEF Fallback
  <2> QED
    BY <1>t, <2>1, <2>2 DEF Candidates, Replies, Sticky
<1>9. CASE Direct(r)
  <2>1. /\ pc[r] = "idle"
        /\ UNCHANGED <<left[r], at[r], tried[r], seen[r], offered[r]>>
    BY <1>9 DEF Direct, handler, loop, history
  <2>2. PICK v \in {"ok", "error"} : Answered(r, None, v)
    BY <1>9 DEF Direct
  <2>3. /\ reply'[r] = v
        /\ pc'[r] = "done" \/ (pc'[r] = "book" /\ v = "ok")
    BY <1>t, <2>2 DEF Answered, After, Goto
  <2> QED
    BY <1>t, <2>1, <2>3 DEF Candidates, Replies, Sticky
<1>10. CASE CallRaises(r) \/ DbFails(r)
  <2>1. /\ pc'[r] = "done" /\ reply'[r] = "raised"
        /\ UNCHANGED <<left[r], at[r], tried[r], seen[r], offered[r]>>
    BY <1>10, <1>t DEF CallRaises, DbFails, Goto, handler, loop, history
  <2> QED
    BY <2>1 DEF Candidates, Replies, Sticky
<1> QED
  BY <1>1, <1>2, <1>3, <1>4, <1>5, <1>6, <1>7, <1>8, <1>9, <1>10 DEF Step

(* ... and leaves the other handlers alone.                                *)
LEMMA OtherHandlers ==
    ASSUME TypeOK, HistoryOK, NEW r \in Requests, NEW q \in Requests, q # r,
           \/ Arrive(r) \/ Direct(r) \/ Step(r) \/ CallRaises(r) \/ DbFails(r)
    PROVE  UNCHANGED Local(q)
<1> USE DEF TypeOK, HistoryOK, Local, Goto, handler, loop, history
<1>1. CASE Arrive(r)
  BY <1>1 DEF Arrive
<1>2. CASE Rank(r)
  BY <1>2 DEF Rank
<1>3. CASE Assign(r)
  BY <1>3 DEF Assign
<1>4. CASE Answer(r)
  BY <1>4 DEF Answer, Answered
<1>5. CASE Book(r)
  BY <1>5 DEF Book
<1>6. CASE Cooldown(r)
  BY <1>6 DEF Cooldown
<1>7. CASE Failover(r) \/ CountFailover(r)
  BY <1>7 DEF Failover, CountFailover
<1>8. CASE Fallback(r)
  BY <1>8 DEF Fallback, Answered
<1>9. CASE Direct(r)
  BY <1>9 DEF Direct, Answered
<1>10. CASE CallRaises(r) \/ DbFails(r)
  BY <1>10 DEF CallRaises, DbFails
<1> QED
  BY <1>1, <1>2, <1>3, <1>4, <1>5, <1>6, <1>7, <1>8, <1>9, <1>10 DEF Step

(* The steps beside the handlers.                                          *)
Beside ==
    \/ \E c \in Calls : StreamEnds(c) \/ Telemetry(c)
    \/ \E a \in Accounts : CooldownExpires(a)
    \/ NextWindow

LEMMA BesideFacts ==
    ASSUME Beside
    PROVE  UNCHANGED <<pc, left, at, tried, sent, reply, seen, offered, counted,
                       failovers>>
BY DEF Beside, StreamEnds, Telemetry, CooldownExpires, NextWindow, db, handler, loop,
       history

LEMMA RestartHandler ==
    ASSUME TypeOK, NEW r \in Requests, Handler(r), Restart
    PROVE  Handler(r)'
<1>1. UNCHANGED <<left[r], at[r], tried[r], seen[r], offered[r]>>
  BY DEF Restart, handler, loop, history
<1>2. CASE pc[r] \in Busy
  <2>1. pc'[r] = "done" /\ reply'[r] = "raised"
    BY <1>2 DEF Restart
  <2> QED
    BY <1>1, <2>1 DEF Handler, Candidates, Replies, Sticky
<1>3. CASE pc[r] \notin Busy
  <2>1. pc'[r] = pc[r] /\ reply'[r] = reply[r]
    BY <1>3 DEF Restart
  <2> QED
    BY <1>1, <2>1, HandlerFrame DEF Local
<1> QED
  BY <1>2, <1>3

LEMMA HandlersKept ==
    ASSUME TypeOK, HistoryOK, \A r \in Requests : Handler(r), [Next]_vars
    PROVE  \A r \in Requests : Handler(r)'
<1> TAKE q \in Requests
<1>1. ASSUME NEW r \in Requests,
             \/ Arrive(r) \/ Direct(r) \/ Step(r) \/ CallRaises(r) \/ DbFails(r)
      PROVE  Handler(q)'
  BY <1>1, HandlerStep, OtherHandlers, HandlerFrame
<1>2. CASE Beside \/ UNCHANGED vars
  BY <1>2, BesideFacts, HandlerFrame DEF Local, vars, handler, loop, history
<1>3. CASE Restart
  BY <1>3, RestartHandler
<1> QED
  BY <1>1, <1>2, <1>3 DEF Next, Beside

-----------------------------------------------------------------------------
(* Types.                                                                  *)

(* An account in use is one of the pool's.                                 *)
InUse(r) ==
    pc[r] \in {"assign", "attempt", "cooldown", "failover", "count"} =>
        at[r] \in Accounts

LEMMA CallsFact ==
    ASSUME NEW r \in Requests, NEW a \in Accounts \cup {None}
    PROVE  <<r, a>> \in Calls
BY DEF Calls

LEMMA AnsweredTypes ==
    ASSUME TypeOK, NEW r \in Requests, NEW a \in Accounts \cup {None},
           NEW v \in {"ok", "policy", "limit", "error"}, Answered(r, a, v)
    PROVE  /\ pc' \in [Requests -> Busy \cup {"idle", "done"}]
           /\ reply' \in [Requests -> Verdicts]
           /\ sent' \in [Requests -> 0 .. MaxEpoch]
           /\ streams' \subseteq Calls
           /\ calls' \subseteq Calls
           /\ pc'[r] \in {"failover", "cooldown"} => a # None
<1>1. <<r, a>> \in Calls
  BY CallsFact
<1>2. After(r, a, v) \in {"done", "failover", "fallback", "cooldown"}
  BY DEF After
<1>3. v \in Verdicts
  BY DEF Verdicts
<1>4. /\ reply' \in [Requests -> Verdicts] /\ streams' \subseteq Calls
      /\ calls' \subseteq Calls /\ sent' \in [Requests -> 0 .. MaxEpoch]
  BY <1>1, <1>3 DEF Answered, TypeOK
<1>5. \/ Goto(r, "book") \/ Goto(r, After(r, a, v))
  BY DEF Answered
<1>6. pc' \in [Requests -> Busy \cup {"idle", "done"}]
  BY <1>2, <1>5 DEF Goto, Busy, TypeOK
<1>7. a = None => pc'[r] \notin {"failover", "cooldown"}
  BY <1>5 DEF Goto, TypeOK, After
<1> QED
  BY <1>4, <1>6, <1>7

LEMMA HandlerTypes ==
    ASSUME TypeOK, HistoryOK, NEW r \in Requests, Candidates(r),
           \/ Arrive(r) \/ Direct(r) \/ Step(r) \/ CallRaises(r) \/ DbFails(r)
    PROVE  /\ row' \in [Sessions -> Accounts \cup {None}]
           /\ failovers' \in [Sessions -> Nat]
           /\ cooled' \subseteq Accounts
           /\ epoch' \in 0 .. MaxEpoch
           /\ pc' \in [Requests -> Busy \cup {"idle", "done"}]
           /\ left' \in [Requests -> SUBSET Accounts]
           /\ at' \in [Requests -> Accounts \cup {None}]
           /\ tried' \in [Requests -> SUBSET Accounts]
           /\ reply' \in [Requests -> Verdicts]
           /\ sent' \in [Requests -> 0 .. MaxEpoch]
           /\ streams' \subseteq Calls
           /\ calls' \subseteq Calls
           /\ InUse(r)'
           /\ HistoryOK'
<1> USE DEF TypeOK, HistoryOK, InUse, Fault
<1>s. Session(r) \in Sessions /\ None \notin Accounts /\ Sub1 \in Accounts
  BY RouterAssumption DEF Session
<1>1. CASE Arrive(r)
  BY <1>1, <1>s DEF Arrive, Goto, Busy, db, Available, books
<1>2. CASE Rank(r)
  BY <1>2, <1>s DEF Rank, Goto, Busy, db, Available, First
<1>3. CASE Assign(r)
  BY <1>3, <1>s DEF Assign, Upsert, Goto, Busy, handler, loop, history
<1>4. CASE Answer(r)
  <2>1. PICK v \in {"ok", "policy", "limit", "error"} : Answered(r, at[r], v)
    BY <1>4 DEF Answer, Answers, Verdict
  <2>2. at[r] \in Accounts
    BY <1>4 DEF Answer
  <2>3. UNCHANGED <<db, loop, faults, history, unbooked>>
    BY <1>4 DEF Answer
  <2> QED
    BY <2>1, <2>2, <2>3, AnsweredTypes DEF db, handler, loop, history
<1>5. CASE Book(r)
  <2>1. pc'[r] = "failover" => at[r] \in Accounts
    BY <1>5 DEF Book, After, Goto
  <2>2. pc' \in [Requests -> Busy \cup {"idle", "done"}]
        /\ pc'[r] \in {"done", "failover"}
    BY <1>5 DEF Book, After, Goto, Busy
  <2>3. <<r, at[r]>> \in Calls
    BY CallsFact
  <2>4. unbooked' \subseteq Calls /\ faults' \in Nat
    BY <1>5, <2>3 DEF Book, BookCall, Swallow
  <2>5. UNCHANGED <<db, handler, reply, streams, calls, history>>
    BY <1>5 DEF Book
  <2> QED
    BY <2>1, <2>2, <2>4, <2>5 DEF db, handler, loop, history
<1>6. CASE Cooldown(r)
  <2>1. at[r] \in Accounts
    BY <1>6 DEF Cooldown
  <2>2. cooled' \subseteq Accounts /\ tried' \in [Requests -> SUBSET Accounts]
    BY <1>6, <2>1 DEF Cooldown
  <2>3. \/ Goto(r, "done") /\ UNCHANGED <<left, at>>
        \/ /\ Goto(r, "attempt")
           /\ \E a \in Accounts : /\ at' = [at EXCEPT ![r] = a]
                                 /\ left' = [left EXCEPT ![r] = left[r] \ {a}]
    BY <1>6 DEF Cooldown, First
  <2>4. /\ left' \in [Requests -> SUBSET Accounts]
        /\ at' \in [Requests -> Accounts \cup {None}]
        /\ at'[r] \in Accounts
    <3>1. CASE UNCHANGED <<left, at>>
      BY <2>1, <3>1
    <3>2. ASSUME NEW a \in Accounts, at' = [at EXCEPT ![r] = a],
                 left' = [left EXCEPT ![r] = left[r] \ {a}]
          PROVE  /\ left' \in [Requests -> SUBSET Accounts]
                 /\ at' \in [Requests -> Accounts \cup {None}]
                 /\ at'[r] \in Accounts
      BY <3>2
    <3> QED BY <2>3, <3>1, <3>2
  <2>5. pc' \in [Requests -> Busy \cup {"idle", "done"}]
    BY <2>3 DEF Goto, Busy
  <2>6. UNCHANGED <<row, failovers, epoch, reply, sent, streams, calls, faults,
                    history, unbooked>>
    BY <1>6 DEF Cooldown
  <2> QED
    BY <2>2, <2>4, <2>5, <2>6 DEF history
<1>7. CASE Failover(r)
  BY <1>7, <1>s DEF Failover, Upsert, Goto, Busy, handler, loop, history
<1>8. CASE CountFailover(r)
  BY <1>8, <1>s DEF CountFailover, Goto, Busy, handler, loop
<1>9. CASE Fallback(r)
  <2>1. at' \in [Requests -> Accounts \cup {None}] /\ at'[r] = None
    BY <1>9 DEF Fallback
  <2>2. UNCHANGED <<db, left, tried, faults, history, unbooked>>
    BY <1>9 DEF Fallback
  <2>3. CASE Goto(r, "done") /\ UNCHANGED <<reply, sent, streams, calls>>
    BY <2>1, <2>2, <2>3 DEF Goto, Busy, db, history
  <2>4. ASSUME NEW v \in {"ok", "policy"}, Answered(r, None, v)
        PROVE  /\ pc' \in [Requests -> Busy \cup {"idle", "done"}]
               /\ reply' \in [Requests -> Verdicts]
               /\ sent' \in [Requests -> 0 .. MaxEpoch]
               /\ streams' \subseteq Calls
               /\ calls' \subseteq Calls
               /\ pc'[r] \in {"done", "book"}
    BY <2>4, AnsweredTypes DEF Answered, After, Goto
  <2>5. CASE \E v \in {"ok", "policy"} : Answered(r, None, v)
    BY <2>1, <2>2, <2>4, <2>5 DEF db, history
  <2> QED
    BY <1>9, <2>3, <2>5 DEF Fallback
<1>10. CASE Direct(r)
  <2>1. UNCHANGED <<db, loop, faults, history, unbooked>>
    BY <1>10 DEF Direct
  <2>2. PICK v \in {"ok", "error"} : Answered(r, None, v)
    BY <1>10 DEF Direct
  <2>3. pc'[r] \in {"done", "book"}
    BY <2>2 DEF Answered, After, Goto
  <2> QED
    BY <2>1, <2>2, <2>3, AnsweredTypes DEF db, handler, loop, history
<1>11. CASE CallRaises(r) \/ DbFails(r)
  <2>1. /\ Goto(r, "done") /\ reply' = [reply EXCEPT ![r] = "raised"] /\ Fault
        /\ UNCHANGED <<db, handler, streams, calls, history, unbooked>>
    BY <1>11 DEF CallRaises, DbFails
  <2>2. /\ pc' \in [Requests -> Busy \cup {"idle", "done"}] /\ pc'[r] = "done"
        /\ reply' \in [Requests -> Verdicts]
    BY <2>1 DEF Goto, Busy, Verdicts
  <2> QED
    BY <2>1, <2>2 DEF db, handler, loop, history
<1> QED
  BY <1>1, <1>2, <1>3, <1>4, <1>5, <1>6, <1>7, <1>8, <1>9, <1>10, <1>11
     DEF Step

(* The part of the types that the steps beside the handlers can change.    *)
SharedTypes ==
    /\ row \in [Sessions -> Accounts \cup {None}]
    /\ cooled \subseteq Accounts
    /\ epoch \in 0 .. MaxEpoch
    /\ streams \subseteq Calls
    /\ calls \subseteq Calls
    /\ unbooked \subseteq Calls
    /\ faults \in Nat

LEMMA BesideTypes ==
    ASSUME TypeOK, HistoryOK, Beside
    PROVE  SharedTypes'
<1> USE RouterAssumption DEF TypeOK, HistoryOK, SharedTypes, db, Fault,
           BookCall, Swallow
<1>1. ASSUME NEW c \in Calls, StreamEnds(c) PROVE SharedTypes'
  BY <1>1 DEF StreamEnds
<1>2. ASSUME NEW c \in Calls, Telemetry(c) PROVE SharedTypes'
  BY <1>2 DEF Telemetry
<1>3. ASSUME NEW a \in Accounts, CooldownExpires(a) PROVE SharedTypes'
  BY <1>3 DEF CooldownExpires
<1>4. CASE NextWindow
  BY <1>4 DEF NextWindow
<1> QED
  BY <1>1, <1>2, <1>3, <1>4 DEF Beside

LEMMA RestartTypes ==
    ASSUME TypeOK, HistoryOK, Restart
    PROVE  TypeOK' /\ HistoryOK'
<1>1. pc' \in [Requests -> Busy \cup {"idle", "done"}]
  BY DEF Restart, TypeOK
<1>2. reply' \in [Requests -> Verdicts]
  BY DEF Restart, TypeOK, Verdicts
<1>3. unbooked' \subseteq Calls
  <2>1. \A r \in Requests : <<r, at[r]>> \in Calls
    BY CallsFact DEF TypeOK
  <2> QED
    BY <2>1 DEF Restart, TypeOK, HistoryOK
<1>4. \A r \in Requests : pc'[r] \in {"done", "idle"}
  BY DEF Restart, TypeOK
<1>5. UNCHANGED <<db, books, handler, calls, history>> /\ streams' = {}
      /\ faults' \in Nat
  BY DEF Restart, Fault, HistoryOK
<1> QED
  BY <1>1, <1>2, <1>3, <1>4, <1>5 DEF TypeOK, HistoryOK, db, books, handler, loop,
     history

LEMMA TypesKept ==
    ASSUME TypeOK, HistoryOK, UsageKnown, \A r \in Requests : Handler(r), [Next]_vars
    PROVE  TypeOK' /\ HistoryOK' /\ UsageKnown'
<1>1. ASSUME NEW r \in Requests, Next,
             \/ Arrive(r) \/ Direct(r) \/ Step(r) \/ CallRaises(r) \/ DbFails(r)
      PROVE  TypeOK' /\ HistoryOK' /\ UsageKnown'
  <2>1. Candidates(r)
    BY DEF Handler
  <2>2. \A q \in Requests : q # r => UNCHANGED <<pc[q], at[q]>>
    BY <1>1, OtherHandlers DEF Local
  <2>3. \A q \in Requests : InUse(q)
    BY DEF TypeOK, InUse
  <2>4. InUse(r)'
    BY <1>1, <2>1, HandlerTypes
  <2>5. \A q \in Requests : InUse(q)'
    BY <2>2, <2>3, <2>4 DEF InUse
  <2>6. ledger' \in [Ids -> Rows \cup {NoRow}] /\ UsageKnown'
    BY <1>1, LedgerGrows
  <2> QED
    BY <1>1, <2>1, <2>5, <2>6, HandlerTypes DEF TypeOK, InUse
<1>2. CASE Beside
  <2>1. ledger' \in [Ids -> Rows \cup {NoRow}] /\ UsageKnown'
    BY <1>2, LedgerGrows DEF Beside, Next
  <2>2. SharedTypes'
    BY <1>2, BesideTypes
  <2> QED
    BY <1>2, <2>1, <2>2, BesideFacts DEF TypeOK, HistoryOK, SharedTypes
<1>3. CASE Restart
  BY <1>3, RestartTypes, LedgerGrows DEF Next
<1>4. CASE UNCHANGED vars
  BY <1>4 DEF vars, db, books, handler, loop, history, TypeOK, HistoryOK, UsageKnown
<1> QED
  BY <1>1, <1>2, <1>3, <1>4 DEF Next, Beside

-----------------------------------------------------------------------------
(* Bookings.                                                               *)

(* A call that is streamed, booked or known not to be stays so.            *)
Settled(c) == c \in streams \cup unbooked \/ ledger[<<c, "response">>] # NoRow

LEMMA SettledKept ==
    ASSUME TypeOK, UsageKnown, NEW c \in Calls, Settled(c), Next
    PROVE  Settled(c)'
<1>1. <<c, "response">> \in Ids
  BY DEF Ids
<1>2. ledger[<<c, "response">>] # NoRow => ledger'[<<c, "response">>] # NoRow
  BY <1>1, LedgerGrows
<1>3. CASE streams \subseteq streams' /\ unbooked \subseteq unbooked'
  BY <1>2, <1>3 DEF Settled
<1>4. ASSUME NEW d \in Calls, StreamEnds(d) PROVE Settled(c)'
  <2>1. CASE c # d
    BY <1>2, <1>4, <2>1 DEF StreamEnds, BookCall, Swallow, Settled
  <2>2. CASE c = d
    <3>1. CASE \E u \in Units : WriteLedger(d, "response", "success", u)
      BY <2>2, <3>1, WriteFacts DEF Settled
    <3>2. CASE Swallow(d)
      BY <2>2, <3>2 DEF Swallow, Settled
    <3> QED
      BY <1>4, <3>1, <3>2 DEF StreamEnds, BookCall
  <2> QED
    BY <2>1, <2>2
<1>5. CASE Restart
  BY <1>2, <1>5 DEF Restart, Settled
<1>6. ASSUME NEW r \in Requests,
             \/ Arrive(r) \/ Direct(r) \/ Step(r) \/ CallRaises(r) \/ DbFails(r)
      PROVE  streams \subseteq streams' /\ unbooked \subseteq unbooked'
  BY <1>6 DEF Step, Arrive, Direct, Rank, Assign, Answer, Answered, Book, BookCall,
     Swallow,     Cooldown, Failover, CountFailover, Fallback, CallRaises, DbFails
<1>7. CASE \/ \E d \in Calls : Telemetry(d)
           \/ \E a \in Accounts : CooldownExpires(a)
           \/ NextWindow
  <2>1. streams \subseteq streams' /\ unbooked \subseteq unbooked'
    BY <1>7 DEF Telemetry, CooldownExpires, NextWindow
  <2> QED
    BY <1>3, <2>1
<1> QED
  BY <1>3, <1>4, <1>5, <1>6, <1>7 DEF Next

LEMMA BookedStep ==
    ASSUME TypeOK, UsageKnown, NEW r \in Requests, Handler(r), Booked(r), Next,
           \/ Arrive(r) \/ Direct(r) \/ Step(r) \/ CallRaises(r) \/ DbFails(r)
    PROVE  Booked(r)'
<1>t. pc \in [Requests -> Busy \cup {"idle", "done"}]
      /\ at \in [Requests -> Accounts \cup {None}]
      /\ reply \in [Requests -> Verdicts]
  BY DEF TypeOK
<1>c. <<r, at[r]>> \in Calls
  BY <1>t, CallsFact
<1>1. CASE Arrive(r) \/ Rank(r) \/ Assign(r)
  <2>1. pc'[r] \in {"candidates", "attempt", "assign"}
    BY <1>1, <1>t DEF Arrive, Rank, Assign, Goto
  <2> QED
    BY <2>1 DEF Booked
<1>2. CASE Answer(r)
  <2>1. PICK v \in {"ok", "policy", "limit", "error"} : Answered(r, at[r], v)
    BY <1>2 DEF Answer, Answers, Verdict
  <2>2. reply'[r] = v /\ at' = at
    BY <1>2, <1>t, <2>1 DEF Answer, Answered, handler, loop
  <2>3. v = "ok" => pc'[r] = "book" \/ <<r, at[r]>> \in streams'
    BY <1>t, <2>1 DEF Answered, Goto
  <2> QED
    BY <2>2, <2>3 DEF Booked
<1>3. CASE Book(r)
  <2>1. <<r, at[r]>> \in unbooked' \/ ledger'[<<<<r, at[r]>>, "response">>] # NoRow
    <3>1. CASE \E u \in Units : WriteLedger(<<r, at[r]>>, "response", "success", u)
      BY <1>c, <3>1, WriteFacts
    <3>2. CASE Swallow(<<r, at[r]>>)
      BY <3>2 DEF Swallow
    <3> QED
      BY <1>3, <3>1, <3>2 DEF Book, BookCall
  <2>2. at' = at
    BY <1>3 DEF Book, handler, loop
  <2> QED
    BY <2>1, <2>2 DEF Booked
<1>4. CASE Failover(r) \/ CountFailover(r)
  <2>1. pc[r] \in {"failover", "count"} /\ at' = at /\ reply' = reply
    BY <1>4 DEF Failover, CountFailover, handler, loop
  <2>2. reply[r] = "ok" => Settled(<<r, at[r]>>)
    BY <2>1 DEF Booked, Settled
  <2>3. reply[r] = "ok" => Settled(<<r, at[r]>>)'
    BY <1>c, <2>1, <2>2, SettledKept DEF Settled
  <2> QED
    BY <2>1, <2>3 DEF Booked, Settled
<1>5. CASE Cooldown(r)
  <2>1. reply'[r] = "limit"
    BY <1>5 DEF Cooldown, Handler, Replies
  <2> QED
    BY <2>1 DEF Booked
<1>6. CASE Fallback(r)
  <2>1. at'[r] = None /\ pc[r] = "fallback"
    BY <1>6, <1>t DEF Fallback
  <2>2. CASE UNCHANGED reply
    BY <2>1, <2>2 DEF Booked, Handler, Replies
  <2>3. ASSUME NEW v \in {"ok", "policy"}, Answered(r, None, v) PROVE Booked(r)'
    <3>1. reply'[r] = v /\ (v = "ok" => pc'[r] = "book" \/ <<r, None>> \in streams')
      BY <1>t, <2>3 DEF Answered, Goto
    <3> QED
      BY <2>1, <3>1 DEF Booked
  <2> QED
    BY <1>6, <2>2, <2>3 DEF Fallback
<1>7. CASE Direct(r)
  <2>1. at'[r] = None
    BY <1>7 DEF Direct, handler, loop, Handler, Sticky
  <2>2. PICK v \in {"ok", "error"} : Answered(r, None, v)
    BY <1>7 DEF Direct
  <2>3. reply'[r] = v /\ (v = "ok" => pc'[r] = "book" \/ <<r, None>> \in streams')
    BY <1>t, <2>2 DEF Answered, Goto
  <2> QED
    BY <2>1, <2>3 DEF Booked
<1>8. CASE CallRaises(r) \/ DbFails(r)
  <2>1. reply'[r] = "raised"
    BY <1>8, <1>t DEF CallRaises, DbFails
  <2> QED
    BY <2>1 DEF Booked
<1> QED
  BY <1>1, <1>2, <1>3, <1>4, <1>5, <1>6, <1>7, <1>8 DEF Step

LEMMA BookedFrame ==
    ASSUME TypeOK, UsageKnown, NEW q \in Requests, Booked(q), Next,
           UNCHANGED <<pc[q], at[q], reply[q]>>
    PROVE  Booked(q)'
<1>1. <<q, at[q]>> \in Calls
  BY CallsFact DEF TypeOK
<1>2. Settled(<<q, at[q]>>) => Settled(<<q, at[q]>>)'
  BY <1>1, SettledKept
<1> QED
  BY <1>2 DEF Booked, Settled

LEMMA BookedKept ==
    ASSUME Inv, [Next]_vars
    PROVE  \A r \in Requests : Booked(r)'
<1> TAKE q \in Requests
<1> USE DEF Inv
<1>1. ASSUME NEW r \in Requests, Next,
             \/ Arrive(r) \/ Direct(r) \/ Step(r) \/ CallRaises(r) \/ DbFails(r)
      PROVE  Booked(q)'
  <2>1. CASE q = r
    BY <1>1, <2>1, BookedStep
  <2>2. CASE q # r
    <3>1. UNCHANGED <<pc[q], at[q], reply[q]>>
      BY <1>1, <2>2, OtherHandlers DEF Local
    <3> QED
      BY <1>1, <3>1, BookedFrame
  <2> QED
    BY <2>1, <2>2
<1>2. CASE Beside
  BY <1>2, BesideFacts, BookedFrame DEF Next, Beside
<1>3. CASE Restart
  <2>1. CASE pc[q] \in Busy
    BY <1>3, <2>1 DEF Restart, Booked
  <2>2. CASE pc[q] \notin Busy
    <3>1. UNCHANGED <<pc[q], at[q], reply[q]>>
      BY <1>3, <2>2 DEF Restart, handler, loop
    <3> QED
      BY <1>3, <3>1, BookedFrame DEF Next
  <2> QED
    BY <2>1, <2>2
<1>4. CASE UNCHANGED vars
  BY <1>4 DEF vars, books, handler, loop, Booked
<1> QED
  BY <1>1, <1>2, <1>3, <1>4 DEF Next, Beside

-----------------------------------------------------------------------------
(* Failover counts.                                                        *)

CountedOf(s) == {r \in counted : Session(r) = s}

LEMMA CountStep ==
    ASSUME TypeOK, CountedEnded, FailoversCounted, NEW r \in Requests,
           CountFailover(r)
    PROVE  CountedEnded' /\ FailoversCounted'
<1>1. /\ pc[r] = "count" /\ pc' = [pc EXCEPT ![r] = "done"]
      /\ failovers' = [failovers EXCEPT ![Session(r)] = failovers[Session(r)] + 1]
      /\ counted' = counted \cup {r}
  BY DEF CountFailover, Goto
<1>2. CountedEnded'
  BY <1>1 DEF CountedEnded, TypeOK
<1>3. r \notin counted /\ counted \subseteq Requests
  BY <1>1 DEF CountedEnded
<1>4. ASSUME NEW s \in Sessions
      PROVE  failovers'[s] = Cardinality(CountedOf(s)')
  <2>1. IsFiniteSet(CountedOf(s))
    BY <1>3, FS_Subset, RouterAssumption DEF CountedOf
  <2>2. failovers[s] = Cardinality(CountedOf(s))
    BY DEF FailoversCounted, CountedOf
  <2>3. CASE s = Session(r)
    <3>1. CountedOf(s)' = CountedOf(s) \cup {r}
      BY <1>1, <2>3 DEF CountedOf, Session
    <3>2. Cardinality(CountedOf(s) \cup {r}) = Cardinality(CountedOf(s)) + 1
      BY <1>3, <2>1, FS_AddElement DEF CountedOf
    <3>3. failovers'[s] = failovers[s] + 1
      BY <1>1, <2>3 DEF TypeOK
    <3> QED
      BY <2>2, <3>1, <3>2, <3>3
  <2>4. CASE s # Session(r)
    <3>1. CountedOf(s)' = CountedOf(s)
      BY <1>1, <2>4 DEF CountedOf, Session
    <3>2. failovers'[s] = failovers[s]
      BY <1>1, <2>4 DEF TypeOK
    <3> QED
      BY <2>2, <3>1, <3>2
  <2> QED
    BY <2>3, <2>4
<1>5. FailoversCounted'
  BY <1>4 DEF FailoversCounted, CountedOf, Session
<1> QED
  BY <1>2, <1>5

LEMMA CountKept ==
    ASSUME TypeOK, HistoryOK, CountedEnded, FailoversCounted, [Next]_vars
    PROVE  CountedEnded' /\ FailoversCounted'
<1>1. ASSUME NEW r \in Requests, CountFailover(r)
      PROVE  CountedEnded' /\ FailoversCounted'
  BY <1>1, CountStep
<1>2. ASSUME UNCHANGED <<failovers, counted>>,
             \A q \in Requests : pc[q] = "done" => pc'[q] = "done"
      PROVE  CountedEnded' /\ FailoversCounted'
  BY <1>2 DEF CountedEnded, FailoversCounted
<1>3. ASSUME NEW r \in Requests, ~CountFailover(r),
             \/ Arrive(r) \/ Direct(r) \/ Step(r) \/ CallRaises(r) \/ DbFails(r)
      PROVE  /\ UNCHANGED <<failovers, counted>>
             /\ \A q \in Requests : pc[q] = "done" => pc'[q] = "done"
  <2>1. UNCHANGED <<failovers, counted>>
    BY <1>3 DEF Step, Arrive, Direct, Rank, Assign, Answer, Book, Cooldown,
       Failover, Fallback, CallRaises, DbFails, Upsert, db, history
  <2>2. pc[r] # "done"
    BY <1>3 DEF Step, Arrive, Direct, Rank, Assign, Answer, Book, Cooldown,
       Failover, CountFailover, Fallback, CallRaises, DbFails
  <2>3. \A q \in Requests : q # r => pc'[q] = pc[q]
    BY <1>3, OtherHandlers DEF Local
  <2> QED
    BY <2>1, <2>2, <2>3
<1>4. CASE Beside \/ UNCHANGED vars
  <2>1. UNCHANGED <<failovers, counted, pc>>
    BY <1>4, BesideFacts DEF vars, db, history
  <2> QED
    BY <1>2, <2>1
<1>5. CASE Restart
  <2>1. \A q \in Requests : pc[q] = "done" => pc'[q] = "done"
    BY <1>5 DEF Restart
  <2>2. UNCHANGED <<failovers, counted>>
    BY <1>5 DEF Restart, db, history
  <2> QED
    BY <1>2, <2>1, <2>2
<1> QED
  BY <1>1, <1>2, <1>3, <1>4, <1>5 DEF Next, Beside

-----------------------------------------------------------------------------
(* The invariant holds.                                                    *)

LEMMA InitInv ==
    ASSUME Init
    PROVE  Inv
<1> USE RouterAssumption DEF Init, Schema
<1>1. TypeOK
  <2>1. NoRow \in Rows \cup {NoRow}
    OBVIOUS
  <2> QED
    BY <2>1 DEF TypeOK, Busy, Verdicts
<1>2. HistoryOK
  BY DEF HistoryOK
<1>3. (\A r \in Requests : Handler(r) /\ Booked(r)) /\ UsageKnown
  BY DEF Handler, Candidates, Replies, Sticky, Booked, UsageKnown
<1>4. CountedEnded
  BY DEF CountedEnded
<1>5. FailoversCounted
  <2>1. \A s \in Sessions : {r \in counted : Session(r) = s} = {}
    OBVIOUS
  <2> QED
    BY <2>1, FS_EmptySet DEF FailoversCounted
<1> QED
  BY <1>1, <1>2, <1>3, <1>4, <1>5 DEF Inv

LEMMA InvStep ==
    ASSUME Inv, [Next]_vars
    PROVE  Inv'
BY HandlersKept, TypesKept, BookedKept, CountKept DEF Inv

LEMMA InvHolds == Spec => []Inv
BY InitInv, InvStep, PTL DEF Spec

(* The tables, the handlers and the ledger are well-formed, and a handler  *)
(* that sends has an account of the pool to send to.                       *)
THEOREM TypeCorrect == Spec => []TypeOK
<1>1. Inv => TypeOK
  BY DEF Inv
<1> QED
  BY <1>1, InvHolds, PTL

(* The attempt loop of proxy tries an account at most once per request.    *)
THEOREM TriedOnce == Spec => []NoAccountTwice
<1>1. Inv => NoAccountTwice
  BY DEF Inv, Handler, Candidates, NoAccountTwice
<1> QED
  BY <1>1, InvHolds, PTL

(* A limit error is returned only when every offered account refused.      *)
THEOREM LimitJustified == Spec => []LimitMeansAllRefused
<1>1. Inv => LimitMeansAllRefused
  BY DEF Inv, Handler, Replies, LimitMeansAllRefused
<1> QED
  BY <1>1, InvHolds, PTL

(* A request is sent only to an account that was not cooling down when it  *)
(* read its session or when it ranked the accounts.                        *)
THEOREM CooldownRespected == Spec => []CooledNotTried
<1>1. Inv => CooledNotTried
  BY DEF Inv, Handler, Sticky, CooledNotTried
<1> QED
  BY <1>1, InvHolds, PTL

(* A call whose booking neither failed nor died has its row, and a row     *)
(* whose usage one of its writers knew has a usage.                        *)
THEOREM CallsBooked == Spec => []SuccessBooked
<1>1. Inv => SuccessBooked
  BY DEF Inv, Booked, UsageKnown, SuccessBooked
<1> QED
  BY <1>1, InvHolds, PTL

(* failover_count is the number of requests that recorded a failover.      *)
THEOREM FailoverCount == Spec => []FailoversCounted
<1>1. Inv => FailoversCounted
  BY DEF Inv
<1> QED
  BY <1>1, InvHolds, PTL

(* A handler moves its session only after the account refused it.          *)
THEOREM MovesForCause == Spec => MovedForCause
<1>1. ASSUME Inv, NEW r \in Requests, pc[r] \in {"assign", "failover"},
             seen[r] # None
      PROVE  seen[r] \in tried[r]
  <2>1. Sticky(r)
    BY <1>1 DEF Inv, Handler
  <2>2. at[r] \in Accounts /\ None \notin Accounts
    BY <1>1, RouterAssumption DEF Inv, TypeOK
  <2> QED
    BY <1>1, <2>1, <2>2 DEF Sticky
<1>2. Inv => [\A r \in Requests :
                 /\ pc[r] \in {"assign", "failover"} /\ pc'[r] # "done"
                 /\ seen[r] # None
                 => seen[r] \in tried[r]]_vars
  BY <1>1
<1> QED
  BY <1>2, InvHolds, PTL DEF MovedForCause
=============================================================================
