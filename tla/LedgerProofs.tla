---------------------------- MODULE LedgerProofs ----------------------------
(***************************************************************************)
(* Proofs about the ledger: types, whole statements in every total, and    *)
(* budgets removed once each, for any number of requests, items and users. *)
(***************************************************************************)
EXTENDS Ledger, TLAPS

-----------------------------------------------------------------------------
(* The inductive invariant. *)

Asked == Months \cup {MonthOf(Now)}

Intervals == Ranges \cup {AnyTime, getCurrentMonthRange(Now)}
                    \cup {getMonthRange(m.year, m.month) : m \in Months}

Targets == [category : Categories, limit : Limits \cup {0}]

BudgetRows == [id    : Requests \cup {"old"},
               limit : {n \in Limits : n <= Int4Max}]

Groups == {Group(S) : S \in SUBSET Items}

ReqRecords ==
  [kind : Kinds \cup {"none"}, pc : Pcs, user : Clients \cup {None},
   statement : Statements \cup {None}, range : Intervals,
   month : Asked \cup {NoMonth}, target : Targets \cup {None},
   byType : [{"debit", "credit"} -> Groups] \cup {None},
   byCategory : [Categories -> Groups] \cup {None},
   own : [Categories -> BudgetRows \cup {None}] \cup {None},
   row : Requests \cup {"old", None},
   first : SUBSET Statements, second : SUBSET Statements, quiet : BOOLEAN]

\* What the label of a request says of the rest of its record.
Stage(q) ==
  /\ q.pc = "unsent" => q.kind = "none"
  /\ q.pc \in {"lookup", "byType", "byCategory"} => q.kind \in Readers
  /\ q.pc \in {"lookup", "byType"} => q.byCategory = None
  /\ q.pc = "upsert" => q.kind = "set" /\ q.target.limit \in Limits
  /\ q.pc \in {"find", "delete", "missing"} => q.kind = "remove"
  /\ q.kind # "none" => q.user \in Clients
  /\ q.kind \in {"set", "remove"} => q.target \in Targets
  /\ q.kind = "remove" => q.target.limit = 0
  /\ q.kind = "stats" => q.range = AnyTime

TypeInv ==
  /\ category \in [Items -> Categories \cup {None}]
  /\ \A i \in Items : Present(i) => Kobo(i) \in (-Int4Max - 1)..Int4Max
  /\ budgets \in [Clients -> [Categories -> BudgetRows \cup {None}]]
  /\ req \in [Requests -> ReqRecords]
  /\ \A r \in Requests : Stage(req[r])

\* A statement has all of its transactions or none.
WholeStatements ==
  \A i, j \in Items :
    StatementOf[i] = StatementOf[j] /\ Present(i) => Present(j)

TotalsRead(r) ==
  req[r].kind \in Readers /\ req[r].pc \in {"byCategory", "answered"} =>
    \A t \in {"debit", "credit"} :
      req[r].byType[t] =
        Group({i \in AskedFor(r, req[r].first) : Extracted[i].type = t})

ReadInv == WholeStatements /\ \A r \in Requests : TotalsRead(r)

\* The ids of rows so far: a row that a set created has the name of the set.
SpentIds == {"old"} \cup
  {x \in Requests : req[x].kind = "none" /\ req[x].pc # "unsent"}

\* A removal whose delete took effect.
Removed(r) == req[r].kind = "remove" /\ req[r].pc \in {"answered", "failed"}

Beaten(r) == \E q \in Requests \ {r} :
               SameBudget(q, r) /\ Removed(q) /\ req[q].row = req[r].row

\* No row, and no row that a removal found, has an id that is still to come.
RowIds ==
  /\ \A u \in Clients, c \in Categories :
       budgets[u][c] # None => budgets[u][c].id \in SpentIds
  /\ \A r \in Requests : req[r].row # None => req[r].row \in SpentIds

\* What a removal deleted is gone and was deleted by no other.
RemovedOnce ==
  \A r \in Requests : Removed(r) =>
    /\ req[r].row # None
    /\ Row(r) # None => Row(r).id # req[r].row
    /\ \A q \in Requests \ {r} :
         SameBudget(q, r) /\ Removed(q) => req[q].row # req[r].row

\* The row that a removal found is still there, or another removal deleted it.
FoundOrBeaten ==
  \A r \in Requests :
    /\ req[r].pc = "delete" =>
         (Row(r) # None /\ Row(r).id = req[r].row) \/ Beaten(r)
    /\ req[r].pc = "missing" => Beaten(r)

RemoveInv == RowIds /\ RemovedOnce /\ FoundOrBeaten

-----------------------------------------------------------------------------
(* Records. *)

\* The records agree on everything the invariant looks at.
Same(p, q) ==
  /\ p.kind = q.kind /\ p.pc = q.pc /\ p.user = q.user
  /\ p.statement = q.statement /\ p.range = q.range /\ p.target = q.target
  /\ p.byType = q.byType /\ p.byCategory = q.byCategory
  /\ p.row = q.row /\ p.first = q.first /\ p.second = q.second

\* Marking listings as disturbed changes nothing else.
LEMMA DisturbIsQuiet ==
  ASSUME NEW q \in [Requests -> ReqRecords], \A r \in Requests : Stage(q[r])
  PROVE  /\ Disturb(q) \in [Requests -> ReqRecords]
         /\ \A r \in Requests : Stage(Disturb(q)[r]) /\ Same(Disturb(q)[r], q[r])
<1>1. ASSUME NEW r \in Requests
      PROVE  /\ Disturb(q)[r] \in ReqRecords
             /\ Stage(Disturb(q)[r])
             /\ Same(Disturb(q)[r], q[r])
  <2>0. q[r] \in ReqRecords /\ Stage(q[r])
    OBVIOUS
  <2>1. Disturb(q)[r] = IF q[r].kind = "budgets" /\ q[r].pc \in Open
                        THEN [q[r] EXCEPT !.quiet = FALSE] ELSE q[r]
    BY DEF Disturb
  <2>2. CASE Disturb(q)[r] = [q[r] EXCEPT !.quiet = FALSE]
    <3> DEFINE p == [q[r] EXCEPT !.quiet = FALSE]
    <3>1. p \in ReqRecords
      BY <2>0 DEF ReqRecords
    <3>2. Same(p, q[r])
      BY <2>0 DEF ReqRecords, Same
    <3>3. Stage(p)
      BY <2>0, <3>2 DEF Same, Stage
    <3> QED
      BY <2>2, <3>1, <3>2, <3>3
  <2>3. CASE Disturb(q)[r] = q[r]
    BY <2>0, <2>3 DEF Same
  <2> QED
    BY <2>1, <2>2, <2>3
<1>2. Disturb(q) = [r \in Requests |-> Disturb(q)[r]]
  BY DEF Disturb
<1> QED
  BY <1>1, <1>2

\* The record of a request that was not sent.
LEMMA UnsentIsTyped ==
  /\ Unsent \in ReqRecords
  /\ Unsent.kind = "none" /\ Unsent.pc = "unsent"
  /\ Unsent.row = None /\ Unsent.byCategory = None
  /\ Unsent.range = AnyTime
<1>1. Unsent \in ReqRecords
  BY DEF Unsent, ReqRecords, Pcs, Intervals
<1> QED
  BY <1>1 DEF Unsent

\* A request that ended keeps nothing but its label.
LEMMA EndedIsTyped ==
  ASSUME NEW label \in {"notFound", "failed", "answered"}
  PROVE  /\ Ended(label) \in ReqRecords /\ Stage(Ended(label))
         /\ Ended(label).kind = "none" /\ Ended(label).pc = label
         /\ Ended(label).row = None
<1> DEFINE q == [Unsent EXCEPT !.pc = label]
<1>1. q \in ReqRecords /\ q.kind = "none" /\ q.pc = label /\ q.row = None
  BY UnsentIsTyped DEF ReqRecords, Pcs
<1>2. Stage(q)
  BY <1>1 DEF Stage, Readers
<1> QED
  BY <1>1, <1>2 DEF Ended

-----------------------------------------------------------------------------
(* What each action does to the requests. *)

\* Only the records of requests in W change, but for being quiet.
Moves(W) ==
  /\ req' \in [Requests -> ReqRecords]
  /\ \A x \in Requests : Stage(req'[x])
  /\ \A x \in Requests \ W : Same(req'[x], req[x])

\* Request r gets the record q, and nothing else is written.
LEMMA MovesOne ==
  ASSUME TypeInv, NEW r \in Requests, NEW q, q \in ReqRecords, Stage(q),
         req' = [req EXCEPT ![r] = q]
  PROVE  Moves({r}) /\ req'[r] = q
BY DEF TypeInv, Moves, Same

\* The same, when something else is written that disturbs the listings.
LEMMA MovesLoudly ==
  ASSUME TypeInv, NEW r \in Requests, NEW q, q \in ReqRecords, Stage(q),
         req' = Disturb([req EXCEPT ![r] = q])
  PROVE  Moves({r}) /\ Same(req'[r], q)
<1> DEFINE f == [req EXCEPT ![r] = q]
<1>1. /\ f \in [Requests -> ReqRecords] /\ \A x \in Requests : Stage(f[x])
      /\ f[r] = q /\ \A x \in Requests \ {r} : f[x] = req[x]
  BY DEF TypeInv
<1>2. req' = Disturb(f)
  OBVIOUS
<1> HIDE DEF f
<1>3. /\ req' \in [Requests -> ReqRecords]
      /\ \A x \in Requests : Stage(req'[x]) /\ Same(req'[x], f[x])
  BY <1>1, <1>2, DisturbIsQuiet
<1>4. ASSUME NEW x \in Requests \ {r} PROVE Same(req'[x], req[x])
  BY <1>1, <1>3
<1> QED
  BY <1>1, <1>3, <1>4 DEF Moves

LEMMA MovesNone ==
  ASSUME TypeInv, req' = Disturb(req) \/ req' = req
  PROVE  Moves({})
<1>1. CASE req' = Disturb(req)
  BY <1>1, DisturbIsQuiet DEF Moves, TypeInv
<1>2. CASE req' = req
  BY <1>2 DEF Moves, TypeInv, Same
<1> QED
  BY <1>1, <1>2

\* A request is sent: its record says what for, and nothing is found yet.
LEMMA SendMoves ==
  ASSUME TypeInv, NEW r \in Requests, Send(r)
  PROVE  /\ Moves({r}) /\ req[r].pc = "unsent"
         /\ req'[r].pc \in {"byType", "lookup", "upsert", "find"}
         /\ req'[r].row = None
         /\ UNCHANGED <<category, budgets>>
<1> USE DEF Kinds, Readers, Pcs
<1> DEFINE Sent(q) == /\ q \in ReqRecords /\ Stage(q)
                      /\ q.pc \in {"byType", "lookup", "upsert", "find"}
                      /\ q.row = None
<1>1. ASSUME NEW q, Sent(q), req[r].pc = "unsent", req' = [req EXCEPT ![r] = q],
             UNCHANGED <<category, budgets>>
      PROVE  /\ Moves({r}) /\ req[r].pc = "unsent"
             /\ req'[r].pc \in {"byType", "lookup", "upsert", "find"}
             /\ req'[r].row = None
             /\ UNCHANGED <<category, budgets>>
  BY <1>1, MovesOne
<1>2. CASE SendOverview(r)
  <2>1. PICK u \in Clients, range \in Ranges :
          req' = [req EXCEPT ![r] = [Unsent EXCEPT
                 !.kind = "overview", !.pc = "byType", !.user = u, !.range = range]]
    BY <1>2 DEF SendOverview
  <2> DEFINE q == [Unsent EXCEPT
                 !.kind = "overview", !.pc = "byType", !.user = u, !.range = range]
  <2>2. q \in ReqRecords
    <3>1. range \in Intervals
      BY DEF Intervals
    <3> QED
      BY <3>1, UnsentIsTyped DEF ReqRecords
  <2>3. /\ q.kind = "overview" /\ q.pc = "byType" /\ q.user = u
        /\ q.row = None /\ q.byCategory = None
    BY UnsentIsTyped DEF ReqRecords
  <2>4. Sent(q)
    BY <2>2, <2>3 DEF Stage
  <2> QED
    BY <1>1, <1>2, <2>1, <2>4 DEF SendOverview
<1>3. CASE SendStats(r)
  <2>1. PICK u \in Clients, s \in Statements :
          req' = [req EXCEPT ![r] = [Unsent EXCEPT
                 !.kind = "stats", !.pc = "lookup", !.user = u, !.statement = s]]
    BY <1>3 DEF SendStats
  <2> DEFINE q == [Unsent EXCEPT
                 !.kind = "stats", !.pc = "lookup", !.user = u, !.statement = s]
  <2>2. Sent(q)
    BY UnsentIsTyped DEF ReqRecords, Stage
  <2> QED
    BY <1>1, <1>3, <2>1, <2>2 DEF SendStats
<1>4. CASE SendBudgets(r)
  <2>1. PICK u \in Clients, m \in Asked, range \in Intervals :
          req' = [req EXCEPT ![r] = [Unsent EXCEPT
                 !.kind = "budgets", !.pc = "byType", !.user = u, !.month = m,
                 !.range = range]]
    BY <1>4 DEF SendBudgets, Asked, Intervals
  <2> DEFINE q == [Unsent EXCEPT
                 !.kind = "budgets", !.pc = "byType", !.user = u, !.month = m,
                 !.range = range]
  <2>2. Sent(q)
    BY UnsentIsTyped DEF ReqRecords, Stage
  <2> QED
    BY <1>1, <1>4, <2>1, <2>2 DEF SendBudgets
<1>5. CASE SendSet(r)
  <2>1. PICK u \in Clients, c \in Categories, l \in Limits :
          req' = [req EXCEPT ![r] = [Unsent EXCEPT
                 !.kind = "set", !.pc = "upsert", !.user = u,
                 !.target = [category |-> c, limit |-> l]]]
    BY <1>5 DEF SendSet
  <2> DEFINE q == [Unsent EXCEPT
                 !.kind = "set", !.pc = "upsert", !.user = u,
                 !.target = [category |-> c, limit |-> l]]
  <2>2. Sent(q)
    BY UnsentIsTyped DEF ReqRecords, Stage, Targets
  <2> QED
    BY <1>1, <1>5, <2>1, <2>2 DEF SendSet
<1>6. CASE SendRemove(r)
  <2>1. PICK u \in Clients, c \in Categories :
          req' = [req EXCEPT ![r] = [Unsent EXCEPT
                 !.kind = "remove", !.pc = "find", !.user = u,
                 !.target = [category |-> c, limit |-> 0]]]
    BY <1>6 DEF SendRemove
  <2> DEFINE q == [Unsent EXCEPT
                 !.kind = "remove", !.pc = "find", !.user = u,
                 !.target = [category |-> c, limit |-> 0]]
  <2>2. Sent(q)
    BY UnsentIsTyped DEF ReqRecords, Stage, Targets
  <2> QED
    BY <1>1, <1>6, <2>1, <2>2 DEF SendRemove
<1> QED
  BY <1>2, <1>3, <1>4, <1>5, <1>6 DEF Send

\* What a query groups is one of the groups.
LEMMA GroupsAreTyped ==
  ASSUME NEW S \in SUBSET Items
  PROVE  /\ ByType(S) \in [{"debit", "credit"} -> Groups]
         /\ ByCategory(S) \in [Categories -> Groups]
BY DEF ByType, ByCategory, Groups

LEMMA SelectedAreItems ==
  ASSUME NEW r \in Requests
  PROVE  Selected(r) \in SUBSET Items
BY DEF Selected, OwnRows, Where

\* The fields that say what request r asks, and what it has read of it.
Keeps(r) ==
  /\ req'[r].kind = req[r].kind /\ req'[r].user = req[r].user
  /\ req'[r].statement = req[r].statement /\ req'[r].range = req[r].range
  /\ req'[r].target = req[r].target /\ req'[r].row = req[r].row

LEMMA EndMoves ==
  ASSUME TypeInv, NEW r \in Requests,
         NEW label \in {"notFound", "failed"}, End(r, label)
  PROVE  /\ Moves({r})
         /\ req'[r].kind = "none" /\ req'[r].pc = label /\ req'[r].row = None
BY EndedIsTyped, MovesOne DEF End

LEMMA FindStatementMoves ==
  ASSUME TypeInv, NEW r \in Requests, FindStatement(r)
  PROVE  /\ Moves({r}) /\ req[r].kind \in Readers
         /\ \/ req'[r].kind \in Readers /\ req'[r].pc = "byType"
            \/ req'[r].kind = "none" /\ req'[r].pc = "notFound"
         /\ req'[r].row \in {None, req[r].row}
         /\ UNCHANGED <<category, budgets>>
<1>1. req[r] \in ReqRecords /\ Stage(req[r]) /\ req[r].pc = "lookup"
  BY DEF TypeInv, FindStatement
<1>2. req[r].kind \in Readers
  BY <1>1 DEF Stage
<1>3. CASE Goto(r, "byType")
  <2> DEFINE q == [req[r] EXCEPT !.pc = "byType"]
  <2>1. q \in ReqRecords
    BY <1>1 DEF ReqRecords, Pcs
  <2>2. /\ q.pc = "byType" /\ q.kind = req[r].kind /\ q.row = req[r].row
        /\ q.byCategory = req[r].byCategory /\ q.user = req[r].user
        /\ q.target = req[r].target /\ q.range = req[r].range
    BY <1>1 DEF ReqRecords
  <2>3. Stage(q)
    BY <1>1, <1>2, <2>2 DEF Stage, Readers
  <2>4. req' = [req EXCEPT ![r] = q]
    BY <1>3 DEF Goto
  <2> QED
    BY <1>2, <2>1, <2>2, <2>3, <2>4, MovesOne DEF FindStatement
<1>4. CASE End(r, "notFound")
  BY <1>2, <1>4, EndMoves DEF FindStatement
<1> QED
  BY <1>3, <1>4 DEF FindStatement

LEMMA GroupByTypeMoves ==
  ASSUME TypeInv, NEW r \in Requests, GroupByType(r)
  PROVE  /\ Moves({r}) /\ req[r].kind \in Readers /\ Keeps(r)
         /\ req'[r].pc \in {"answered", "byCategory"}
         /\ req'[r].byType = ByType(Selected(r)) /\ req'[r].first = Committed
         /\ UNCHANGED <<category, budgets>>
<1>1. req[r] \in ReqRecords /\ Stage(req[r]) /\ req[r].pc = "byType"
  BY DEF TypeInv, GroupByType
<1>2. req[r].kind \in Readers
  BY <1>1 DEF Stage
<1> DEFINE totals == ByType(Selected(r))
           done   == Committed
<1>3. PICK label \in {"answered", "byCategory"} :
        req' = [req EXCEPT ![r].byType = totals, ![r].first = done,
                           ![r].pc = label]
  BY DEF GroupByType
<1>4. totals \in [{"debit", "credit"} -> Groups] /\ done \in SUBSET Statements
  BY GroupsAreTyped, SelectedAreItems DEF Committed
<1> HIDE DEF totals, done
<1> DEFINE q == [req[r] EXCEPT !.byType = totals, !.first = done, !.pc = label]
<1>5. q \in ReqRecords
  BY <1>1, <1>4 DEF ReqRecords, Pcs
<1>6. /\ q.pc = label /\ q.byType = totals /\ q.first = done
      /\ q.kind = req[r].kind /\ q.user = req[r].user
      /\ q.statement = req[r].statement /\ q.range = req[r].range
      /\ q.target = req[r].target /\ q.row = req[r].row
  BY <1>1 DEF ReqRecords
<1>7. Stage(q)
  BY <1>1, <1>2, <1>6 DEF Stage, Readers
<1>8. req' = [req EXCEPT ![r] = q]
  BY <1>3
<1>9. Moves({r}) /\ req'[r] = q
  BY <1>5, <1>7, <1>8, MovesOne
<1> HIDE DEF q
<1> QED
  BY <1>2, <1>3, <1>6, <1>9 DEF GroupByType, Keeps, totals, done

LEMMA GroupByCategoryMoves ==
  ASSUME TypeInv, NEW r \in Requests, GroupByCategory(r)
  PROVE  /\ Moves({r}) /\ req[r].kind \in Readers /\ Keeps(r)
         /\ req[r].pc = "byCategory" /\ req'[r].pc \in {"byCategory", "answered"}
         /\ req'[r].byType = req[r].byType /\ req'[r].first = req[r].first
         /\ req'[r].byCategory = ByCategory(Selected(r))
         /\ req'[r].second = Committed
         /\ UNCHANGED <<category, budgets>>
<1>1. req[r] \in ReqRecords /\ Stage(req[r]) /\ req[r].pc = "byCategory"
  BY DEF TypeInv, GroupByCategory
<1>2. req[r].kind \in Readers
  BY <1>1 DEF Stage
<1> DEFINE totals == ByCategory(Selected(r))
           done   == Committed
<1>3. PICK label \in {"answered", "byCategory"} :
        req' = [req EXCEPT ![r].byCategory = totals, ![r].second = done,
                           ![r].pc = label]
  BY DEF GroupByCategory, Categorized
<1>4. totals \in [Categories -> Groups] /\ done \in SUBSET Statements
  BY GroupsAreTyped, SelectedAreItems DEF Committed
<1> HIDE DEF totals, done
<1> DEFINE q == [req[r] EXCEPT !.byCategory = totals, !.second = done, !.pc = label]
<1>5. q \in ReqRecords
  BY <1>1, <1>4 DEF ReqRecords, Pcs
<1>6. /\ q.pc = label /\ q.byType = req[r].byType /\ q.first = req[r].first
      /\ q.byCategory = totals /\ q.second = done
      /\ q.kind = req[r].kind /\ q.user = req[r].user
      /\ q.statement = req[r].statement /\ q.range = req[r].range
      /\ q.target = req[r].target /\ q.row = req[r].row
  BY <1>1 DEF ReqRecords
<1>7. Stage(q)
  BY <1>1, <1>2, <1>6 DEF Stage, Readers
<1>8. req' = [req EXCEPT ![r] = q]
  BY <1>3
<1>9. Moves({r}) /\ req'[r] = q
  BY <1>5, <1>7, <1>8, MovesOne
<1> HIDE DEF q
<1> QED
  BY <1>1, <1>2, <1>3, <1>6, <1>9
     DEF GroupByCategory, Keeps, totals, done

LEMMA FindBudgetsMoves ==
  ASSUME TypeInv, NEW r \in Requests, FindBudgets(r)
  PROVE  /\ Moves({r}) /\ req[r].kind \in Readers /\ Keeps(r)
         /\ req'[r].pc \in {"answered", "byCategory"} => req[r].pc = "byCategory"
         /\ req'[r].pc = "answered" => req[r].byCategory # None
         /\ req'[r].byType = req[r].byType /\ req'[r].first = req[r].first
         /\ req'[r].byCategory = req[r].byCategory
         /\ req'[r].second = req[r].second
         /\ UNCHANGED <<category, budgets>>
<1>1. /\ req[r] \in ReqRecords /\ Stage(req[r])
      /\ req[r].kind = "budgets" /\ req[r].pc \in Open
  BY DEF TypeInv, FindBudgets
<1>2. /\ req[r].kind \in Readers /\ req[r].user \in Clients
      /\ req[r].pc \in {"lookup", "byType", "byCategory"}
  BY <1>1 DEF Stage, Readers, Open
<1> DEFINE found == budgets[req[r].user]
<1>3. PICK label \in Pcs :
        /\ req' = [req EXCEPT ![r].own = found, ![r].pc = label]
        /\ \/ label = req[r].pc
           \/ /\ label = "answered" /\ req[r].pc = "byCategory"
              /\ req[r].byCategory # None
  <2>1. req' = [req EXCEPT ![r].own = budgets[req[r].user],
                  ![r].pc = IF req[r].byCategory # None THEN "answered"
                                                        ELSE req[r].pc]
    BY <1>1 DEF FindBudgets, TypeInv
  <2>2. req[r].byCategory # None => req[r].pc = "byCategory"
    BY <1>1, <1>2 DEF Stage
  <2> QED
    BY <1>2, <2>1, <2>2 DEF Pcs
<1>4. found \in [Categories -> BudgetRows \cup {None}]
  BY <1>2 DEF TypeInv
<1> HIDE DEF found
<1> DEFINE q == [req[r] EXCEPT !.own = found, !.pc = label]
<1>5. q \in ReqRecords
  BY <1>1, <1>4 DEF ReqRecords
<1>6. /\ q.pc = label /\ q.byType = req[r].byType /\ q.first = req[r].first
      /\ q.kind = req[r].kind /\ q.user = req[r].user
      /\ q.statement = req[r].statement /\ q.range = req[r].range
      /\ q.target = req[r].target /\ q.row = req[r].row
      /\ q.byCategory = req[r].byCategory /\ q.second = req[r].second
  BY <1>1 DEF ReqRecords
<1>7. Stage(q)
  BY <1>1, <1>2, <1>3, <1>6 DEF Stage, Readers
<1>8. req' = [req EXCEPT ![r] = q]
  BY <1>3
<1>9. Moves({r}) /\ req'[r] = q
  BY <1>5, <1>7, <1>8, MovesOne
<1> HIDE DEF q
<1> QED
  BY <1>2, <1>3, <1>6, <1>9 DEF FindBudgets, Keeps

LEMMA FailMoves ==
  ASSUME TypeInv, NEW r \in Requests, Fail(r)
  PROVE  /\ Moves({r}) /\ req[r].pc \in Open /\ req[r].kind # "none"
         /\ req'[r].kind = "none" /\ req'[r].row = None
         /\ UNCHANGED <<category, budgets>>
<1>1. Stage(req[r]) /\ req[r].pc \in Open
  BY DEF TypeInv, Fail
<1>2. req[r].kind # "none"
  BY <1>1 DEF Stage, Open, Readers
<1> QED
  BY <1>1, <1>2, EndMoves DEF Fail

-----------------------------------------------------------------------------
(* The budget that a request sets or removes. *)

\* Only the budget of r's target is written.
LEMMA WritesOneRow ==
  ASSUME TypeInv, NEW r \in Requests,
         req[r].user \in Clients, req[r].target \in Targets,
         NEW row \in BudgetRows \cup {None}, WriteRow(r, row)
  PROVE  /\ budgets' \in [Clients -> [Categories -> BudgetRows \cup {None}]]
         /\ budgets'[req[r].user][req[r].target.category] = row
         /\ \A u \in Clients, c \in Categories :
              u # req[r].user \/ c # req[r].target.category =>
                budgets'[u][c] = budgets[u][c]
<1> DEFINE v == req[r].user
           d == req[r].target.category
<1>1. v \in Clients /\ d \in Categories
  BY DEF Targets
<1>2. /\ budgets \in [Clients -> [Categories -> BudgetRows \cup {None}]]
      /\ budgets' = [budgets EXCEPT ![v] = [budgets[v] EXCEPT ![d] = row]]
  BY DEF TypeInv, WriteRow
<1> HIDE DEF v, d
<1>3. [budgets[v] EXCEPT ![d] = row] \in [Categories -> BudgetRows \cup {None}]
  BY <1>1, <1>2
<1>4. /\ budgets' \in [Clients -> [Categories -> BudgetRows \cup {None}]]
      /\ budgets'[v][d] = row
      /\ \A u \in Clients, c \in Categories :
           u # v \/ c # d => budgets'[u][c] = budgets[u][c]
  BY <1>1, <1>2, <1>3
<1> QED
  BY <1>4 DEF v, d

LEMMA UpsertMoves ==
  ASSUME TypeInv, NEW r \in Requests, Upsert(r)
  PROVE  /\ Moves({r}) /\ req[r].kind = "set"
         /\ req[r].user \in Clients /\ req[r].target \in Targets
         /\ req'[r].kind = "none" /\ req'[r].pc \in {"answered", "failed"}
         /\ req'[r].row = None
         /\ UNCHANGED category
         /\ \E row \in BudgetRows :
              /\ WriteRow(r, row)
              /\ row.id = IF Row(r) = None THEN r ELSE Row(r).id
<1>1. /\ req[r] \in ReqRecords /\ Stage(req[r]) /\ req[r].pc = "upsert"
      /\ req[r].target.limit <= Int4Max
  BY DEF TypeInv, Upsert
<1>2. /\ req[r].kind = "set" /\ req[r].target.limit \in Limits
      /\ req[r].user \in Clients /\ req[r].target \in Targets
  BY <1>1 DEF Stage
<1>3. PICK answer \in {"answered", "failed"} :
        req' = Disturb([req EXCEPT ![r] = Ended(answer)])
  BY DEF Upsert
<1>4. /\ Ended(answer) \in ReqRecords /\ Stage(Ended(answer))
      /\ Ended(answer).kind = "none" /\ Ended(answer).pc = answer
      /\ Ended(answer).row = None
  BY EndedIsTyped
<1>5. Moves({r}) /\ Same(req'[r], Ended(answer))
  BY <1>3, <1>4, MovesLoudly
<1> DEFINE id  == IF Row(r) = None THEN r ELSE Row(r).id
           row == [id |-> id, limit |-> req[r].target.limit]
<1>6. Row(r) \in BudgetRows \cup {None}
  BY <1>2 DEF Row, TypeInv, Targets
<1>7. id \in Requests \cup {"old"}
  BY <1>6 DEF BudgetRows
<1>8. row \in BudgetRows /\ row.id = id /\ WriteRow(r, row)
  BY <1>1, <1>2, <1>7 DEF BudgetRows, Upsert
<1> QED
  BY <1>2, <1>4, <1>5, <1>8 DEF Upsert, Same

LEMMA FindMoves ==
  ASSUME TypeInv, NEW r \in Requests, Find(r)
  PROVE  /\ Moves({r}) /\ req[r].kind = "remove" /\ req[r].pc = "find"
         /\ \/ req'[r].kind = "none" /\ req'[r].row = None
            \/ /\ req'[r].kind = "remove" /\ req'[r].pc = "delete"
               /\ req'[r].user = req[r].user /\ req'[r].target = req[r].target
               /\ Row(r) # None /\ req'[r].row = Row(r).id
         /\ UNCHANGED <<category, budgets>>
<1>1. /\ req[r] \in ReqRecords /\ Stage(req[r]) /\ req[r].pc = "find"
  BY DEF TypeInv, Find
<1>2. req[r].kind = "remove" /\ req[r].user \in Clients /\ req[r].target \in Targets
  BY <1>1 DEF Stage
<1>3. Row(r) \in BudgetRows \cup {None}
  BY <1>2 DEF Row, TypeInv, Targets
<1>4. CASE Row(r) = None
  BY <1>1, <1>2, <1>4, EndMoves DEF Find, FindOne
<1>5. CASE Row(r) # None
  <2> DEFINE q == [req[r] EXCEPT !.pc = "delete", !.row = Row(r).id]
  <2>1. Row(r).id \in Requests \cup {"old"}
    BY <1>3, <1>5 DEF BudgetRows
  <2>2. q \in ReqRecords
    BY <1>1, <2>1 DEF ReqRecords, Pcs
  <2>3. /\ q.pc = "delete" /\ q.row = Row(r).id /\ q.kind = req[r].kind
        /\ q.user = req[r].user /\ q.target = req[r].target
        /\ q.range = req[r].range
    BY <1>1 DEF ReqRecords
  <2>4. Stage(q)
    BY <1>1, <1>2, <2>3 DEF Stage, Readers
  <2>5. req' = [req EXCEPT ![r] = q]
    BY <1>5 DEF Find, FindOne
  <2>6. Moves({r}) /\ req'[r] = q
    BY <2>2, <2>4, <2>5, MovesOne
  <2> HIDE DEF q
  <2> QED
    BY <1>1, <1>2, <1>5, <2>3, <2>6 DEF Find
<1> QED
  BY <1>4, <1>5

LEMMA DeleteMoves ==
  ASSUME TypeInv, NEW r \in Requests, Delete(r)
  PROVE  /\ Moves({r}) /\ req[r].kind = "remove" /\ req[r].pc = "delete"
         /\ req[r].user \in Clients /\ req[r].target \in Targets
         /\ req'[r].kind = "remove"
         /\ req'[r].user = req[r].user /\ req'[r].target = req[r].target
         /\ UNCHANGED category
         /\ \/ /\ Row(r) # None /\ WriteRow(r, None)
               /\ req'[r].pc \in {"answered", "failed"}
               /\ req'[r].row = Row(r).id
            \/ /\ Row(r) = None /\ UNCHANGED budgets
               /\ req'[r].pc = "missing" /\ req'[r].row = req[r].row
<1>1. /\ req[r] \in ReqRecords /\ Stage(req[r]) /\ req[r].pc = "delete"
  BY DEF TypeInv, Delete
<1>2. req[r].kind = "remove" /\ req[r].user \in Clients /\ req[r].target \in Targets
  BY <1>1 DEF Stage
<1>3. Row(r) \in BudgetRows \cup {None}
  BY <1>2 DEF Row, TypeInv, Targets
<1>4. CASE /\ Row(r) # None /\ WriteRow(r, None)
           /\ \E answer \in {"answered", "failed"} :
                req' = Disturb([req EXCEPT ![r].pc = answer, ![r].row = Row(r).id])
  <2>1. PICK answer \in {"answered", "failed"} :
          req' = Disturb([req EXCEPT ![r].pc = answer, ![r].row = Row(r).id])
    BY <1>4
  <2> DEFINE q == [req[r] EXCEPT !.pc = answer, !.row = Row(r).id]
  <2>2. Row(r).id \in Requests \cup {"old"}
    BY <1>3, <1>4 DEF BudgetRows
  <2>3. q \in ReqRecords
    <3>1. answer \in Pcs /\ Row(r).id \in Requests \cup {"old", None}
      BY <2>1, <2>2 DEF Pcs
    <3> QED
      BY <1>1, <3>1 DEF ReqRecords
  <2>4. /\ q.pc = answer /\ q.row = Row(r).id /\ q.kind = req[r].kind
        /\ q.user = req[r].user /\ q.target = req[r].target
        /\ q.range = req[r].range
    BY <1>1 DEF ReqRecords
  <2>5. Stage(q)
    BY <1>1, <1>2, <2>4 DEF Stage, Readers
  <2>6. req' = Disturb([req EXCEPT ![r] = q])
    BY <2>1
  <2>7. Moves({r}) /\ Same(req'[r], q)
    BY <2>3, <2>5, <2>6, MovesLoudly
  <2> HIDE DEF q
  <2> QED
    BY <1>1, <1>2, <1>4, <2>4, <2>7 DEF Delete, Same
<1>5. CASE Row(r) = None /\ Goto(r, "missing") /\ UNCHANGED budgets
  <2> DEFINE q == [req[r] EXCEPT !.pc = "missing"]
  <2>1. q \in ReqRecords
    BY <1>1 DEF ReqRecords, Pcs
  <2>2. /\ q.pc = "missing" /\ q.row = req[r].row /\ q.kind = req[r].kind
        /\ q.user = req[r].user /\ q.target = req[r].target
        /\ q.range = req[r].range
    BY <1>1 DEF ReqRecords
  <2>3. Stage(q)
    BY <1>1, <1>2, <2>2 DEF Stage, Readers
  <2>4. req' = [req EXCEPT ![r] = q]
    BY <1>5 DEF Goto
  <2>5. Moves({r}) /\ req'[r] = q
    BY <2>1, <2>3, <2>4, MovesOne
  <2> HIDE DEF q
  <2> QED
    BY <1>1, <1>2, <1>5, <2>2, <2>5 DEF Delete
<1> QED
  BY <1>4, <1>5 DEF Delete, DeleteRow

-----------------------------------------------------------------------------
(* Types. *)

\* Steps that only move requests keep the types.
LEMMA TypedMoves ==
  ASSUME TypeInv, NEW W \in SUBSET Requests, Moves(W),
         UNCHANGED category,
         budgets' \in [Clients -> [Categories -> BudgetRows \cup {None}]]
  PROVE  TypeInv'
BY DEF TypeInv, Moves, Present

LEMMA TypedMovesOnly ==
  ASSUME TypeInv, NEW W \in SUBSET Requests, Moves(W),
         UNCHANGED <<category, budgets>>
  PROVE  TypeInv'
BY TypedMoves DEF TypeInv

\* A batch of transactions commits: all of a statement's items, and no others.
LEMMA createManyEffect ==
  ASSUME TypeInv, NEW s \in Statements, createMany(s)
  PROVE  /\ TypeInv' /\ Moves({}) /\ UNCHANGED budgets
         /\ \A i \in Items : Present(i)' <=> Present(i) \/ StatementOf[i] = s
<1>1. PICK chosen \in [ItemsOf(s) -> Categories] :
        category' = [i \in Items |-> IF i \in ItemsOf(s) THEN chosen[i]
                                                         ELSE category[i]]
  BY DEF createMany, InsertBatch
<1>2. \A i \in ItemsOf(s) : FitsInt4(Kobo(i))
  BY DEF createMany, InsertBatch
<1>3. Moves({}) /\ UNCHANGED budgets
  BY MovesNone DEF createMany
<1>4. category' \in [Items -> Categories \cup {None}]
  BY <1>1 DEF TypeInv
<1>5. \A i \in Items : Present(i)' <=> Present(i) \/ StatementOf[i] = s
  BY <1>1, LedgerAssumption DEF Present, ItemsOf
<1>6. \A i \in Items : Present(i)' => Kobo(i) \in (-Int4Max - 1)..Int4Max
  BY <1>2, <1>5 DEF TypeInv, ItemsOf, FitsInt4
<1> QED
  BY <1>3, <1>4, <1>5, <1>6 DEF TypeInv, Moves

LEMMA correctEffect ==
  ASSUME TypeInv, NEW i \in Items, NEW c \in Categories,
         correct(i, c)
  PROVE  /\ TypeInv' /\ Moves({}) /\ UNCHANGED budgets
         /\ \A j \in Items : Present(j)' <=> Present(j)
<1>1. Moves({}) /\ UNCHANGED budgets /\ category' = [category EXCEPT ![i] = c]
  BY MovesNone DEF correct
<1>2. category' \in [Items -> Categories \cup {None}]
  BY <1>1 DEF TypeInv
<1>3. \A j \in Items : Present(j)' <=> Present(j)
  BY <1>1, LedgerAssumption DEF Present, correct, TypeInv
<1> QED
  BY <1>1, <1>2, <1>3 DEF TypeInv, Moves

LEMMA TypeStep ==
  ASSUME TypeInv, [Next]_vars
  PROVE  TypeInv'
<1>1. ASSUME NEW r \in Requests, Send(r) PROVE TypeInv'
  BY <1>1, SendMoves, TypedMovesOnly
<1>2. ASSUME NEW r \in Requests, FindStatement(r) PROVE TypeInv'
  BY <1>2, FindStatementMoves, TypedMovesOnly
<1>3. ASSUME NEW r \in Requests, GroupByType(r) PROVE TypeInv'
  BY <1>3, GroupByTypeMoves, TypedMovesOnly
<1>4. ASSUME NEW r \in Requests, GroupByCategory(r) PROVE TypeInv'
  BY <1>4, GroupByCategoryMoves, TypedMovesOnly
<1>5. ASSUME NEW r \in Requests, FindBudgets(r) PROVE TypeInv'
  BY <1>5, FindBudgetsMoves, TypedMovesOnly
<1>6. ASSUME NEW r \in Requests, Upsert(r) PROVE TypeInv'
  <2>1. PICK row \in BudgetRows : WriteRow(r, row)
    BY <1>6, UpsertMoves
  <2>2. budgets' \in [Clients -> [Categories -> BudgetRows \cup {None}]]
    BY <1>6, <2>1, UpsertMoves, WritesOneRow
  <2> QED
    BY <1>6, <2>2, UpsertMoves, TypedMoves
<1>7. ASSUME NEW r \in Requests, Find(r) PROVE TypeInv'
  BY <1>7, FindMoves, TypedMovesOnly
<1>8. ASSUME NEW r \in Requests, Delete(r) PROVE TypeInv'
  <2>1. budgets' \in [Clients -> [Categories -> BudgetRows \cup {None}]]
    <3>1. CASE WriteRow(r, None)
      BY <1>8, <3>1, DeleteMoves, WritesOneRow
    <3>2. CASE UNCHANGED budgets
      BY <3>2 DEF TypeInv
    <3> QED
      BY <1>8, <3>1, <3>2, DeleteMoves
  <2> QED
    BY <1>8, <2>1, DeleteMoves, TypedMoves
<1>9. ASSUME NEW r \in Requests, Fail(r) PROVE TypeInv'
  BY <1>9, FailMoves, TypedMovesOnly
<1>10. CASE UNCHANGED vars
  BY <1>10 DEF vars, TypeInv, Present
<1>11. CASE Terminating
  BY <1>10, <1>11 DEF Terminating
<1> QED
  BY <1>1, <1>2, <1>3, <1>4, <1>5, <1>6, <1>7, <1>8, <1>9, <1>10, <1>11,
     createManyEffect, correctEffect
     DEF Next, Handle

LEMMA TypeInit ==
  ASSUME Init
  PROVE  TypeInv
<1>1. budgets \in [Clients -> [Categories -> BudgetRows \cup {None}]]
  BY DEF Init, BudgetRows
<1>2. Stage(Unsent) /\ Unsent \in ReqRecords
  BY UnsentIsTyped DEF Stage, Readers
<1> QED
  BY <1>1, <1>2 DEF Init, TypeInv, Present

\* What a query reads of each table has its type, and what a batch or a client
\* wrote fits its column.
THEOREM TypeCorrect == Spec => []TypeOK
<1>1. Spec => []TypeInv
  BY TypeInit, TypeStep, PTL DEF Spec
<1>2. TypeInv => TypeOK
  BY DEF TypeInv, TypeOK, BudgetRows, ReqRecords
<1> QED
  BY <1>1, <1>2, PTL

LEMMA TypeInvariant == Spec => []TypeInv
BY TypeInit, TypeStep, PTL DEF Spec

-----------------------------------------------------------------------------
(* Totals. *)

\* While statements are whole, a where clause selects whole statements.
LEMMA SelectedIsAskedFor ==
  ASSUME TypeInv, WholeStatements, NEW r \in Requests, req[r].kind \in Readers
  PROVE  Selected(r) = AskedFor(r, Committed)
<1>1. \A i \in Items : Present(i) <=> StatementOf[i] \in Committed
  <2>1. \A i \in Items : StatementOf[i] \in Statements
    BY LedgerAssumption
  <2> QED
    BY <2>1 DEF WholeStatements, Committed, ItemsOf
<1>2. CASE req[r].kind = "stats"
  <2>1. req[r].range = AnyTime
    BY <1>2 DEF TypeInv, Stage
  <2>2. \A i \in Items : InRange(Extracted[i].date, req[r].range)
    BY <2>1 DEF InRange, AnyTime
  <2> QED
    BY <1>1, <1>2, <2>2 DEF Selected, AskedFor, OwnRows
<1>3. CASE req[r].kind # "stats"
  BY <1>1, <1>3 DEF Selected, AskedFor, OwnRows, Where
<1> QED
  BY <1>2, <1>3

\* A request that asks the same and has read the same has the same totals.
LEMMA TotalsKept ==
  ASSUME NEW r \in Requests, TotalsRead(r),
         req'[r].kind = req[r].kind, req'[r].user = req[r].user,
         req'[r].statement = req[r].statement, req'[r].range = req[r].range,
         req'[r].byType = req[r].byType, req'[r].first = req[r].first,
         req'[r].pc \in {"byCategory", "answered"} =>
           req[r].pc \in {"byCategory", "answered"}
  PROVE  TotalsRead(r)'
<1>1. AskedFor(r, req[r].first)' = AskedFor(r, req[r].first)
  BY DEF AskedFor
<1> QED
  BY <1>1 DEF TotalsRead

\* Whatever the requests in W read, the others' totals stay.
LEMMA ReadMoves ==
  ASSUME ReadInv, NEW W \in SUBSET Requests, Moves(W),
         WholeStatements', \A r \in W : TotalsRead(r)'
  PROVE  ReadInv'
<1>1. ASSUME NEW r \in Requests \ W PROVE TotalsRead(r)'
  <2>1. Same(req'[r], req[r]) /\ TotalsRead(r)
    BY DEF Moves, ReadInv
  <2> QED
    BY <2>1, TotalsKept DEF Same
<1> QED
  BY <1>1 DEF ReadInv

LEMMA WholeKept ==
  ASSUME WholeStatements, UNCHANGED category
  PROVE  WholeStatements'
BY DEF WholeStatements, Present

LEMMA ReadStep ==
  ASSUME TypeInv, ReadInv, [Next]_vars
  PROVE  ReadInv'
<1>0. WholeStatements /\ \A r \in Requests : TotalsRead(r)
  BY DEF ReadInv
<1>1. ASSUME NEW r \in Requests, Send(r) PROVE ReadInv'
  <2>1. TotalsRead(r)'
    BY <1>1, SendMoves DEF TotalsRead
  <2> QED
    BY <1>0, <1>1, <2>1, SendMoves, ReadMoves, WholeKept
<1>2. ASSUME NEW r \in Requests, FindStatement(r) PROVE ReadInv'
  <2>1. TotalsRead(r)'
    BY <1>2, FindStatementMoves DEF TotalsRead, Readers
  <2> QED
    BY <1>0, <1>2, <2>1, FindStatementMoves, ReadMoves, WholeKept
<1>3. ASSUME NEW r \in Requests, GroupByType(r) PROVE ReadInv'
  <2>1. /\ Keeps(r) /\ req[r].kind \in Readers /\ req'[r].first = Committed
        /\ req'[r].byType = ByType(Selected(r))
    BY <1>3, GroupByTypeMoves
  <2>2. Selected(r) = AskedFor(r, Committed)
    BY <1>0, <2>1, SelectedIsAskedFor
  <2>3. AskedFor(r, req[r].first)' = AskedFor(r, Committed)
    BY <2>1 DEF AskedFor, Keeps
  <2>4. TotalsRead(r)'
    BY <2>1, <2>2, <2>3 DEF TotalsRead, ByType
  <2> QED
    BY <1>0, <1>3, <2>4, GroupByTypeMoves, ReadMoves, WholeKept
<1>4. ASSUME NEW r \in Requests, GroupByCategory(r) PROVE ReadInv'
  <2>1. TotalsRead(r)'
    BY <1>0, <1>4, GroupByCategoryMoves, TotalsKept DEF Keeps
  <2> QED
    BY <1>0, <1>4, <2>1, GroupByCategoryMoves, ReadMoves, WholeKept
<1>5. ASSUME NEW r \in Requests, FindBudgets(r) PROVE ReadInv'
  <2>1. TotalsRead(r)'
    BY <1>0, <1>5, FindBudgetsMoves, TotalsKept DEF Keeps
  <2> QED
    BY <1>0, <1>5, <2>1, FindBudgetsMoves, ReadMoves, WholeKept
<1>6. ASSUME NEW r \in Requests, Upsert(r) PROVE ReadInv'
  <2>1. TotalsRead(r)'
    BY <1>6, UpsertMoves DEF TotalsRead, Readers
  <2> QED
    BY <1>0, <1>6, <2>1, UpsertMoves, ReadMoves, WholeKept
<1>7. ASSUME NEW r \in Requests, Find(r) PROVE ReadInv'
  <2>1. TotalsRead(r)'
    BY <1>7, FindMoves DEF TotalsRead, Readers
  <2> QED
    BY <1>0, <1>7, <2>1, FindMoves, ReadMoves, WholeKept
<1>8. ASSUME NEW r \in Requests, Delete(r) PROVE ReadInv'
  <2>1. TotalsRead(r)'
    BY <1>8, DeleteMoves DEF TotalsRead, Readers
  <2> QED
    BY <1>0, <1>8, <2>1, DeleteMoves, ReadMoves, WholeKept
<1>9. ASSUME NEW r \in Requests, Fail(r) PROVE ReadInv'
  <2>1. TotalsRead(r)'
    BY <1>9, FailMoves DEF TotalsRead, Readers
  <2> QED
    BY <1>0, <1>9, <2>1, FailMoves, ReadMoves, WholeKept
<1>10. ASSUME NEW s \in Statements, createMany(s) PROVE ReadInv'
  <2>1. Moves({}) /\ \A i \in Items : Present(i)' <=> Present(i) \/ StatementOf[i] = s
    BY <1>10, createManyEffect
  <2>2. WholeStatements'
    BY <1>0, <2>1 DEF WholeStatements
  <2> QED
    BY <2>1, <2>2, ReadMoves
<1>11. ASSUME NEW i \in Items, NEW c \in Categories, correct(i, c) PROVE ReadInv'
  <2>1. Moves({}) /\ \A j \in Items : Present(j)' <=> Present(j)
    BY <1>11, correctEffect
  <2>2. WholeStatements'
    BY <1>0, <2>1 DEF WholeStatements
  <2> QED
    BY <2>1, <2>2, ReadMoves
<1>12. CASE UNCHANGED vars
  BY <1>0, <1>12, MovesNone, ReadMoves, WholeKept DEF vars
<1>13. CASE Terminating
  BY <1>12, <1>13 DEF Terminating
<1> QED
  BY <1>1, <1>2, <1>3, <1>4, <1>5, <1>6, <1>7, <1>8, <1>9, <1>10, <1>11, <1>12,
     <1>13 DEF Next, Handle

LEMMA ReadInit ==
  ASSUME Init
  PROVE  ReadInv
BY UnsentIsTyped DEF Init, ReadInv, WholeStatements, Present, TotalsRead, Readers

\* The totals of a statement, of an overview and of a month's budgets count
\* whole statements, for any number of items, statements and requests, however
\* batches, corrections and queries interleave.
THEOREM TotalsAreWhole == Spec => []TotalsCountWholeStatements
<1>1. ReadInv => TotalsCountWholeStatements
  BY DEF ReadInv, TotalsCountWholeStatements, TotalsRead
<1>2. Spec => []ReadInv
  BY ReadInit, ReadStep, TypeInvariant, PTL DEF Spec
<1> QED
  BY <1>1, <1>2, PTL

-----------------------------------------------------------------------------
(* Removals. *)

\* Requests in W act without writing a budget, and none of them was over.
LEMMA RemoveMoves ==
  ASSUME TypeInv, RemoveInv, NEW W \in SUBSET Requests, Moves(W),
         UNCHANGED budgets,
         \A r \in W : r \notin SpentIds /\ ~Removed(r),
         \A r \in W : /\ ~Removed(r)'
                      /\ req'[r].row # None => req'[r].row \in SpentIds
                      /\ req'[r].pc = "delete" =>
                           \/ Row(r)' # None /\ Row(r)'.id = req'[r].row
                           \/ \E q \in Requests \ W :
                                /\ Removed(q) /\ req[q].row = req'[r].row
                                /\ req[q].user = req'[r].user
                                /\ req[q].target = req'[r].target
                                /\ req'[r].kind = "remove"
                      /\ req'[r].pc = "missing" =>
                           \E q \in Requests \ W :
                                /\ Removed(q) /\ req[q].row = req'[r].row
                                /\ req[q].user = req'[r].user
                                /\ req[q].target = req'[r].target
                                /\ req'[r].kind = "remove"
  PROVE  RemoveInv'
<1>1. \A x \in Requests \ W : Same(req'[x], req[x])
  BY DEF Moves
<1>2. ASSUME NEW x, x \in SpentIds PROVE x \in SpentIds'
  <2>1. CASE x = "old"
    BY <2>1 DEF SpentIds
  <2>2. CASE x \in Requests
    <3>1. x \notin W
      BY <1>2
    <3>2. Same(req'[x], req[x])
      BY <1>1, <2>2, <3>1
    <3> QED
      BY <1>2, <2>2, <3>2 DEF SpentIds, Same
  <2> QED
    BY <1>2, <2>1, <2>2 DEF SpentIds
<1>3. \A x \in Requests \ W : (Removed(x)' <=> Removed(x)) /\ Row(x)' = Row(x)
  BY <1>1 DEF Removed, Row, Same
<1>4. ASSUME NEW x \in Requests \ W, Beaten(x) PROVE Beaten(x)'
  BY <1>1, <1>3, <1>4 DEF Beaten, SameBudget, Same
<1>5. RowIds'
  BY <1>1, <1>2 DEF RemoveInv, RowIds, Same
<1>6. RemovedOnce'
  <2> SUFFICES ASSUME NEW r \in Requests, Removed(r)'
               PROVE  /\ req'[r].row # None
                      /\ Row(r)' # None => Row(r)'.id # req'[r].row
                      /\ \A q \in Requests \ {r} :
                           SameBudget(q, r)' /\ Removed(q)' => req'[q].row # req'[r].row
    BY DEF RemovedOnce
  <2>1. r \notin W /\ Removed(r)
    BY <1>3
  <2>2. req'[r].row # None /\ (Row(r)' # None => Row(r)'.id # req'[r].row)
    BY <1>1, <1>3, <2>1 DEF RemoveInv, RemovedOnce, Same
  <2>3. ASSUME NEW q \in Requests \ {r}, SameBudget(q, r)', Removed(q)'
        PROVE  req'[q].row # req'[r].row
    <3>1. q \notin W /\ Removed(q)
      BY <1>3, <2>3
    <3>2. SameBudget(q, r)
      BY <1>1, <2>1, <2>3, <3>1 DEF SameBudget, Same
    <3> QED
      BY <1>1, <2>1, <3>1, <3>2 DEF RemoveInv, RemovedOnce, Same
  <2> QED
    BY <2>2, <2>3
<1>7. FoundOrBeaten'
  <2> SUFFICES ASSUME NEW r \in Requests
               PROVE  /\ req'[r].pc = "delete" =>
                           (Row(r)' # None /\ Row(r)'.id = req'[r].row) \/ Beaten(r)'
                      /\ req'[r].pc = "missing" => Beaten(r)'
    BY DEF FoundOrBeaten
  <2>1. CASE r \notin W
    BY <1>1, <1>3, <1>4, <2>1 DEF RemoveInv, FoundOrBeaten, Same
  <2>2. CASE r \in W
    <3>1. ASSUME NEW q \in Requests \ W, Removed(q), req[q].row = req'[r].row,
                 req[q].user = req'[r].user, req[q].target = req'[r].target,
                 req'[r].kind = "remove"
          PROVE  Beaten(r)'
      BY <1>1, <1>3, <2>2, <3>1 DEF Beaten, SameBudget, Removed, Same
    <3> QED
      BY <2>2, <3>1
  <2> QED
    BY <2>1, <2>2
<1> QED
  BY <1>5, <1>6, <1>7 DEF RemoveInv

LEMMA OpenIsNotOver ==
  ASSUME TypeInv, NEW r \in Requests, req[r].pc \in Open \cup {"unsent"}
  PROVE  r \notin SpentIds /\ ~Removed(r)
<1>1. Stage(req[r]) /\ r # "old"
  BY LedgerAssumption DEF TypeInv
<1>2. req[r].kind # "none" \/ req[r].pc = "unsent"
  BY <1>1 DEF Stage, Open, Readers
<1> QED
  BY <1>1, <1>2 DEF SpentIds, Removed, Open

\* Steps of requests that are not removals about to delete.
LEMMA RemoveMovesPast ==
  ASSUME TypeInv, RemoveInv, NEW r \in Requests, Moves({r}), UNCHANGED budgets,
         req[r].pc \in Open \cup {"unsent"}, ~Removed(r)',
         req'[r].row \in {None, req[r].row},
         req'[r].pc \notin {"delete", "missing"}
  PROVE  RemoveInv'
<1>1. r \notin SpentIds /\ ~Removed(r)
  BY OpenIsNotOver
<1>2. req'[r].row # None => req'[r].row \in SpentIds
  BY DEF RemoveInv, RowIds
<1> QED
  BY <1>1, <1>2, RemoveMoves

\* The user and the category of a removal under way or over.
LEMMA RemovalsAreTyped ==
  ASSUME TypeInv, NEW r \in Requests, req[r].kind = "remove"
  PROVE  /\ req[r].user \in Clients /\ req[r].target \in Targets
         /\ req[r].target.category \in Categories /\ req[r].target.limit = 0
         /\ Row(r) \in BudgetRows \cup {None}
<1>1. Stage(req[r])
  BY DEF TypeInv
<1>2. /\ req[r].user \in Clients /\ req[r].target \in Targets
      /\ req[r].target.limit = 0
  BY <1>1 DEF Stage
<1> QED
  BY <1>2 DEF TypeInv, Targets, Row

\* A set keeps the id of the row it finds, and its own name is new.
LEMMA UpsertRemoves ==
  ASSUME TypeInv, RemoveInv, NEW r \in Requests, Upsert(r)
  PROVE  RemoveInv'
<1>1. /\ Moves({r}) /\ req[r].kind = "set"
      /\ req[r].user \in Clients /\ req[r].target \in Targets
      /\ req'[r].kind = "none" /\ req'[r].pc \in {"answered", "failed"}
      /\ req'[r].row = None
  BY UpsertMoves
<1>2. PICK row \in BudgetRows :
        /\ WriteRow(r, row)
        /\ row.id = IF Row(r) = None THEN r ELSE Row(r).id
  BY UpsertMoves
<1> DEFINE v == req[r].user
           d == req[r].target.category
<1>3. /\ budgets'[v][d] = row
      /\ \A u \in Clients, c \in Categories :
           u # v \/ c # d => budgets'[u][c] = budgets[u][c]
  BY <1>1, <1>2, WritesOneRow
<1>4. v \in Clients /\ d \in Categories /\ row # None
  BY <1>1, LedgerAssumption DEF Targets, BudgetRows
<1>5. /\ \A x \in Requests \ {r} : Same(req'[x], req[x])
      /\ r \notin SpentIds /\ r \in SpentIds'
  BY <1>1, LedgerAssumption DEF Moves, SpentIds
<1>6. ASSUME NEW x, x \in SpentIds PROVE x \in SpentIds' /\ x # r
  <2>1. x # r
    BY <1>5, <1>6
  <2>2. CASE x = "old"
    BY <2>1, <2>2 DEF SpentIds
  <2>3. CASE x \in Requests
    <3>1. Same(req'[x], req[x])
      BY <1>5, <2>1, <2>3
    <3> QED
      BY <1>6, <2>1, <2>3, <3>1 DEF SpentIds, Same
  <2> QED
    BY <1>6, <2>2, <2>3 DEF SpentIds
\* A row that is there stays, with its id; a new one has the name of r.
<1>7. ASSUME NEW u \in Clients, NEW c \in Categories
      PROVE  /\ budgets[u][c] # None =>
                  budgets'[u][c] # None /\ budgets'[u][c].id = budgets[u][c].id
             /\ budgets[u][c] = None /\ budgets'[u][c] # None =>
                  budgets'[u][c].id = r
  <2>1. CASE u = v /\ c = d
    BY <1>2, <1>3, <1>4, <2>1 DEF Row
  <2>2. CASE u # v \/ c # d
    BY <1>3, <2>2
  <2> QED
    BY <2>1, <2>2
<1> HIDE DEF v, d
<1>8. ASSUME NEW x \in Requests, req'[x].kind = "remove"
      PROVE  /\ x # r /\ Same(req'[x], req[x]) /\ req[x].kind = "remove"
             /\ Row(x) # None => Row(x)' # None /\ Row(x)'.id = Row(x).id
             /\ Row(x) = None /\ Row(x)' # None => Row(x)'.id = r
  <2>1. x # r /\ Same(req'[x], req[x]) /\ req[x].kind = "remove"
    BY <1>1, <1>5, <1>8 DEF Same
  <2>2. req[x].user \in Clients /\ req[x].target.category \in Categories
    BY <2>1, RemovalsAreTyped
  <2>3. Row(x)' = budgets'[req[x].user][req[x].target.category]
    BY <2>1 DEF Row, Same
  <2> QED
    BY <1>7, <2>1, <2>2, <2>3 DEF Row
<1>9. RowIds'
  <2>1. ASSUME NEW u \in Clients, NEW c \in Categories, budgets'[u][c] # None
        PROVE  budgets'[u][c].id \in SpentIds'
    <3>1. CASE budgets[u][c] # None
      BY <1>6, <1>7, <3>1 DEF RemoveInv, RowIds
    <3>2. CASE budgets[u][c] = None
      BY <1>5, <1>7, <2>1, <3>2
    <3> QED
      BY <3>1, <3>2
  <2>2. ASSUME NEW x \in Requests, req'[x].row # None
        PROVE  req'[x].row \in SpentIds'
    <3>1. x # r /\ req'[x].row = req[x].row
      BY <1>1, <1>5, <2>2 DEF Same
    <3>2. req[x].row \in SpentIds
      BY <2>2, <3>1 DEF RemoveInv, RowIds
    <3> QED
      BY <1>6, <3>1, <3>2
  <2> QED
    BY <2>1, <2>2 DEF RowIds
<1>10. RemovedOnce'
  <2> SUFFICES ASSUME NEW x \in Requests, Removed(x)'
               PROVE  /\ req'[x].row # None
                      /\ Row(x)' # None => Row(x)'.id # req'[x].row
                      /\ \A q \in Requests \ {x} :
                           SameBudget(q, x)' /\ Removed(q)' => req'[q].row # req'[x].row
    BY DEF RemovedOnce
  <2>1. ASSUME NEW y \in Requests, Removed(y)'
        PROVE  /\ y # r /\ Removed(y) /\ Same(req'[y], req[y])
               /\ Row(y) # None => Row(y)' # None /\ Row(y)'.id = Row(y).id
               /\ Row(y) = None /\ Row(y)' # None => Row(y)'.id = r
    BY <1>8, <2>1 DEF Removed, Same
  <2>2. req[x].row # None /\ req'[x].row = req[x].row /\ req[x].row # r
    BY <1>5, <2>1 DEF RemoveInv, RemovedOnce, RowIds, Same
  <2>3. Row(x)' # None => Row(x)'.id # req'[x].row
    BY <2>1, <2>2 DEF RemoveInv, RemovedOnce
  <2>4. ASSUME NEW q \in Requests \ {x}, SameBudget(q, x)', Removed(q)'
        PROVE  req'[q].row # req'[x].row
    <3>1. Removed(q) /\ SameBudget(q, x)
      BY <2>1, <2>4 DEF SameBudget, Same
    <3> QED
      BY <2>1, <2>4, <3>1 DEF RemoveInv, RemovedOnce, Same
  <2> QED
    BY <2>2, <2>3, <2>4
<1>11. FoundOrBeaten'
  <2> SUFFICES ASSUME NEW x \in Requests, req'[x].pc \in {"delete", "missing"}
               PROVE  /\ req'[x].pc = "delete" =>
                           (Row(x)' # None /\ Row(x)'.id = req'[x].row) \/ Beaten(x)'
                      /\ req'[x].pc = "missing" => Beaten(x)'
    BY DEF FoundOrBeaten
  <2>1. Same(req'[x], req[x]) /\ req[x].kind = "remove" /\ req'[x].kind = "remove"
    <3>1. x # r /\ Same(req'[x], req[x])
      BY <1>1, <1>5
    <3> QED
      BY <3>1 DEF Same, TypeInv, Stage
  <2>2. Beaten(x) => Beaten(x)'
    <3>1. ASSUME NEW q \in Requests, Removed(q), SameBudget(q, x),
                 req[q].row = req[x].row
          PROVE  Removed(q)' /\ SameBudget(q, x)' /\ req'[q].row = req'[x].row
      <4>1. Same(req'[q], req[q])
        BY <1>1, <1>5, <3>1 DEF Removed
      <4> QED
        BY <2>1, <3>1, <4>1 DEF Removed, SameBudget, Same
    <3> QED
      BY <3>1 DEF Beaten
  <2> QED
    BY <1>8, <2>1, <2>2 DEF RemoveInv, FoundOrBeaten, Same
<1> QED
  BY <1>9, <1>10, <1>11 DEF RemoveInv

\* A delete that finds the row beats every other removal that had found it.
LEMMA DeleteRemoves ==
  ASSUME TypeInv, RemoveInv, NEW r \in Requests, Delete(r)
  PROVE  RemoveInv'
<1>1. /\ Moves({r}) /\ req[r].kind = "remove" /\ req[r].pc = "delete"
      /\ req[r].user \in Clients /\ req[r].target \in Targets
      /\ req'[r].kind = "remove"
      /\ req'[r].user = req[r].user /\ req'[r].target = req[r].target
  BY DeleteMoves
<1>2. \A x \in Requests \ {r} : Same(req'[x], req[x])
  BY <1>1 DEF Moves
<1>3. r \notin SpentIds /\ ~Removed(r)
  BY <1>1, OpenIsNotOver DEF Open
<1>4. CASE /\ Row(r) = None /\ UNCHANGED budgets
           /\ req'[r].pc = "missing" /\ req'[r].row = req[r].row
  <2>1. PICK q \in Requests \ {r} :
          SameBudget(q, r) /\ Removed(q) /\ req[q].row = req[r].row
    BY <1>1, <1>4 DEF RemoveInv, FoundOrBeaten, Beaten
  <2>2. /\ Removed(q) /\ req[q].row = req'[r].row
        /\ req[q].user = req'[r].user /\ req[q].target = req'[r].target
    BY <1>1, <1>4, <2>1 DEF SameBudget
  <2>3. ~Removed(r)' /\ (req'[r].row # None => req'[r].row \in SpentIds)
    BY <1>4 DEF Removed, RemoveInv, RowIds
  <2>4. req'[r].pc = "missing" /\ q \in Requests \ {r}
    BY <1>4
  <2> QED
    BY <1>1, <1>3, <1>4, <2>2, <2>3, <2>4, RemoveMoves
<1>5. CASE /\ Row(r) # None /\ WriteRow(r, None)
           /\ req'[r].pc \in {"answered", "failed"}
           /\ req'[r].row = Row(r).id
  <2> DEFINE v == req[r].user
             d == req[r].target.category
  <2>1. /\ budgets'[v][d] = None
        /\ \A u \in Clients, c \in Categories :
             u # v \/ c # d => budgets'[u][c] = budgets[u][c]
    BY <1>1, <1>5, WritesOneRow
  <2>2. /\ v \in Clients /\ d \in Categories
        /\ Row(r) \in BudgetRows /\ Row(r).id # None
    BY <1>1, <1>5, RemovalsAreTyped, LedgerAssumption DEF BudgetRows
  <2>3. Row(r).id \in SpentIds
    BY <1>5, <2>2 DEF RemoveInv, RowIds, Row
  <2>4. ASSUME NEW x, x \in SpentIds PROVE x \in SpentIds'
    BY <1>2, <1>3, <2>4 DEF SpentIds, Same
  <2>5. Row(r)' = None /\ Removed(r)'
    BY <1>1, <1>5, <2>1 DEF Row, Removed
  <2>6. ASSUME NEW x \in Requests \ {r}, req'[x].kind = "remove"
        PROVE  /\ Same(req'[x], req[x]) /\ req[x].kind = "remove"
               /\ SameBudget(x, r) /\ SameBudget(r, x)
                    => Row(x) = Row(r) /\ Row(x)' = None
               /\ ~SameBudget(r, x) => Row(x)' = Row(x)
    <3>1. Same(req'[x], req[x]) /\ req[x].kind = "remove"
      BY <1>2, <2>6 DEF Same
    <3>2. /\ req[x].user \in Clients /\ req[x].target.category \in Categories
          /\ req[x].target \in Targets /\ req[x].target.limit = 0
          /\ req[r].target.limit = 0
      BY <1>1, <3>1, RemovalsAreTyped
    <3>3. Row(x)' = budgets'[req[x].user][req[x].target.category]
      BY <3>1 DEF Row, Same
    <3>4. CASE SameBudget(r, x)
      BY <1>1, <2>1, <3>1, <3>3, <3>4 DEF SameBudget, Row
    <3>5. CASE ~SameBudget(r, x)
      <4>1. req[x].target # req[r].target =>
              req[x].target.category # req[r].target.category
        BY <1>1, <3>2 DEF Targets
      <4>2. req[x].user # v \/ req[x].target.category # d
        BY <1>1, <3>1, <3>5, <4>1 DEF SameBudget
      <4> QED
        BY <2>1, <3>1, <3>2, <3>3, <3>5, <4>2 DEF Row, SameBudget
    <3> QED
      BY <3>1, <3>4, <3>5
  <2> HIDE DEF v, d
  <2>7. RowIds'
    <3>1. ASSUME NEW u \in Clients, NEW c \in Categories, budgets'[u][c] # None
          PROVE  budgets'[u][c].id \in SpentIds'
      BY <2>1, <2>4, <3>1 DEF RemoveInv, RowIds
    <3>2. ASSUME NEW x \in Requests, req'[x].row # None
          PROVE  req'[x].row \in SpentIds'
      BY <1>2, <1>5, <2>3, <2>4, <3>2 DEF RemoveInv, RowIds, Same
    <3> QED
      BY <3>1, <3>2 DEF RowIds
  <2>8. ASSUME NEW x \in Requests \ {r}, Removed(x)'
        PROVE  /\ Removed(x) /\ req[x].row # None
               /\ req'[x].row = req[x].row
               /\ Row(x)' # None => Row(x)'.id # req'[x].row
               /\ SameBudget(r, x)' => req'[r].row # req'[x].row
               /\ SameBudget(x, r)' => req'[r].row # req'[x].row
    <3>1. Removed(x) /\ req'[x].row = req[x].row
      BY <2>6, <2>8 DEF Removed, Same
    <3>2. req[x].row # None /\ (Row(x) # None => Row(x).id # req[x].row)
      BY <3>1 DEF RemoveInv, RemovedOnce
    <3>3. Row(x)' = Row(x) \/ Row(x)' = None
      BY <2>6, <2>8, <1>1 DEF SameBudget, Removed
    <3>4. SameBudget(r, x)' \/ SameBudget(x, r)' => Row(x) = Row(r)
      BY <1>1, <2>6, <2>8 DEF SameBudget, Removed, Same
    <3> QED
      BY <1>5, <3>1, <3>2, <3>3, <3>4
  <2>9. RemovedOnce'
    <3> SUFFICES ASSUME NEW x \in Requests, Removed(x)'
                 PROVE  /\ req'[x].row # None
                        /\ Row(x)' # None => Row(x)'.id # req'[x].row
                        /\ \A q \in Requests \ {x} :
                             SameBudget(q, x)' /\ Removed(q)' => req'[q].row # req'[x].row
      BY DEF RemovedOnce
    <3>1. CASE x = r
      BY <1>5, <2>2, <2>5, <2>8, <3>1
    <3>2. CASE x # r
      <4>1. ASSUME NEW q \in Requests \ {x}, SameBudget(q, x)', Removed(q)'
            PROVE  req'[q].row # req'[x].row
        <5>1. CASE q = r
          BY <2>8, <3>2, <4>1, <5>1
        <5>2. CASE q # r
          <6>1. Removed(q) /\ Removed(x) /\ SameBudget(q, x)
            BY <1>2, <2>8, <3>2, <4>1, <5>2 DEF SameBudget, Same
          <6> QED
            BY <2>8, <3>2, <4>1, <5>2, <6>1 DEF RemoveInv, RemovedOnce
        <5> QED
          BY <5>1, <5>2
      <4> QED
        BY <2>8, <3>2, <4>1
    <3> QED
      BY <3>1, <3>2
  <2>10. FoundOrBeaten'
    <3> SUFFICES ASSUME NEW x \in Requests, req'[x].pc \in {"delete", "missing"}
                 PROVE  /\ req'[x].pc = "delete" =>
                             (Row(x)' # None /\ Row(x)'.id = req'[x].row) \/ Beaten(x)'
                        /\ req'[x].pc = "missing" => Beaten(x)'
      BY DEF FoundOrBeaten
    <3>1. x # r /\ Same(req'[x], req[x])
      BY <1>2, <1>5
    <3>2. req[x].kind = "remove" /\ req'[x].kind = "remove"
      BY <3>1 DEF Same, TypeInv, Stage
    <3>3. Beaten(x) => Beaten(x)'
      <4>1. ASSUME NEW q \in Requests, Removed(q), SameBudget(q, x),
                   req[q].row = req[x].row
            PROVE  Removed(q)' /\ SameBudget(q, x)' /\ req'[q].row = req'[x].row
        <5>1. Same(req'[q], req[q])
          BY <1>2, <1>3, <4>1
        <5> QED
          BY <3>1, <4>1, <5>1 DEF Removed, SameBudget, Same
      <4> QED
        BY <4>1 DEF Beaten
    <3>4. CASE Row(x) # None /\ Row(x).id = req[x].row /\ SameBudget(r, x)
      <4>1. Row(x) = Row(r)
        BY <3>4 DEF SameBudget, Row
      <4>2. req'[r].row = req'[x].row
        BY <1>5, <3>1, <3>4, <4>1 DEF Same
      <4>3. SameBudget(r, x)'
        BY <1>1, <3>1, <3>4 DEF SameBudget, Same
      <4>4. Beaten(x)'
        BY <2>5, <3>1, <4>2, <4>3 DEF Beaten
      <4> QED
        BY <4>4
    <3>5. CASE Row(x) # None /\ Row(x).id = req[x].row /\ ~SameBudget(r, x)
      <4>1. Row(x)' = Row(x)
        BY <2>6, <3>1, <3>2, <3>5
      <4> QED
        BY <3>1, <3>3, <3>5, <4>1 DEF RemoveInv, FoundOrBeaten, Same
    <3> QED
      BY <3>1, <3>3, <3>4, <3>5 DEF RemoveInv, FoundOrBeaten, Same
  <2> QED
    BY <2>7, <2>9, <2>10 DEF RemoveInv
<1> QED
  BY <1>4, <1>5, DeleteMoves

LEMMA RemoveStep ==
  ASSUME TypeInv, RemoveInv, [Next]_vars
  PROVE  RemoveInv'
<1> USE DEF Open
<1>1. ASSUME NEW r \in Requests, Send(r) PROVE RemoveInv'
  BY <1>1, SendMoves, RemoveMovesPast DEF Removed
<1>2. ASSUME NEW r \in Requests, FindStatement(r) PROVE RemoveInv'
  BY <1>2, FindStatementMoves, RemoveMovesPast DEF Removed, Readers, FindStatement
<1>3. ASSUME NEW r \in Requests, GroupByType(r) PROVE RemoveInv'
  BY <1>3, GroupByTypeMoves, RemoveMovesPast
     DEF Removed, Readers, GroupByType, Keeps
<1>4. ASSUME NEW r \in Requests, GroupByCategory(r) PROVE RemoveInv'
  <2>1. Moves({r}) /\ Keeps(r) /\ req[r].kind \in Readers /\ req[r].pc = "byCategory"
    BY <1>4, GroupByCategoryMoves
  <2>2. Stage(req'[r])
    BY <2>1 DEF Moves
  <2>3. req'[r].pc \notin {"delete", "missing"} /\ ~Removed(r)'
    BY <2>1, <2>2 DEF Stage, Keeps, Readers, Removed
  <2> QED
    BY <1>4, <2>1, <2>3, GroupByCategoryMoves, RemoveMovesPast DEF Keeps
<1>5. ASSUME NEW r \in Requests, FindBudgets(r) PROVE RemoveInv'
  <2>1. Moves({r}) /\ Keeps(r) /\ req[r].kind \in Readers
    BY <1>5, FindBudgetsMoves
  <2>2. Stage(req'[r])
    BY <2>1 DEF Moves
  <2>3. req'[r].pc \notin {"delete", "missing"} /\ ~Removed(r)'
    BY <2>1, <2>2 DEF Stage, Keeps, Readers, Removed
  <2> QED
    BY <1>5, <2>1, <2>3, FindBudgetsMoves, RemoveMovesPast DEF Keeps, FindBudgets
<1>6. ASSUME NEW r \in Requests, Find(r) PROVE RemoveInv'
  <2>1. /\ Moves({r}) /\ req[r].pc = "find" /\ req[r].kind = "remove"
        /\ UNCHANGED budgets
    BY <1>6, FindMoves
  <2>2. CASE req'[r].kind = "none" /\ req'[r].row = None
    <3>1. Stage(req'[r])
      BY <2>1 DEF Moves
    <3>2. req'[r].pc \notin {"delete", "missing"} /\ ~Removed(r)'
      BY <2>2, <3>1 DEF Stage, Removed
    <3> QED
      BY <2>1, <2>2, <3>2, RemoveMovesPast
  <2>3. CASE /\ req'[r].kind = "remove" /\ req'[r].pc = "delete"
             /\ req'[r].user = req[r].user /\ req'[r].target = req[r].target
             /\ Row(r) # None /\ req'[r].row = Row(r).id
    <3>1. Row(r)' = Row(r)
      BY <2>1, <2>3 DEF Row
    <3>2. Row(r).id \in SpentIds
      BY <2>1, <2>3, RemovalsAreTyped DEF RemoveInv, RowIds, Row
    <3>3. ~Removed(r)' /\ r \notin SpentIds /\ ~Removed(r)
      BY <2>1, <2>3, OpenIsNotOver DEF Removed
    <3> QED
      BY <2>1, <2>3, <3>1, <3>2, <3>3, RemoveMoves
  <2> QED
    BY <1>6, <2>2, <2>3, FindMoves
<1>7. ASSUME NEW r \in Requests, Fail(r) PROVE RemoveInv'
  <2>1. Moves({r}) /\ req'[r].kind = "none" /\ req[r].pc \in Open
    BY <1>7, FailMoves
  <2>2. Stage(req'[r])
    BY <2>1 DEF Moves
  <2>3. req'[r].pc \notin {"delete", "missing"} /\ ~Removed(r)'
    BY <2>1, <2>2 DEF Stage, Removed
  <2> QED
    BY <1>7, <2>1, <2>3, FailMoves, RemoveMovesPast
<1>8. ASSUME Moves({}), UNCHANGED budgets PROVE RemoveInv'
  BY <1>8, RemoveMoves
<1>9. CASE UNCHANGED vars
  BY <1>8, <1>9, MovesNone DEF vars
<1>10. CASE Terminating
  BY <1>9, <1>10 DEF Terminating
<1> QED
  BY <1>1, <1>2, <1>3, <1>4, <1>5, <1>6, <1>7, <1>8, <1>9, <1>10,
     UpsertRemoves, DeleteRemoves, createManyEffect, correctEffect
     DEF Next, Handle

LEMMA RemoveInit ==
  ASSUME Init
  PROVE  RemoveInv
<1>1. \A r \in Requests : req[r].row = None /\ req[r].pc = "unsent"
  BY UnsentIsTyped DEF Init
<1>2. \A u \in Clients, c \in Categories :
        budgets[u][c] # None => budgets[u][c].id = "old"
  BY DEF Init
<1> QED
  BY <1>1, <1>2 DEF RemoveInv, RowIds, SpentIds, RemovedOnce, Removed, FoundOrBeaten

LEMMA RemoveInvariant == Spec => []RemoveInv
BY RemoveInit, RemoveStep, TypeInvariant, PTL DEF Spec

\* Every answered removal deleted a row of its own, which is gone, for any
\* number of users, categories and requests that set and remove budgets.
THEOREM RemovedForGood == Spec => []RemovalsAreReal
<1>1. RemoveInv => RemovalsAreReal
  BY DEF RemoveInv, RemovedOnce, RemovalsAreReal, Removed, SameBudget
<1> QED
  BY <1>1, RemoveInvariant, PTL

\* A removal that fails for want of its row lost it to another removal, and to
\* nothing else.
THEOREM LostToAnother == Spec => []LostRemovalHasWinner
<1>1. RemoveInv => LostRemovalHasWinner
  BY DEF RemoveInv, FoundOrBeaten, Beaten, Removed, LostRemovalHasWinner
<1> QED
  BY <1>1, RemoveInvariant, PTL
=============================================================================
