------------------------------- MODULE Ledger -------------------------------
(***************************************************************************)
(* The transactions and budgets tables, and the requests that read and     *)
(* compare them: the dashboard's overview, the stats of a statement, the   *)
(* budgets of a month with what was spent, setting and removing a budget.  *)
(* Batches of transactions and corrections of categories commit meanwhile. *)
(* Each action is one query: the database runs READ COMMITTED, so every    *)
(* query of a handler, and of a $transaction, sees what is committed then. *)
(***************************************************************************)
EXTENDS Calendar, FiniteSets, FiniteSetsExt

CONSTANTS
  Users, Categories, Statements, Requests,
  Clients,       \* the users who send requests
  Reading,       \* the requests that may read: one that does affects no other
  Items,         \* the items Gemini extracts, one transaction each
  OwnerOf,       \* [Statements -> Users]
  StatementOf,   \* [Items -> Statements]
  Extracted,     \* [Items -> [date, type, amount]], the amount in tenths of a kobo
  Ranges,        \* the date ranges clients ask for: [from, to], either may be None
  Months,        \* the months clients ask for: [year, month]
  Now,           \* the time, for clients that name no month
  Limits,        \* the monthly limits clients set
  Int4Max,       \* the largest int4
  None

ASSUME LedgerAssumption ==
  /\ Clients \subseteq Users /\ Reading \subseteq Requests
  /\ OwnerOf \in [Statements -> Users]
  /\ StatementOf \in [Items -> Statements]
  /\ Extracted \in [Items -> [date : Int, type : {"debit", "credit"}, amount : Int]]
  /\ \A s \in Statements : IsFiniteSet({i \in Items : StatementOf[i] = s})
  /\ IsFiniteSet(Categories)
  /\ Months \subseteq [year : Nat, month : 1..12] /\ Now \in Int
  /\ Limits \subseteq Nat \ {0}
  /\ Int4Max \in Nat
  /\ None \notin Int \cup Users \cup Items \cup Requests \cup Statements
                \cup Categories \cup {"old"}
                \cup [id : Requests \cup {"old"}, limit : Limits]
  /\ "old" \notin Requests

VARIABLES
  category,   \* transactions.category, None for an item that has no row
  budgets,    \* Budget rows: [id, limit] of each user and category, or None
  req         \* what each request is doing

vars == <<category, budgets, req>>

-----------------------------------------------------------------------------
(* Amounts. *)

\* Math.round(amount * 100)
toKobo(amount) == (amount + 5) \div 10

Kobo(i) == toKobo(Extracted[i].amount)

\* Slip: a column of any width.
FitsAnyColumn(n) == n \in Int

FitsInt4(n) == n \in (-Int4Max - 1)..Int4Max

\* _sum (a bigint) and _count of a group.
Group(S) == [sum |-> MapThenSumSet(Kobo, S), count |-> Cardinality(S)]

-----------------------------------------------------------------------------
(* The where clauses. *)

ItemsOf(s) == {i \in Items : StatementOf[i] = s}
Present(i) == category[i] # None

\* Slip: lt for lte.
BeforeEnd(date, range) ==
  /\ range.from = None \/ date >= range.from
  /\ range.to = None \/ date < range.to

InRange(date, range) ==
  /\ range.from = None \/ date >= range.from
  /\ range.to = None \/ date <= range.to

\* Slip: every user's rows.
AnyOwner(u) == {i \in Items : Present(i)}

OwnRows(u) == {i \in Items : Present(i) /\ OwnerOf[StatementOf[i]] = u}

Where(u, range) == {i \in OwnRows(u) : InRange(Extracted[i].date, range)}

ByType(S) == [t \in {"debit", "credit"} |->
                Group({i \in S : Extracted[i].type = t})]

ByCategory(S) == [c \in Categories |-> Group({i \in S : category[i] = c})]

-----------------------------------------------------------------------------
(* Requests. *)

Readers == {"overview", "stats", "budgets"}
Kinds   == Readers \cup {"set", "remove"}

Pcs == {"unsent", "lookup", "byType", "byCategory", "upsert", "find", "delete",
        "answered", "notFound", "missing", "failed"}
Open == {"lookup", "byType", "byCategory", "upsert", "find", "delete"}

AnyTime == [from |-> None, to |-> None]
NoMonth == [year |-> 0, month |-> 0]

Unsent == [kind |-> "none", pc |-> "unsent", user |-> None,
           statement |-> None, range |-> AnyTime, month |-> NoMonth,
           target |-> None, byType |-> None, byCategory |-> None,
           own |-> None, row |-> None, first |-> {}, second |-> {},
           quiet |-> TRUE]

Committed == {s \in Statements : \A i \in ItemsOf(s) : Present(i)}

TypeOK ==
  /\ category \in [Items -> Categories \cup {None}]
  /\ \A i \in Items : Present(i) => Kobo(i) \in (-Int4Max - 1)..Int4Max
  /\ \A u \in Clients, c \in Categories : budgets[u][c] # None =>
       budgets[u][c].limit \in Limits /\ budgets[u][c].limit <= Int4Max
  /\ \A r \in Requests :
       /\ req[r].kind \in Kinds \cup {"none"} /\ req[r].pc \in Pcs
       /\ req[r].user \in Clients \cup {None}
       /\ req[r].first \subseteq Statements /\ req[r].second \subseteq Statements

Init ==
  /\ category = [i \in Items |-> None]
  /\ budgets \in [Clients -> [Categories -> {None} \cup
                   {[id |-> "old", limit |-> l] : l \in {n \in Limits : n <= Int4Max}}]]
  /\ req = [r \in Requests |-> Unsent]

Goto(r, label) == req' = [req EXCEPT ![r].pc = label]

\* A request whose answer has no data is forgotten.
Ended(label) == [Unsent EXCEPT !.pc = label]

End(r, label) == req' = [req EXCEPT ![r] = Ended(label)]

\* Something was written: the listings of budgets under way are not quiet.
Disturb(q) ==
  [x \in Requests |-> IF q[x].kind = "budgets" /\ q[x].pc \in Open
                      THEN [q[x] EXCEPT !.quiet = FALSE] ELSE q[x]]

-----------------------------------------------------------------------------
(* What the worker and PATCH :id/category commit (StatementPipeline and      *)
(* Corrections have the handlers around these writes).                       *)

\* Slip: the rows are created one by one.
InsertEach(s) ==
  \E i \in ItemsOf(s), c \in Categories :
    /\ ~Present(i) /\ FitsInt4(Kobo(i))
    /\ category' = [category EXCEPT ![i] = c]

\* One INSERT: all the rows, or none when an amount does not fit.
InsertBatch(s) ==
  /\ ItemsOf(s) # {}
  /\ \A i \in ItemsOf(s) : ~Present(i) /\ FitsInt4(Kobo(i))
  /\ \E chosen \in [ItemsOf(s) -> Categories] :
       category' = [i \in Items |-> IF i \in ItemsOf(s) THEN chosen[i]
                                                        ELSE category[i]]

createMany(s) ==
  /\ InsertBatch(s)
  /\ req' = Disturb(req)
  /\ UNCHANGED budgets

correct(i, c) ==
  /\ Present(i) /\ category[i] # c
  /\ category' = [category EXCEPT ![i] = c]
  /\ req' = Disturb(req)
  /\ UNCHANGED budgets

-----------------------------------------------------------------------------
(* The overview, the stats of a statement and the budgets of a month. *)

SendOverview(r) ==
  /\ req[r].pc = "unsent"
  /\ \E u \in Clients, range \in Ranges :
       req' = [req EXCEPT ![r] = [Unsent EXCEPT
                 !.kind = "overview", !.pc = "byType", !.user = u, !.range = range]]
  /\ UNCHANGED <<category, budgets>>

SendStats(r) ==
  /\ req[r].pc = "unsent"
  /\ \E u \in Clients, s \in Statements :
       req' = [req EXCEPT ![r] = [Unsent EXCEPT
                 !.kind = "stats", !.pc = "lookup", !.user = u, !.statement = s]]
  /\ UNCHANGED <<category, budgets>>

\* month ? getMonthRange(month) : getCurrentMonthRange()
SendBudgets(r) ==
  /\ req[r].pc = "unsent"
  /\ \E u \in Clients :
       \/ \E m \in Months :
            req' = [req EXCEPT ![r] = [Unsent EXCEPT
                      !.kind = "budgets", !.pc = "byType", !.user = u, !.month = m,
                      !.range = getMonthRange(m.year, m.month)]]
       \/ req' = [req EXCEPT ![r] = [Unsent EXCEPT
                      !.kind = "budgets", !.pc = "byType", !.user = u,
                      !.month = MonthOf(Now), !.range = getCurrentMonthRange(Now)]]
  /\ UNCHANGED <<category, budgets>>

\* findByIdForUser
FindStatement(r) ==
  /\ req[r].pc = "lookup"
  /\ IF OwnerOf[req[r].statement] = req[r].user THEN Goto(r, "byType")
                                                ELSE End(r, "notFound")
  /\ UNCHANGED <<category, budgets>>

\* The rows a request's groupBy is over.
Selected(r) ==
  IF req[r].kind = "stats"
  THEN {i \in OwnRows(req[r].user) : StatementOf[i] = req[r].statement}
  ELSE Where(req[r].user, req[r].range)

\* groupBy({ by: ['type'] }): all that getStats reads.
GroupByType(r) ==
  /\ req[r].pc = "byType"
  /\ req' = [req EXCEPT ![r].byType = ByType(Selected(r)), ![r].first = Committed,
                        ![r].pc = IF req[r].kind = "stats" THEN "answered"
                                                           ELSE "byCategory"]
  /\ UNCHANGED <<category, budgets>>

\* Slip: the second query of the overview leaves out the range.
SelectedEver(r) == OwnRows(req[r].user)

\* groupBy({ by: ['category'] }) over the same where.
Categorized(r) == Selected(r)

\* The overview is answered; Promise.all of the budgets may still wait.
GroupByCategory(r) ==
  /\ req[r].pc = "byCategory"
  /\ req[r].byCategory = None
  /\ req' = [req EXCEPT ![r].byCategory = ByCategory(Categorized(r)),
                        ![r].second = Committed,
                        ![r].pc = IF req[r].kind = "overview" \/ req[r].own # None
                                  THEN "answered" ELSE "byCategory"]
  /\ UNCHANGED <<category, budgets>>

\* budgetsRepository.findAllForUser, issued beside the overview.
FindBudgets(r) ==
  /\ req[r].kind = "budgets" /\ req[r].pc \in Open
  /\ req[r].own = None
  /\ req' = [req EXCEPT ![r].own = budgets[req[r].user],
                        ![r].pc = IF req[r].byCategory # None THEN "answered" ELSE @]
  /\ UNCHANGED <<category, budgets>>

\* What the answer says was spent on category c.
spent(r, c) == req[r].byCategory[c].sum

-----------------------------------------------------------------------------
(* Setting and removing a budget. *)

SendSet(r) ==
  /\ req[r].pc = "unsent"
  /\ \E u \in Clients, c \in Categories, l \in Limits :
       req' = [req EXCEPT ![r] = [Unsent EXCEPT
                 !.kind = "set", !.pc = "upsert", !.user = u,
                 !.target = [category |-> c, limit |-> l]]]
  /\ UNCHANGED <<category, budgets>>

SendRemove(r) ==
  /\ req[r].pc = "unsent"
  /\ \E u \in Clients, c \in Categories :
       req' = [req EXCEPT ![r] = [Unsent EXCEPT
                 !.kind = "remove", !.pc = "find", !.user = u,
                 !.target = [category |-> c, limit |-> 0]]]
  /\ UNCHANGED <<category, budgets>>

Row(r) == budgets[req[r].user][req[r].target.category]

WriteRow(r, row) ==
  budgets' = [budgets EXCEPT ![req[r].user][req[r].target.category] = row]

\* INSERT ... ON CONFLICT (userId, category) DO UPDATE: the row keeps its id.
Upsert(r) ==
  /\ req[r].pc = "upsert"
  /\ req[r].target.limit <= Int4Max
  /\ WriteRow(r, [id |-> IF Row(r) = None THEN r ELSE Row(r).id,
                  limit |-> req[r].target.limit])
  /\ \E answer \in {"answered", "failed"} :
       req' = Disturb([req EXCEPT ![r] = Ended(answer)])
  /\ UNCHANGED category

\* Slip: the row that was found is not looked at.
FindAny(r) == Goto(r, "delete")

\* findUnique: 404, or on to the delete.
FindOne(r) ==
  IF Row(r) = None THEN End(r, "notFound")
  ELSE req' = [req EXCEPT ![r].pc = "delete", ![r].row = Row(r).id]

Find(r) ==
  /\ req[r].pc = "find"
  /\ FindOne(r)
  /\ UNCHANGED <<category, budgets>>

\* Slip: deleteMany, which is content to delete nothing.
DeleteMany(r) ==
  /\ WriteRow(r, None)
  /\ \E answer \in {"answered", "failed"} :
       req' = Disturb([req EXCEPT ![r].pc = answer])

\* delete by the unique (userId, category): the row that is there by then, or
\* an error when there is none.  The answer of the database may be lost.
DeleteRow(r) ==
  \/ /\ Row(r) # None
     /\ WriteRow(r, None)
     /\ \E answer \in {"answered", "failed"} :
          req' = Disturb([req EXCEPT ![r].pc = answer, ![r].row = Row(r).id])
  \/ /\ Row(r) = None
     /\ Goto(r, "missing")
     /\ UNCHANGED budgets

Delete(r) ==
  /\ req[r].pc = "delete"
  /\ DeleteRow(r)
  /\ UNCHANGED category

\* A query fails, or the limit does not fit its column.
Fail(r) ==
  /\ req[r].pc \in Open
  /\ End(r, "failed")
  /\ UNCHANGED <<category, budgets>>

-----------------------------------------------------------------------------
Send(r) == \/ r \in Reading /\ (SendOverview(r) \/ SendStats(r) \/ SendBudgets(r))
           \/ SendSet(r) \/ SendRemove(r)

Handle(r) == \/ FindStatement(r) \/ GroupByType(r) \/ GroupByCategory(r)
             \/ FindBudgets(r) \/ Upsert(r) \/ Find(r) \/ Delete(r) \/ Fail(r)

Terminating ==
  /\ \A r \in Requests : req[r].pc \notin Open \cup {"unsent"}
  /\ UNCHANGED vars

Next ==
  \/ \E s \in Statements : createMany(s)
  \/ \E i \in Items, c \in Categories : correct(i, c)
  \/ \E r \in Requests : Send(r) \/ Handle(r)
  \/ Terminating

Spec == Init /\ [][Next]_vars

-----------------------------------------------------------------------------
(* Properties. *)

\* The items of the given statements that request r asks about.
AskedFor(r, statements) ==
  {i \in Items : /\ StatementOf[i] \in statements
                 /\ OwnerOf[StatementOf[i]] = req[r].user
                 /\ req[r].kind = "stats" => StatementOf[i] = req[r].statement
                 /\ InRange(Extracted[i].date, req[r].range)}

\* The totals of a statement and of an overview count whole statements: every
\* item of those that were committed when the totals were read, in the range
\* and of the user who asks, and nothing of any other.
TotalsCountWholeStatements ==
  \A r \in Requests : req[r].pc = "answered" /\ req[r].kind \in Readers =>
    \A t \in {"debit", "credit"} :
      req[r].byType[t] =
        Group({i \in AskedFor(r, req[r].first) : Extracted[i].type = t})

SumOver(groups) == [sum   |-> MapThenSumSet(LAMBDA g : groups[g].sum, DOMAIN groups),
                    count |-> MapThenSumSet(LAMBDA g : groups[g].count, DOMAIN groups)]

\* An overview adds up: its categories sum to its totals, whatever is
\* corrected between the two queries, but for the statements that were
\* committed between them, which only the categories count.
OverviewAddsUp ==
  \A r \in Requests :
    req[r].pc = "answered" /\ req[r].kind \in {"overview", "budgets"} =>
      LET types == SumOver(req[r].byType)
          late  == Group(AskedFor(r, req[r].second \ req[r].first))
      IN  SumOver(req[r].byCategory) =
            [sum |-> types.sum + late.sum, count |-> types.count + late.count]

\* Spend is compared over a single calendar month (README): when nothing was
\* written while it ran, a listing of budgets has the budgets that are there,
\* and for every category what the transactions of that month come to.  The
\* years before 100 are taken for others.
SpentIsOfMonth ==
  [][\A r \in Requests :
       req[r].pc \in Open /\ req'[r].pc = "answered" /\ req[r].kind = "budgets"
         /\ req[r].quiet /\ req[r].month.year >= 100 =>
           /\ req'[r].own = budgets[req[r].user]
           /\ \A c \in Categories :
                spent(r, c)' =
                  Group({i \in OwnRows(req[r].user) :
                           /\ category[i] = c
                           /\ MonthOf(Extracted[i].date) = req[r].month}).sum]_vars

\* Removals of the same user's budget of one category.
SameBudget(q, r) ==
  /\ req[q].kind = "remove" /\ req[r].kind = "remove"
  /\ req[q].user = req[r].user
  /\ req[q].target = req[r].target

\* An answered removal deleted a row: one that no other removal is answered
\* for, and that is gone.
RemovalsAreReal ==
  \A r \in Requests : req[r].kind = "remove" /\ req[r].pc = "answered" =>
    /\ Row(r) # None => Row(r).id # req[r].row
    /\ \A q \in Requests \ {r} :
         SameBudget(q, r) /\ req[q].pc = "answered" => req[q].row # req[r].row

\* A removal fails for want of a row only when another one deleted the row it
\* had found.
LostRemovalHasWinner ==
  \A r \in Requests : req[r].pc = "missing" =>
    \E q \in Requests \ {r} :
      /\ SameBudget(q, r)
      /\ req[q].pc \in {"answered", "failed"}
      /\ req[q].row = req[r].row
=============================================================================
