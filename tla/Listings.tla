------------------------------ MODULE Listings ------------------------------
(***************************************************************************)
(* The paginated listings of transactions and of statements, and a client  *)
(* that walks through one of them page by page while rows are committed.   *)
(* Each page takes two READ COMMITTED queries, the rows and then their     *)
(* number.  Nothing in the code deletes a row.                             *)
(*                                                                         *)
(* Only the rows that match the listing's filter (the user, a statement, a *)
(* range of dates) are here: what a row is filtered by never changes.      *)
(***************************************************************************)
EXTENDS Integers, FiniteSets

CONSTANTS
  Rows,     \* the ids of the rows: of a uuid, only its order matters
  Times,    \* transactions.date, upload_statements.uploadedAt
  Limits    \* the page sizes a client may ask for

ASSUME ListingsAssumption ==
  /\ Rows \subseteq Int /\ IsFiniteSet(Rows)
  /\ Times \subseteq Int
  /\ Limits \subseteq Nat \ {0}

VARIABLES
  listing,   \* which of the two is walked through
  time,      \* the time each row is sorted by
  limit,
  rows,      \* the committed rows
  walk,      \* the request for the current page
  start,     \* history: the rows that were there when the walk began
  seen,      \* the rows the client was shown
  twice      \* history: those it was shown on more than one page

vars == <<listing, time, limit, rows, walk, start, seen, twice>>

Pcs == {"rows", "count", "answered", "ended"}

TypeOK ==
  /\ listing \in {"transactions", "statements"}
  /\ time \in [Rows -> Times]
  /\ limit \in Limits
  /\ rows \in SUBSET Rows
  /\ walk \in [pc : Pcs, page : Nat \ {0}, found : SUBSET Rows, total : Nat]
  /\ start \in SUBSET Rows
  /\ seen \in SUBSET Rows
  /\ twice \in SUBSET Rows

Init ==
  /\ listing \in {"transactions", "statements"}
  /\ time \in [Rows -> Times]
  /\ limit \in Limits
  /\ rows = {}
  /\ walk = [pc |-> "rows", page |-> 1, found |-> {}, total |-> 0]
  /\ start = {}
  /\ seen = {}
  /\ twice = {}

-----------------------------------------------------------------------------
(* What one query returns. *)

\* Slip: transactions too are sorted by their time alone.
LaterOnly(x, y) == time[x] > time[y]

\* Row x comes before row y in the listing's orderBy.
Above(x, y) ==
  \/ time[x] > time[y]
  \/ listing = "transactions" /\ time[x] = time[y] /\ x > y

\* How many rows come before x, and the rows the order cannot tell from x.
Place(x) == Cardinality({y \in rows : Above(y, x)})
Tied(x)  == {y \in rows : ~Above(y, x) /\ ~Above(x, y)}

\* Slip: the last row of a page is also the first of the next.
SkipOneLess == (walk.page - 1) * (limit - 1)

skip == (walk.page - 1) * limit

\* The positions, counted from 1, that skip and take select.
Window == (skip + 1)..(skip + limit)

\* Tied rows share a run of positions and PostgreSQL gives them any of these,
\* anew in every query: the page has as many of them as the window covers.
IsPage(S) ==
  \A x \in rows :
    Cardinality(S \cap Tied(x)) =
      Cardinality(Window \cap ((Place(x) + 1)..(Place(x) + Cardinality(Tied(x)))))

-----------------------------------------------------------------------------
\* createMany of a batch, or create of one statement, commits.
Commit(S) ==
  /\ S # {}
  /\ listing = "statements" => Cardinality(S) = 1
  /\ rows' = rows \cup S
  /\ UNCHANGED <<listing, time, limit, walk, start, seen, twice>>

\* findMany({ where, orderBy, skip, take })
FindMany ==
  /\ walk.pc = "rows"
  /\ \E S \in SUBSET rows :
       /\ IsPage(S)
       /\ walk' = [walk EXCEPT !.pc = "count", !.found = S]
  /\ start' = IF walk.page = 1 THEN rows ELSE start
  /\ UNCHANGED <<listing, time, limit, rows, seen, twice>>

\* Slip: the rows counted for the first page are kept for the others.
CountOnce == Cardinality(start)

\* Slip: the rows that are left after the page.
CountRest == Cardinality(rows) - walk.page * limit

\* count({ where })
CountRows == Cardinality(rows)

\* The second query, and the answer: the page and meta.total.
Count ==
  /\ walk.pc = "count"
  /\ walk' = [walk EXCEPT !.pc = "answered", !.total = CountRows]
  /\ seen' = seen \cup walk.found
  /\ twice' = twice \cup (seen \cap walk.found)
  /\ UNCHANGED <<listing, time, limit, rows, start>>

\* A query fails, or the answer is lost: the client asks for the page again.
Fail ==
  /\ walk.pc = "count"
  /\ walk' = [walk EXCEPT !.pc = "rows", !.found = {}]
  /\ UNCHANGED <<listing, time, limit, rows, start, seen, twice>>

\* Slip: totalPages = floor(total / limit).
HasFullPage == walk.total >= (walk.page + 1) * limit

\* page < totalPages, where totalPages = ceil(total / limit).
HasNextPage == walk.total > walk.page * limit

NextPage ==
  /\ walk.pc = "answered"
  /\ walk' = IF HasNextPage
             THEN [pc |-> "rows", page |-> walk.page + 1,
                   found |-> {}, total |-> 0]
             ELSE [walk EXCEPT !.pc = "ended"]
  /\ UNCHANGED <<listing, time, limit, rows, start, seen, twice>>

Terminating == walk.pc = "ended" /\ UNCHANGED vars

Next ==
  \/ \E S \in SUBSET (Rows \ rows) : Commit(S)
  \/ FindMany \/ Count \/ Fail \/ NextPage
  \/ Terminating

Spec == Init /\ [][Next]_vars

-----------------------------------------------------------------------------
(* Properties. *)

\* The rows whose place no query has to choose: all transactions, and the
\* statements that share their uploadedAt with no other.
Definite(x) ==
  listing = "transactions" \/ \A y \in Rows \ {x} : time[y] # time[x]

\* A client that follows meta.totalPages to the end has been shown every row
\* that was there when it began, whatever is committed meanwhile: rows are
\* only added, so a row not yet shown only moves to later pages.
WalkMissesNothing ==
  walk.pc = "ended" => \A x \in start : Definite(x) => x \in seen

\* A row is shown on two pages only when a row was committed above it after
\* the walk began.
RepeatsAreShifts ==
  \A x \in twice : Definite(x) =>
    \E y \in rows \ start : Above(y, x)

\* meta.total, counted by the later query, is never below what the page shows
\* and the pages before it hold; nor is a page longer than its limit.
TotalCoversPage ==
  walk.pc = "answered" =>
    /\ Cardinality(walk.found) <= limit
    /\ walk.found # {} =>
         (walk.page - 1) * limit + Cardinality(walk.found) <= walk.total
=============================================================================
