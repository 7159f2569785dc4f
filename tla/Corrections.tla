----------------------------- MODULE Corrections -----------------------------
(***************************************************************************)
(* The category of one transaction and its audit trail: concurrent calls   *)
(* of TransactionsService.correct.  A call reads the row, decides, and then *)
(* updates the row and appends a TransactionCorrection in one database     *)
(* transaction.  Transactions do not interact, so one row is enough.       *)
(***************************************************************************)
EXTENDS Integers, Sequences

CONSTANTS
  Calls,       \* the calls of PATCH /transactions/:id/category
  Foreign,     \* those made by a user who does not own the transaction
  Categories,
  Extracted,   \* the category the transaction was inserted with
  NoCategory

ASSUME CorrectionsAssumption ==
  /\ Foreign \subseteq Calls
  /\ Extracted \in Categories
  /\ NoCategory \notin Categories

VARIABLES
  category,   \* transactions.category
  trail,      \* the TransactionCorrection rows, in the order they committed
  calls,      \* the state of each call
  clock       \* correctedAt stamps given out so far

vars == <<category, trail, calls, clock>>

Rows == [previousCategory : Categories, newCategory : Categories,
         correctedAt : Nat \ {0}, seen : Nat]

Pcs == {"unsent", "write", "commit", "answered", "unchanged", "notFound", "aborted"}
Ended == {"answered", "unchanged", "notFound", "aborted"}

TypeOK ==
  /\ category \in Categories
  /\ trail \in Seq(Rows)
  /\ calls \in [Calls -> [pc     : Pcs,
                          target : Categories \cup {NoCategory},
                          read   : Categories \cup {NoCategory},
                          seen   : Nat,    \* history: rows committed at the read
                          stamp  : Nat]]
  /\ clock \in Nat

Init ==
  /\ category = Extracted
  /\ trail = <<>>
  /\ calls = [c \in Calls |-> [pc |-> "unsent", target |-> NoCategory,
                               read |-> NoCategory, seen |-> 0, stamp |-> 0]]
  /\ clock = 0

Goto(c, label) == calls' = [calls EXCEPT ![c].pc = label]

\* getById, and the decisions taken on the row it returns.
Read(c) ==
  /\ calls[c].pc = "unsent"
  /\ \E target \in Categories :
       calls' = [calls EXCEPT ![c] =
         [pc |-> IF c \in Foreign THEN "notFound"
                 ELSE IF category = target THEN "unchanged" ELSE "write",
          target |-> target, read |-> category,
          seen |-> Len(trail), stamp |-> 0]]
  /\ UNCHANGED <<category, trail, clock>>

\* The database transaction begins: correctedAt defaults to its now().
Begin(c) ==
  /\ calls[c].pc = "write"
  /\ clock' = clock + 1
  /\ calls' = [calls EXCEPT ![c].pc = "commit", ![c].stamp = clock + 1]
  /\ UNCHANGED <<category, trail>>

\* Slip: the audit row records the category it replaces with the new one.
SwappedRow(c) == [previousCategory |-> calls[c].target,
                  newCategory      |-> calls[c].read,
                  correctedAt      |-> calls[c].stamp,
                  seen             |-> calls[c].seen]

\* Slip: the audit row leaves out the previous category.
RowWithoutPrevious(c) == [previousCategory |-> NoCategory,
                          newCategory      |-> calls[c].target,
                          correctedAt      |-> calls[c].stamp,
                          seen             |-> calls[c].seen]

Row(c) == [previousCategory |-> calls[c].read,
           newCategory      |-> calls[c].target,
           correctedAt      |-> calls[c].stamp,
           seen             |-> calls[c].seen]

\* Slip: the update commits on its own and the audit row is never written.
UpdateOnly(c) ==
  /\ category' = calls[c].target
  /\ UNCHANGED trail

\* The update and the insert commit together.
Write(c) ==
  /\ category' = calls[c].target
  /\ trail' = Append(trail, Row(c))

Commit(c) ==
  /\ calls[c].pc = "commit"
  /\ Write(c)
  /\ Goto(c, "answered")
  /\ UNCHANGED clock

\* The database call fails, or the process stops: rolled back, or committed
\* with the answer lost.
Abort(c) ==
  /\ calls[c].pc \in {"write", "commit"}
  /\ \/ UNCHANGED <<category, trail>>
     \/ calls[c].pc = "commit" /\ Write(c)
  /\ Goto(c, "aborted")
  /\ UNCHANGED clock

Terminating == (\A c \in Calls : calls[c].pc \in Ended) /\ UNCHANGED vars

Next ==
  \/ \E c \in Calls : Read(c) \/ Begin(c) \/ Commit(c) \/ Abort(c)
  \/ Terminating

Spec == Init /\ [][Next]_vars

-----------------------------------------------------------------------------
(* Properties. *)

\* The category after the first n corrections.
CategoryAfter(n) == IF n = 0 THEN Extracted ELSE trail[n].newCategory

\* Whatever overlaps or fails, the category is the one the last committed
\* audit row gave it: the two are never written apart.
TrailEndsInCategory == category = CategoryAfter(Len(trail))

\* The audit row holds the previous value, the one the update of the same
\* database transaction replaced (README, "Audit trail, not silent overwrite").
\* The code reads it before that transaction: of two corrections that overlap,
\* the later to commit records a value that was already replaced.
PreviousWasReplaced ==
  \A i \in 1..Len(trail) : trail[i].previousCategory = CategoryAfter(i - 1)

\* It takes an overlap to get there.  A correction whose read saw every row
\* before its own records a real change from the value it replaced, and
\* getCorrections, which sorts by correctedAt, lists any correction above
\* those its call had seen.
ExactUnlessOverlapped ==
  \A i \in 1..Len(trail) :
    /\ trail[i].seen = i - 1 =>
         /\ trail[i].previousCategory = CategoryAfter(i - 1)
         /\ trail[i].newCategory # CategoryAfter(i - 1)
    /\ \A j \in 1..trail[i].seen : trail[j].correctedAt < trail[i].correctedAt

\* The trail is append-only, and no step changes the category without it.
AppendOnly ==
  [][/\ \A i \in 1..Len(trail) : i <= Len(trail') /\ trail'[i] = trail[i]
     /\ category' # category => Len(trail') = Len(trail) + 1]_vars
=============================================================================
