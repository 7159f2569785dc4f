------------------------------ MODULE MCLedger ------------------------------
(* An instance of Ledger for TLC: instants on both sides of the ends of      *)
(* February 2024, a statement of another user, one with an amount too large. *)
EXTENDS Ledger, TLC

CONSTANTS s1, s2, s3, s4, u1, u2

MCStatements == {s1, s2, s3, s4}
MCItems == 1..6
MCOwnerOf == (s1 :> u1) @@ (s2 :> u1) @@ (s3 :> u2) @@ (s4 :> u1)
MCStatementOf == <<s1, s1, s2, s3, s4, s4>>

\* A day has two ticks, its first and its last millisecond.
February == getMonthRange(2024, 2)

Item(d, t, a) == [date |-> d, type |-> t, amount |-> a]

\* Kobo 1, 2, 4: any sum tells which were counted.
MCExtracted ==
  << Item(February.from - 1, "debit", 10), Item(February.from, "credit", 24),
     Item(February.to, "debit", 35), Item(February.from, "debit", 10),
     Item(February.to, "debit", 10), Item(February.to, "credit", 85) >>

MCRanges == {[from |-> None, to |-> February.from - 1],
             [from |-> February.from, to |-> None]}
MCMonths == {[year |-> 2024, month |-> 1], [year |-> 2024, month |-> 2]}
MCNow == February.to

\* Nothing in the specification tells two categories apart.
Symmetry == Permutations(Categories)

\* getMonthRange covers exactly the month asked for, in every year but those
\* that Date.UTC takes for others.
ASSUME MonthRangeIsTheMonth ==
  \A y \in 0..2200, m \in 1..12 :
    LET range == getMonthRange(y, m)
        month == [year |-> FullYear(y), month |-> m]
    IN  /\ MonthOf(range.from) = month /\ MonthOf(range.from - 1) # month
        /\ MonthOf(range.to) = month   /\ MonthOf(range.to + 1) # month
=============================================================================
