-------------------------- MODULE CorrectionsProofs --------------------------
(***************************************************************************)
(* Proofs about Corrections, for every set of calls and categories and any *)
(* number of calls that overlap, fail or lose their answer.                *)
(***************************************************************************)
EXTENDS Corrections, TLAPS

\* What a call that goes on to write remembers of its read is still a prefix
\* of the trail, and it was asked for another category than the one it read.
ReadsArePrefixes ==
  \A c \in Calls : calls[c].pc \in {"write", "commit"} =>
    /\ calls[c].seen <= Len(trail)
    /\ calls[c].read = CategoryAfter(calls[c].seen)
    /\ calls[c].target \in Categories \ {calls[c].read}

\* Every row records the category after the rows its call had seen and a
\* change from it, and is stamped after them.
RowsWereRead ==
  \A i \in 1..Len(trail) :
    /\ trail[i].seen < i
    /\ trail[i].previousCategory = CategoryAfter(trail[i].seen)
    /\ trail[i].newCategory # trail[i].previousCategory
    /\ \A j \in 1..trail[i].seen : trail[j].correctedAt < trail[i].correctedAt

\* No stamp is ahead of the clock, and that of an open database transaction
\* comes after every row its call had seen.
StampsInOrder ==
  /\ \A i \in 1..Len(trail) : trail[i].correctedAt <= clock
  /\ \A c \in Calls : calls[c].pc = "commit" =>
       /\ calls[c].stamp \in 1..clock
       /\ \A j \in 1..calls[c].seen : trail[j].correctedAt < calls[c].stamp

TrailInv == /\ TypeOK
            /\ TrailEndsInCategory
            /\ ReadsArePrefixes
            /\ StampsInOrder
            /\ RowsWereRead

CallRecords == [pc     : Pcs,
                target : Categories \cup {NoCategory},
                read   : Categories \cup {NoCategory},
                seen   : Nat,
                stamp  : Nat]

LEMMA InitTrail == Init => TrailInv
<1>. SUFFICES ASSUME Init PROVE TrailInv
  OBVIOUS
<1>1. TypeOK
  BY CorrectionsAssumption DEF Init, TypeOK, Pcs
<1>2. TrailEndsInCategory /\ ReadsArePrefixes /\ StampsInOrder /\ RowsWereRead
  BY DEF Init, TrailEndsInCategory, CategoryAfter, ReadsArePrefixes,
         StampsInOrder, RowsWereRead
<1>. QED  BY <1>1, <1>2 DEF TrailInv

\* The category after a prefix of the trail is a category.
LEMMA CategoryAfterType ==
  ASSUME TypeOK, NEW n \in 0..Len(trail)
  PROVE  CategoryAfter(n) \in Categories
<1>1. CASE n = 0
  BY <1>1, CorrectionsAssumption DEF CategoryAfter
<1>2. CASE n # 0
  <2>1. trail[n] \in Rows
    BY <1>2 DEF TypeOK
  <2>. QED  BY <1>2, <2>1 DEF CategoryAfter, Rows
<1>. QED  BY <1>1, <1>2

\* A call changes and the trail does not: it is enough that the call's own
\* record is in order.
LEMMA MoveCall ==
  ASSUME TrailInv, NEW c \in Calls, NEW new \in CallRecords,
         calls' = [calls EXCEPT ![c] = new],
         UNCHANGED <<category, trail>>,
         clock' \in Nat, clock <= clock',
         new.pc \in {"write", "commit"} =>
           /\ new.seen <= Len(trail)
           /\ new.read = CategoryAfter(new.seen)
           /\ new.target \in Categories \ {new.read},
         new.pc = "commit" =>
           /\ new.stamp \in 1..clock'
           /\ \A j \in 1..new.seen : trail[j].correctedAt < new.stamp
  PROVE  TrailInv'
<1>. USE DEF TrailInv
<1>1. calls \in [Calls -> CallRecords] /\ clock \in Nat /\ trail \in Seq(Rows)
  BY DEF TypeOK, CallRecords
<1>2. calls'[c] = new /\ \A d \in Calls \ {c} : calls'[d] = calls[d]
  BY <1>1
<1>3. TypeOK'
  <2>1. calls' \in [Calls -> CallRecords]
    BY <1>1
  <2>. QED  BY <2>1 DEF TypeOK, CallRecords
<1>4. TrailEndsInCategory' /\ RowsWereRead'
  BY DEF TrailEndsInCategory, RowsWereRead, CategoryAfter
<1>5. ReadsArePrefixes'
  BY <1>2 DEF ReadsArePrefixes, CategoryAfter
<1>6. StampsInOrder'
  <2>1. \A i \in 1..Len(trail) : trail[i].correctedAt \in Nat
    <3>1. \A i \in 1..Len(trail) : trail[i] \in Rows
      BY <1>1
    <3>. QED  BY <3>1 DEF Rows
  <2>2. \A i \in 1..Len(trail) : trail'[i].correctedAt <= clock'
    BY <1>1, <2>1 DEF StampsInOrder
  <2>3. ASSUME NEW d \in Calls, calls'[d].pc = "commit"
        PROVE  /\ calls'[d].stamp \in 1..clock'
               /\ \A j \in 1..calls'[d].seen : trail'[j].correctedAt < calls'[d].stamp
    <3>1. CASE d = c
      BY <1>2, <2>3, <3>1
    <3>2. CASE d # c
      BY <1>1, <1>2, <2>3, <3>2 DEF StampsInOrder
    <3>. QED  BY <3>1, <3>2
  <2>. QED  BY <2>2, <2>3 DEF StampsInOrder
<1>. QED  BY <1>3, <1>4, <1>5, <1>6

LEMMA ReadTrail ==
  ASSUME TrailInv, NEW c \in Calls, Read(c)
  PROVE  TrailInv'
<1>1. PICK target \in Categories :
        calls' = [calls EXCEPT ![c] =
          [pc |-> IF c \in Foreign THEN "notFound"
                  ELSE IF category = target THEN "unchanged" ELSE "write",
           target |-> target, read |-> category,
           seen |-> Len(trail), stamp |-> 0]]
  BY DEF Read
<1>. DEFINE new == [pc |-> IF c \in Foreign THEN "notFound"
                          ELSE IF category = target THEN "unchanged" ELSE "write",
                    target |-> target, read |-> category,
                    seen |-> Len(trail), stamp |-> 0]
<1>2. new \in CallRecords
  BY DEF TrailInv, TypeOK, CallRecords, Pcs
<1>3. category = CategoryAfter(Len(trail))
  BY DEF TrailInv, TrailEndsInCategory
<1>4. UNCHANGED <<category, trail, clock>> /\ clock \in Nat /\ Len(trail) \in Nat
  BY DEF Read, TrailInv, TypeOK
<1>5. /\ new.pc # "commit" /\ new.seen = Len(trail) /\ new.read = category
      /\ new.pc = "write" => new.target \in Categories \ {new.read}
  OBVIOUS
<1>6. PICK next \in CallRecords :
        /\ calls' = [calls EXCEPT ![c] = next]
        /\ next.pc # "commit" /\ next.seen = Len(trail) /\ next.read = category
        /\ next.pc = "write" => next.target \in Categories \ {next.read}
  BY <1>1, <1>2, <1>5
<1>. HIDE DEF new
<1>7. next.seen <= Len(trail) /\ clock' \in Nat /\ clock <= clock'
  BY <1>4, <1>6
<1>. QED  BY <1>3, <1>4, <1>6, <1>7, MoveCall

LEMMA BeginTrail ==
  ASSUME TrailInv, NEW c \in Calls, Begin(c)
  PROVE  TrailInv'
<1>1. /\ calls \in [Calls -> CallRecords] /\ clock \in Nat
      /\ trail \in Seq(Rows) /\ calls[c].pc = "write"
  BY DEF TrailInv, TypeOK, CallRecords, Begin
<1>2. PICK next \in CallRecords :
        /\ calls' = [calls EXCEPT ![c] = next]
        /\ next.pc = "commit" /\ next.stamp = clock + 1
        /\ next.seen = calls[c].seen /\ next.read = calls[c].read
        /\ next.target = calls[c].target
  <2>1. calls'[c] \in CallRecords
    <3>1. calls[c] \in CallRecords /\ clock + 1 \in Nat /\ "commit" \in Pcs
      BY <1>1 DEF Pcs
    <3>2. calls'[c] = [calls[c] EXCEPT !.pc = "commit", !.stamp = clock + 1]
      BY <1>1 DEF Begin
    <3>. QED  BY <3>1, <3>2 DEF CallRecords
  <2>2. calls' = [calls EXCEPT ![c] = calls'[c]]
    BY <1>1 DEF Begin
  <2>3. /\ calls'[c].pc = "commit" /\ calls'[c].stamp = clock + 1
        /\ calls'[c].seen = calls[c].seen /\ calls'[c].read = calls[c].read
        /\ calls'[c].target = calls[c].target
    BY <1>1 DEF Begin, CallRecords
  <2>. QED  BY <2>1, <2>2, <2>3
<1>3. clock' = clock + 1 /\ UNCHANGED <<category, trail>>
  BY DEF Begin
<1>4. /\ next.seen <= Len(trail) /\ next.seen \in Nat
      /\ next.read = CategoryAfter(next.seen)
      /\ next.target \in Categories \ {next.read}
  BY <1>1, <1>2 DEF TrailInv, ReadsArePrefixes, CallRecords
<1>5. \A j \in 1..next.seen : trail[j].correctedAt < next.stamp
  <2>1. ASSUME NEW j \in 1..next.seen PROVE trail[j].correctedAt < next.stamp
    <3>1. j \in 1..Len(trail)
      BY <1>1, <1>4, <2>1
    <3>2. trail[j] \in Rows /\ trail[j].correctedAt <= clock
      BY <1>1, <3>1 DEF TrailInv, StampsInOrder
    <3>. QED  BY <1>1, <1>2, <3>2 DEF Rows
  <2>. QED  BY <2>1
<1>6. next.stamp \in 1..clock' /\ clock' \in Nat /\ clock <= clock'
  BY <1>1, <1>2, <1>3
<1>. QED  BY <1>2, <1>3, <1>4, <1>5, <1>6, MoveCall

LEMMA WriteTrail ==
  ASSUME TrailInv, NEW c \in Calls, NEW label \in Ended,
         calls[c].pc = "commit", Write(c), Goto(c, label), UNCHANGED clock
  PROVE  TrailInv'
<1>. DEFINE n == Len(trail)
            row == Row(c)
<1>1. /\ calls \in [Calls -> CallRecords] /\ clock \in Nat
      /\ trail \in Seq(Rows) /\ n \in Nat
  BY DEF TrailInv, TypeOK, CallRecords
<1>2. /\ calls[c].seen \in 0..n
      /\ calls[c].read = CategoryAfter(calls[c].seen)
      /\ calls[c].target \in Categories \ {calls[c].read}
  BY <1>1 DEF TrailInv, ReadsArePrefixes, CallRecords
<1>3. /\ calls[c].stamp \in 1..clock
      /\ \A j \in 1..calls[c].seen : trail[j].correctedAt < calls[c].stamp
  BY DEF TrailInv, StampsInOrder
<1>4. /\ row.previousCategory = calls[c].read /\ row.newCategory = calls[c].target
      /\ row.correctedAt = calls[c].stamp /\ row.seen = calls[c].seen
  BY DEF Row
<1>5. row \in Rows
  <2>1. calls[c].read \in Categories
    BY <1>2, CategoryAfterType DEF TrailInv
  <2>. QED  BY <1>1, <1>2, <1>3, <2>1 DEF Row, Rows
<1>6. trail' = Append(trail, row) /\ category' = row.newCategory
  BY <1>4 DEF Write
<1>. HIDE DEF row
<1>7. /\ trail' \in Seq(Rows) /\ Len(trail') = n + 1
      /\ trail'[n + 1] = row
      /\ \A i \in 1..n : trail'[i] = trail[i]
  BY <1>1, <1>5, <1>6
<1>9. /\ calls' \in [Calls -> CallRecords]
      /\ calls'[c].pc \notin {"write", "commit"}
      /\ \A d \in Calls \ {c} : calls'[d] = calls[d]
  BY <1>1 DEF Goto, Ended, CallRecords, Pcs
<1>10. TypeOK'
  BY <1>1, <1>5, <1>6, <1>7, <1>9 DEF TypeOK, CallRecords, Rows
<1>11. TrailEndsInCategory'
  BY <1>1, <1>6, <1>7 DEF TrailEndsInCategory, CategoryAfter
<1>12. ReadsArePrefixes'
  <2>1. ASSUME NEW d \in Calls, calls'[d].pc \in {"write", "commit"}
        PROVE  /\ calls'[d].seen <= Len(trail')
               /\ calls'[d].read = IF calls'[d].seen = 0 THEN Extracted
                                   ELSE trail'[calls'[d].seen].newCategory
               /\ calls'[d].target \in Categories \ {calls'[d].read}
    <3>1. d # c /\ calls'[d] = calls[d]
      BY <1>9, <2>1
    <3>2. /\ calls[d].seen \in 0..n
          /\ calls[d].read = IF calls[d].seen = 0 THEN Extracted
                             ELSE trail[calls[d].seen].newCategory
          /\ calls[d].target \in Categories \ {calls[d].read}
      BY <1>1, <2>1, <3>1 DEF TrailInv, ReadsArePrefixes, CallRecords, CategoryAfter
    <3>3. calls[d].seen # 0 => trail'[calls[d].seen] = trail[calls[d].seen]
      BY <1>1, <1>7, <3>2
    <3>. QED  BY <1>1, <1>7, <3>1, <3>2, <3>3
  <2>. QED  BY <2>1 DEF ReadsArePrefixes, CategoryAfter
<1>13. StampsInOrder'
  <2>1. \A i \in 1..Len(trail') : trail'[i].correctedAt <= clock'
    <3>1. ASSUME NEW i \in 1..Len(trail') PROVE trail'[i].correctedAt <= clock'
      <4>1. CASE i = n + 1
        BY <1>1, <1>3, <1>4, <1>7, <4>1
      <4>2. CASE i \in 1..n
        BY <1>7, <4>2 DEF TrailInv, StampsInOrder
      <4>. QED  BY <1>1, <1>7, <4>1, <4>2
    <3>. QED  BY <3>1
  <2>2. ASSUME NEW d \in Calls, calls'[d].pc = "commit"
        PROVE  /\ calls'[d].stamp \in 1..clock'
               /\ \A j \in 1..calls'[d].seen :
                    trail'[j].correctedAt < calls'[d].stamp
    <3>1. d # c /\ calls'[d] = calls[d]
      BY <1>9, <2>2
    <3>2. /\ calls[d].seen \in 0..n
          /\ calls[d].stamp \in 1..clock
          /\ \A j \in 1..calls[d].seen : trail[j].correctedAt < calls[d].stamp
      BY <1>1, <2>2, <3>1 DEF TrailInv, ReadsArePrefixes, StampsInOrder, CallRecords
    <3>3. \A j \in 1..calls[d].seen : trail'[j] = trail[j]
      BY <1>1, <1>7, <3>2
    <3>. QED  BY <3>1, <3>2, <3>3
  <2>. QED  BY <2>1, <2>2 DEF StampsInOrder
<1>14. RowsWereRead'
  <2>1. ASSUME NEW i \in 1..Len(trail')
        PROVE  /\ trail'[i].seen < i
               /\ trail'[i].previousCategory =
                    IF trail'[i].seen = 0 THEN Extracted
                    ELSE trail'[trail'[i].seen].newCategory
               /\ trail'[i].newCategory # trail'[i].previousCategory
               /\ \A j \in 1..trail'[i].seen :
                    trail'[j].correctedAt < trail'[i].correctedAt
    <3>1. PICK old \in 0..n :
            /\ old = trail'[i].seen /\ old < i
            /\ trail'[i].previousCategory =
                 IF old = 0 THEN Extracted ELSE trail[old].newCategory
            /\ trail'[i].newCategory # trail'[i].previousCategory
            /\ \A j \in 1..old : trail[j].correctedAt < trail'[i].correctedAt
      <4>1. CASE i = n + 1
        <5>1. trail'[i] = row /\ calls[c].seen < i
          BY <1>1, <1>2, <1>7, <4>1
        <5>. QED  BY <1>2, <1>3, <1>4, <5>1 DEF CategoryAfter
      <4>2. CASE i \in 1..n
        <5>1. trail'[i] = trail[i] /\ trail[i] \in Rows
          BY <1>1, <1>7, <4>2
        <5>2. trail[i].seen \in 0..n
          BY <1>1, <4>2, <5>1 DEF TrailInv, RowsWereRead, Rows
        <5>. QED  BY <4>2, <5>1, <5>2 DEF TrailInv, RowsWereRead, CategoryAfter
      <4>. QED  BY <1>1, <1>7, <4>1, <4>2
    <3>2. \A j \in 1..old : trail'[j] = trail[j]
      BY <1>1, <1>7, <3>1
    <3>3. old # 0 => trail'[old] = trail[old]
      BY <1>1, <1>7, <3>1
    <3>. QED  BY <3>1, <3>2, <3>3
  <2>. QED  BY <2>1 DEF RowsWereRead, CategoryAfter
<1>. QED  BY <1>10, <1>11, <1>12, <1>13, <1>14 DEF TrailInv

LEMMA AbortTrail ==
  ASSUME TrailInv, NEW c \in Calls, Abort(c), UNCHANGED <<category, trail>>
  PROVE  TrailInv'
<1>1. calls \in [Calls -> CallRecords] /\ clock \in Nat
  BY DEF TrailInv, TypeOK, CallRecords
<1>2. PICK next \in CallRecords :
        calls' = [calls EXCEPT ![c] = next] /\ next.pc = "aborted"
  <2>1. calls'[c] \in CallRecords /\ calls'[c].pc = "aborted"
    BY <1>1 DEF Abort, Goto, CallRecords, Pcs
  <2>2. calls' = [calls EXCEPT ![c] = calls'[c]]
    BY <1>1 DEF Abort, Goto
  <2>. QED  BY <2>1, <2>2
<1>3. UNCHANGED <<category, trail>> /\ clock' \in Nat /\ clock <= clock'
  BY <1>1 DEF Abort
<1>. QED  BY <1>2, <1>3, MoveCall

\* Every call's read, begin, commit and failure keeps the invariant.
LEMMA TrailStep == TrailInv /\ [Next]_vars => TrailInv'
<1>. SUFFICES ASSUME TrailInv, [Next]_vars PROVE TrailInv'
  OBVIOUS
<1>1. CASE UNCHANGED vars
  BY <1>1 DEF vars, TrailInv, TypeOK, TrailEndsInCategory, CategoryAfter,
              ReadsArePrefixes, StampsInOrder, RowsWereRead
<1>2. ASSUME NEW c \in Calls, Read(c) \/ Begin(c)
      PROVE  TrailInv'
  BY <1>2, ReadTrail, BeginTrail
<1>3. ASSUME NEW c \in Calls, Commit(c)
      PROVE  TrailInv'
  BY <1>3, WriteTrail DEF Commit, Ended
<1>4. ASSUME NEW c \in Calls, Abort(c)
      PROVE  TrailInv'
  <2>1. CASE UNCHANGED <<category, trail>>
    BY <1>4, <2>1, AbortTrail
  <2>2. CASE calls[c].pc = "commit" /\ Write(c)
    BY <1>4, <2>2, WriteTrail DEF Abort, Ended
  <2>. QED  BY <1>4, <2>1, <2>2 DEF Abort
<1>. QED  BY <1>1, <1>2, <1>3, <1>4 DEF Next, Terminating

LEMMA TrailInvariant == Spec => []TrailInv
BY InitTrail, TrailStep, PTL DEF Spec

-----------------------------------------------------------------------------
\* Every audit row is complete, and the category is one of the enum.
THEOREM TypeCorrect == Spec => []TypeOK
<1>1. TrailInv => TypeOK
  BY DEF TrailInv
<1>. QED  BY <1>1, TrailInvariant, PTL

\* The update of the row and its audit row are never seen apart, for any
\* number of corrections that overlap or fail.
THEOREM CategoryIsAudited == Spec => []TrailEndsInCategory
<1>1. TrailInv => TrailEndsInCategory
  BY DEF TrailInv
<1>. QED  BY <1>1, TrailInvariant, PTL

\* However corrections overlap or fail, one that saw every row before its own
\* records the value it replaced, and the order of correctedAt respects what
\* each call had seen.
THEOREM TrailIsExactUnlessOverlapped == Spec => []ExactUnlessOverlapped
<1>1. TrailInv => ExactUnlessOverlapped
  <2>. SUFFICES ASSUME TrailInv, NEW i \in 1..Len(trail)
                PROVE  /\ trail[i].seen = i - 1 =>
                            /\ trail[i].previousCategory = CategoryAfter(i - 1)
                            /\ trail[i].newCategory # CategoryAfter(i - 1)
                       /\ \A j \in 1..trail[i].seen :
                            trail[j].correctedAt < trail[i].correctedAt
    BY DEF ExactUnlessOverlapped
  <2>. QED  BY DEF TrailInv, RowsWereRead
<1>. QED  BY <1>1, TrailInvariant, PTL

\* No step of a call rewrites or drops an audit row, or changes the category
\* without adding one.
THEOREM TrailOnlyGrows == Spec => AppendOnly
<1>. DEFINE Grows ==
       /\ \A i \in 1..Len(trail) : i <= Len(trail') /\ trail'[i] = trail[i]
       /\ category' # category => Len(trail') = Len(trail) + 1
<1>1. ASSUME TypeOK, [Next]_vars PROVE Grows \/ UNCHANGED vars
  <2>0. trail \in Seq(Rows) /\ Len(trail) \in Nat
    BY <1>1 DEF TypeOK
  <2>1. CASE UNCHANGED <<category, trail>>
    BY <2>0, <2>1
  <2>2. ASSUME NEW c \in Calls, Write(c) PROVE Grows
    BY <2>0, <2>2 DEF Write
  <2>3. \/ UNCHANGED <<category, trail>>
        \/ \E c \in Calls : Write(c)
    BY <1>1 DEF Next, Terminating, Read, Begin, Commit, Abort, vars
  <2>. QED  BY <2>1, <2>2, <2>3
<1>2. TypeOK /\ [Next]_vars => [Grows]_vars
  BY <1>1
<1>. QED  BY <1>2, TypeCorrect, PTL DEF Spec, AppendOnly
=============================================================================
