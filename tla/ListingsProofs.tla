--------------------------- MODULE ListingsProofs ---------------------------
(***************************************************************************)
(* Proofs about Listings, for every finite set of rows, every assignment   *)
(* of times and every page size.                                           *)
(***************************************************************************)
EXTENDS Listings, FiniteSetTheorems, FunctionTheorems, TLAPS

-----------------------------------------------------------------------------
(* Places. *)

LEMMA PlaceIsNat ==
  ASSUME TypeOK, NEW x \in Rows
  PROVE  /\ IsFiniteSet({y \in rows : Above(y, x)})
         /\ Place(x) \in Nat
<1>1. IsFiniteSet(rows)
  BY ListingsAssumption, FS_Subset DEF TypeOK
<1>2. IsFiniteSet({y \in rows : Above(y, x)})
  BY <1>1, FS_Subset, {y \in rows : Above(y, x)} \subseteq rows
<1>. QED  BY <1>2, FS_CardinalityType DEF Place

\* Fewer rows come before a row than there are.
LEMMA PlaceBelow ==
  ASSUME TypeOK, NEW x \in rows
  PROVE  Place(x) < Cardinality(rows) /\ Cardinality(rows) \in Nat
<1>. DEFINE A == {y \in rows : Above(y, x)}
<1>1. IsFiniteSet(rows) /\ Cardinality(rows) \in Nat
  BY ListingsAssumption, FS_Subset, FS_CardinalityType DEF TypeOK
<1>2. time[x] \in Int /\ x \in Int
  BY ListingsAssumption DEF TypeOK
<1>3. ~Above(x, x)
  BY <1>2 DEF Above
<1>4. A \subseteq rows /\ A # rows
  BY <1>3
<1>5. Cardinality(A) < Cardinality(rows)
  BY <1>1, <1>4, FS_Subset, FS_CardinalityType
<1>. QED  BY <1>1, <1>5 DEF Place

\* The order tells a definite row from every other.
LEMMA DefiniteIsAlone ==
  ASSUME TypeOK, NEW x \in rows, Definite(x)
  PROVE  Tied(x) = {x}
<1>1. \A y \in rows : time[y] \in Int /\ y \in Int
  BY ListingsAssumption DEF TypeOK
<1>2. \A y \in rows : y \in Rows
  BY DEF TypeOK
<1>3. ASSUME NEW y \in rows, ~Above(y, x), ~Above(x, y)
      PROVE  y = x
  BY <1>1, <1>2, <1>3 DEF Above, Definite
<1>4. ~Above(x, x)
  BY <1>1 DEF Above
<1>. QED  BY <1>3, <1>4 DEF Tied

\* A page shows a definite row exactly when its place is in the window.
LEMMA DefinitePage ==
  ASSUME TypeOK, NEW x \in rows, Definite(x), NEW S \in SUBSET rows, IsPage(S)
  PROVE  x \in S <=> Place(x) >= skip /\ Place(x) < skip + limit
<1>1. Place(x) \in Nat /\ limit \in Nat /\ walk.page \in Nat
  BY PlaceIsNat, ListingsAssumption DEF TypeOK
<1>2. skip \in Int
  BY <1>1 DEF skip
<1>3. Cardinality({x}) = 1 /\ Cardinality({}) = 0
  BY FS_Singleton, FS_EmptySet
<1>4. Cardinality(S \cap {x})
        = Cardinality(Window \cap ((Place(x) + 1)..(Place(x) + 1)))
  BY <1>3, DefiniteIsAlone DEF IsPage
<1>5. (Place(x) + 1)..(Place(x) + 1) = {Place(x) + 1}
  BY <1>1
<1>6. Place(x) + 1 \in Window <=> Place(x) >= skip /\ Place(x) < skip + limit
  BY <1>1, <1>2 DEF Window
<1>7. Cardinality({Place(x) + 1}) = 1
  BY FS_Singleton
<1>8. CASE x \in S
  <2>1. S \cap {x} = {x}
    BY <1>8
  <2>2. Place(x) + 1 \in Window
    <3>1. SUFFICES ASSUME Place(x) + 1 \notin Window PROVE FALSE
      OBVIOUS
    <3>2. Window \cap {Place(x) + 1} = {}
      BY <3>1
    <3>. QED  BY <3>2, <2>1, <1>3, <1>4, <1>5
  <2>. QED  BY <2>2, <1>6, <1>8
<1>9. CASE x \notin S
  <2>1. S \cap {x} = {}
    BY <1>9
  <2>2. Place(x) + 1 \notin Window
    <3>1. SUFFICES ASSUME Place(x) + 1 \in Window PROVE FALSE
      OBVIOUS
    <3>2. Window \cap {Place(x) + 1} = {Place(x) + 1}
      BY <3>1
    <3>. QED  BY <3>2, <2>1, <1>3, <1>4, <1>5, <1>7
  <2>. QED  BY <2>2, <1>6, <1>9
<1>. QED  BY <1>8, <1>9

\* The end of a page is the beginning of the next.
LEMMA SkipOfNext ==
  ASSUME NEW p \in Nat, NEW l \in Nat
  PROVE  /\ (p - 1) * l \in Int /\ p * l \in Nat
         /\ (p - 1) * l + l = p * l
         /\ ((p + 1) - 1) * l = p * l
  OBVIOUS

-----------------------------------------------------------------------------
(* Types. *)

LEMMA InitType == Init => TypeOK
  BY ListingsAssumption DEF Init, TypeOK, Pcs

LEMMA TypeStep == TypeOK /\ [Next]_vars => TypeOK'
<1>. SUFFICES ASSUME TypeOK, [Next]_vars PROVE TypeOK'
  OBVIOUS
<1>1. ASSUME NEW S \in SUBSET (Rows \ rows), Commit(S) PROVE TypeOK'
  BY <1>1 DEF Commit, TypeOK
<1>2. CASE FindMany
  BY <1>2 DEF FindMany, TypeOK, Pcs
<1>3. CASE Count
  <2>1. CountRows \in Nat
    BY ListingsAssumption, FS_Subset, FS_CardinalityType DEF TypeOK, CountRows
  <2>. QED  BY <1>3, <2>1 DEF Count, TypeOK, Pcs
<1>4. CASE Fail
  BY <1>4 DEF Fail, TypeOK, Pcs
<1>5. CASE NextPage
  BY <1>5 DEF NextPage, TypeOK, Pcs
<1>6. CASE UNCHANGED vars
  BY <1>6 DEF vars, TypeOK
<1>. QED  BY <1>1, <1>2, <1>3, <1>4, <1>5, <1>6 DEF Next, Terminating

\* Every variable of the walk keeps its type.
THEOREM TypeCorrect == Spec => []TypeOK
  BY InitType, TypeStep, PTL DEF Spec

-----------------------------------------------------------------------------
(* The invariant of a walk. *)

\* A row above x was committed after the walk began.
Shifted(x) == \E y \in rows \ start : Above(y, x)

\* The positions that the pages answered so far have covered.
Covered == IF walk.pc \in {"rows", "count"} THEN skip ELSE walk.page * limit

\* A row of the start that was not shown yet is still ahead.
StillAhead(x) ==
  x \in start /\ x \notin seen =>
    /\ walk.pc = "rows" => Place(x) >= skip
    /\ walk.pc = "count" => x \in walk.found \/ Place(x) >= walk.page * limit
    /\ walk.pc = "answered" => /\ Place(x) >= walk.page * limit
                               /\ walk.total > walk.page * limit
    /\ walk.pc # "ended"

\* A row that was shown is behind, one on the page is in its window, unless
\* it was shifted.
BehindOrShifted(x) ==
  /\ x \in seen => Shifted(x) \/ Place(x) < Covered
  /\ walk.pc = "count" /\ x \in walk.found => Place(x) >= skip
  /\ walk.pc = "count" /\ x \in walk.found =>
       Shifted(x) \/ Place(x) < walk.page * limit
  /\ x \in twice => Shifted(x)

ShownWasThere ==
  /\ start \subseteq rows
  /\ walk.found \subseteq rows
  /\ seen \subseteq rows
  /\ twice \subseteq seen
  /\ walk.page = 1 /\ walk.pc \in {"rows", "count"} => seen = {}

WalkInv ==
  /\ ShownWasThere
  /\ \A x \in rows : Definite(x) => StillAhead(x) /\ BehindOrShifted(x)

LEMMA InitWalk == Init => WalkInv
  BY DEF Init, WalkInv, ShownWasThere

\* A commit only moves a row down, and only by shifting it.
LEMMA CommitMovesDown ==
  ASSUME TypeOK, TypeOK', start \subseteq rows,
         NEW S \in SUBSET (Rows \ rows), Commit(S), NEW x \in rows
  PROVE  /\ Place(x) \in Nat /\ Place(x)' \in Nat
         /\ Place(x)' >= Place(x)
         /\ Shifted(x)' \/ Place(x)' = Place(x)
         /\ Shifted(x) => Shifted(x)'
         /\ x \in rows'
<1>. DEFINE A == {y \in rows : Above(y, x)}
            B == {y \in rows' : Above(y, x)'}
<1>1. /\ rows' = rows \cup S /\ start' = start
      /\ \A y : Above(y, x)' <=> Above(y, x)
  BY DEF Commit, Above
<1>2. x \in Rows
  BY DEF TypeOK
<1>3. IsFiniteSet(A) /\ Place(x) \in Nat
  BY <1>2, PlaceIsNat
<1>4. IsFiniteSet(rows')
  BY ListingsAssumption, FS_Subset DEF TypeOK
<1>5. IsFiniteSet(B) /\ B \subseteq rows'
  BY <1>4, FS_Subset
<1>6. Place(x)' = Cardinality(B) /\ Place(x) = Cardinality(A)
  BY DEF Place
<1>7. Place(x)' \in Nat
  BY <1>5, <1>6, FS_CardinalityType
<1>8. A \subseteq B
  BY <1>1
<1>9. Place(x)' >= Place(x)
  BY <1>3, <1>5, <1>6, <1>7, <1>8, FS_Subset
<1>10. Shifted(x) => Shifted(x)'
  BY <1>1 DEF Shifted
<1>11. CASE B = A
  BY <1>1, <1>3, <1>6, <1>7, <1>9, <1>10, <1>11
<1>12. CASE B # A
  <2>1. PICK y \in B : y \notin A
    BY <1>8, <1>12
  <2>2. y \in rows' \ start' /\ Above(y, x)'
    BY <1>1, <2>1
  <2>3. Shifted(x)'
    BY <2>2 DEF Shifted
  <2>. QED  BY <1>1, <1>3, <1>7, <1>9, <2>3
<1>. QED  BY <1>11, <1>12

LEMMA CommitWalk ==
  ASSUME TypeOK, TypeOK', WalkInv, NEW S \in SUBSET (Rows \ rows), Commit(S)
  PROVE  WalkInv'
<1>1. /\ UNCHANGED <<listing, time, limit, walk, start, seen, twice>>
      /\ rows' = rows \cup S
      /\ UNCHANGED <<skip, Covered>>
  BY DEF Commit, skip, Covered
<1>2. ShownWasThere'
  BY <1>1 DEF WalkInv, ShownWasThere
<1>3. skip \in Int /\ walk.page * limit \in Nat /\ Covered \in Int
  BY ListingsAssumption DEF TypeOK, skip, Covered
<1>4. ASSUME NEW x \in rows', Definite(x)'
      PROVE  StillAhead(x)' /\ BehindOrShifted(x)'
  <2>1. CASE x \in rows
    <3>1. Definite(x)
      BY <1>1, <1>4 DEF Definite
    <3>2. StillAhead(x) /\ BehindOrShifted(x)
      BY <2>1, <3>1 DEF WalkInv
    <3>3. /\ Place(x) \in Nat /\ Place(x)' \in Nat
          /\ Place(x)' >= Place(x)
          /\ Shifted(x)' \/ Place(x)' = Place(x)
          /\ Shifted(x) => Shifted(x)'
      BY <2>1, CommitMovesDown DEF WalkInv, ShownWasThere
    <3>4. StillAhead(x)'
      BY <1>1, <1>3, <3>2, <3>3 DEF StillAhead
    <3>5. BehindOrShifted(x)'
      BY <1>1, <1>3, <3>2, <3>3 DEF BehindOrShifted
    <3>. QED  BY <3>4, <3>5
  <2>2. CASE x \notin rows
    <3>1. x \notin start /\ x \notin seen /\ x \notin walk.found
      BY <2>2 DEF WalkInv, ShownWasThere
    <3>2. x \notin twice
      BY <3>1 DEF WalkInv, ShownWasThere
    <3>. QED  BY <1>1, <3>1, <3>2 DEF StillAhead, BehindOrShifted
  <2>. QED  BY <2>1, <2>2
<1>. QED  BY <1>2, <1>4 DEF WalkInv

\* Between commits nothing moves.
LEMMA NothingMoves ==
  ASSUME UNCHANGED <<listing, time, rows>>, NEW x
  PROVE  /\ Place(x)' = Place(x)
         /\ Definite(x)' <=> Definite(x)
         /\ start' = start => (Shifted(x)' <=> Shifted(x))
<1>1. \A y : Above(y, x)' <=> Above(y, x)
  BY DEF Above
<1>2. {y \in rows' : Above(y, x)'} = {y \in rows : Above(y, x)}
  BY <1>1
<1>3. Place(x)' = Place(x)
  BY <1>2 DEF Place
<1>. QED  BY <1>1, <1>3 DEF Definite, Shifted

LEMMA FindWalk ==
  ASSUME TypeOK, TypeOK', WalkInv, FindMany
  PROVE  WalkInv'
<1>1. PICK S \in SUBSET rows :
        IsPage(S) /\ walk' = [walk EXCEPT !.pc = "count", !.found = S]
  BY DEF FindMany
<1>2. /\ UNCHANGED <<listing, time, limit, rows, seen, twice>>
      /\ walk.pc = "rows" /\ walk'.pc = "count" /\ walk'.found = S
      /\ walk'.page = walk.page
      /\ start' = IF walk.page = 1 THEN rows ELSE start
  BY <1>1 DEF FindMany, TypeOK
<1>3. UNCHANGED <<skip, Covered>> /\ Covered = skip
  BY <1>2 DEF skip, Covered
<1>4. /\ skip \in Int /\ walk.page * limit \in Nat /\ limit \in Nat
      /\ skip + limit = walk.page * limit
      /\ walk.page = 1 => skip = 0 /\ seen = {}
  BY <1>2, SkipOfNext, ListingsAssumption DEF TypeOK, skip, WalkInv, ShownWasThere
<1>5. ShownWasThere'
  BY <1>2 DEF WalkInv, ShownWasThere
<1>6. ASSUME NEW x \in rows', Definite(x)'
      PROVE  StillAhead(x)' /\ BehindOrShifted(x)'
  <2>1. x \in rows /\ x \in Rows /\ Definite(x) /\ Place(x)' = Place(x)
    BY <1>2, <1>6, NothingMoves DEF TypeOK
  <2>2. Place(x) \in Nat
    BY <2>1, PlaceIsNat
  <2>3. x \in S <=> Place(x) >= skip /\ Place(x) < walk.page * limit
    BY <1>1, <1>4, <2>1, DefinitePage
  <2>4. StillAhead(x) /\ BehindOrShifted(x)
    BY <2>1 DEF WalkInv
  <2>5. StillAhead(x)'
    <3>1. SUFFICES ASSUME x \in start', x \notin seen
                   PROVE  x \in S \/ Place(x) >= walk.page * limit
      BY <1>2, <1>3, <2>1 DEF StillAhead
    <3>2. Place(x) >= skip
      BY <1>2, <1>4, <2>2, <2>4, <3>1 DEF StillAhead
    <3>. QED  BY <1>4, <2>2, <2>3, <3>2
  <2>6. CASE walk.page = 1
    <3>1. x \notin seen' /\ x \notin twice'
      BY <1>2, <1>4, <2>6 DEF WalkInv, ShownWasThere
    <3>. QED  BY <1>2, <1>3, <2>1, <2>3, <2>5, <3>1 DEF BehindOrShifted
  <2>7. CASE walk.page # 1
    <3>1. Shifted(x)' <=> Shifted(x)
      BY <1>2, <2>7, NothingMoves
    <3>. QED  BY <1>2, <1>3, <2>1, <2>3, <2>4, <2>5, <3>1 DEF BehindOrShifted
  <2>. QED  BY <2>6, <2>7
<1>. QED  BY <1>5, <1>6 DEF WalkInv

LEMMA CountWalk ==
  ASSUME TypeOK, TypeOK', WalkInv, Count
  PROVE  WalkInv'
<1>1. /\ UNCHANGED <<listing, time, limit, rows, start>>
      /\ walk.pc = "count" /\ walk'.pc = "answered"
      /\ walk'.page = walk.page /\ walk'.found = walk.found
      /\ walk'.total = Cardinality(rows)
      /\ seen' = seen \cup walk.found
      /\ twice' = twice \cup (seen \cap walk.found)
  BY DEF Count, CountRows, TypeOK
<1>2. /\ skip \in Int /\ walk.page * limit \in Nat /\ limit \in Nat
      /\ skip + limit = walk.page * limit
  BY SkipOfNext, ListingsAssumption DEF TypeOK, skip
<1>3. Covered = skip /\ Covered' = walk.page * limit
  BY <1>1 DEF Covered
<1>4. ShownWasThere'
  BY <1>1 DEF WalkInv, ShownWasThere
<1>5. ASSUME NEW x \in rows', Definite(x)'
      PROVE  StillAhead(x)' /\ BehindOrShifted(x)'
  <2>1. /\ x \in rows /\ x \in Rows /\ Definite(x)
        /\ Place(x)' = Place(x) /\ (Shifted(x)' <=> Shifted(x))
    BY <1>1, <1>5, NothingMoves DEF TypeOK
  <2>2. /\ Place(x) \in Nat /\ Cardinality(rows) \in Nat
        /\ Place(x) < Cardinality(rows)
    BY <2>1, PlaceIsNat, PlaceBelow
  <2>3. StillAhead(x) /\ BehindOrShifted(x)
    BY <2>1 DEF WalkInv
  <2>4. StillAhead(x)'
    <3>1. SUFFICES ASSUME x \in start, x \notin seen, x \notin walk.found
                   PROVE  /\ Place(x) >= walk.page * limit
                          /\ Cardinality(rows) > walk.page * limit
      BY <1>1, <2>1 DEF StillAhead
    <3>2. Place(x) >= walk.page * limit
      BY <1>1, <2>3, <3>1 DEF StillAhead
    <3>. QED  BY <1>2, <2>2, <3>2
  <2>5. x \in twice' => Shifted(x)
    BY <1>1, <1>2, <1>3, <2>2, <2>3 DEF BehindOrShifted
  <2>6. x \in seen' => Shifted(x) \/ Place(x) < walk.page * limit
    BY <1>1, <1>2, <1>3, <2>2, <2>3 DEF BehindOrShifted
  <2>7. BehindOrShifted(x)'
    BY <1>1, <1>3, <2>1, <2>5, <2>6 DEF BehindOrShifted
  <2>. QED  BY <2>4, <2>7
<1>. QED  BY <1>4, <1>5 DEF WalkInv

LEMMA FailWalk ==
  ASSUME TypeOK, TypeOK', WalkInv, Fail
  PROVE  WalkInv'
<1>1. /\ UNCHANGED <<listing, time, limit, rows, start, seen, twice>>
      /\ walk.pc = "count" /\ walk'.pc = "rows"
      /\ walk'.page = walk.page /\ walk'.found = {}
  BY DEF Fail, TypeOK
<1>2. /\ skip \in Int /\ walk.page * limit \in Nat /\ limit \in Nat
      /\ skip + limit = walk.page * limit /\ skip' = skip
  BY <1>1, SkipOfNext, ListingsAssumption DEF TypeOK, skip
<1>3. Covered' = Covered
  BY <1>1, <1>2 DEF Covered
<1>4. ShownWasThere'
  BY <1>1 DEF WalkInv, ShownWasThere
<1>5. ASSUME NEW x \in rows', Definite(x)'
      PROVE  StillAhead(x)' /\ BehindOrShifted(x)'
  <2>1. /\ x \in rows /\ x \in Rows /\ Definite(x)
        /\ Place(x)' = Place(x) /\ (Shifted(x)' <=> Shifted(x))
    BY <1>1, <1>5, NothingMoves DEF TypeOK
  <2>2. Place(x) \in Nat
    BY <2>1, PlaceIsNat
  <2>3. StillAhead(x) /\ BehindOrShifted(x)
    BY <2>1 DEF WalkInv
  <2>4. StillAhead(x)'
    BY <1>1, <1>2, <2>1, <2>2, <2>3 DEF StillAhead, BehindOrShifted
  <2>5. BehindOrShifted(x)'
    <3>1. x \in seen' => Shifted(x)' \/ Place(x)' < Covered'
      BY <1>1, <1>3, <2>1, <2>3 DEF BehindOrShifted
    <3>2. x \in twice' => Shifted(x)'
      BY <1>1, <2>1, <2>3 DEF BehindOrShifted
    <3>. QED  BY <1>1, <3>1, <3>2 DEF BehindOrShifted
  <2>. QED  BY <2>4, <2>5
<1>. QED  BY <1>4, <1>5 DEF WalkInv

LEMMA NextPageWalk ==
  ASSUME TypeOK, TypeOK', WalkInv, NextPage
  PROVE  WalkInv'
<1>1. /\ UNCHANGED <<listing, time, limit, rows, start, seen, twice>>
      /\ walk.pc = "answered"
  BY DEF NextPage
<1>2. \/ /\ walk.total > walk.page * limit
         /\ walk'.pc = "rows" /\ walk'.page = walk.page + 1 /\ walk'.found = {}
      \/ /\ ~(walk.total > walk.page * limit)
         /\ walk'.pc = "ended" /\ walk'.page = walk.page
         /\ walk'.found = walk.found
  BY DEF NextPage, HasNextPage, TypeOK
<1>3. /\ walk.page * limit \in Nat /\ walk.page \in Nat \ {0}
      /\ ((walk.page + 1) - 1) * limit = walk.page * limit
  BY SkipOfNext, ListingsAssumption DEF TypeOK
<1>4. walk'.pc = "rows" => skip' = walk.page * limit
  BY <1>1, <1>2, <1>3 DEF skip
<1>5. Covered' = Covered
  BY <1>1, <1>2, <1>4 DEF Covered
<1>6. walk'.page = 1 /\ walk'.pc \in {"rows", "count"} => FALSE
  <2>1. walk.page \in Nat \ {0}
    BY DEF TypeOK
  <2>2. walk'.pc \in {"rows", "count"} => walk'.page = walk.page + 1
    BY <1>2
  <2>. QED  BY <2>1, <2>2
<1>7. ShownWasThere'
  BY <1>1, <1>2, <1>6 DEF WalkInv, ShownWasThere
<1>8. ASSUME NEW x \in rows', Definite(x)'
      PROVE  StillAhead(x)' /\ BehindOrShifted(x)'
  <2>1. /\ x \in rows /\ x \in Rows /\ Definite(x)
        /\ Place(x)' = Place(x) /\ (Shifted(x)' <=> Shifted(x))
    BY <1>1, <1>8, NothingMoves DEF TypeOK
  <2>2. StillAhead(x) /\ BehindOrShifted(x)
    BY <2>1 DEF WalkInv
  <2>3. StillAhead(x)'
    BY <1>1, <1>2, <1>4, <2>1, <2>2 DEF StillAhead
  <2>4. BehindOrShifted(x)'
    BY <1>1, <1>2, <1>5, <2>1, <2>2 DEF BehindOrShifted
  <2>. QED  BY <2>3, <2>4
<1>. QED  BY <1>7, <1>8 DEF WalkInv

LEMMA WalkStep == TypeOK /\ WalkInv /\ [Next]_vars => WalkInv'
<1>. SUFFICES ASSUME TypeOK, WalkInv, [Next]_vars PROVE WalkInv'
  OBVIOUS
<1>1. TypeOK'
  BY TypeStep
<1>2. ASSUME NEW S \in SUBSET (Rows \ rows), Commit(S) PROVE WalkInv'
  BY <1>1, <1>2, CommitWalk
<1>3. CASE FindMany  BY <1>1, <1>3, FindWalk
<1>4. CASE Count     BY <1>1, <1>4, CountWalk
<1>5. CASE Fail      BY <1>1, <1>5, FailWalk
<1>6. CASE NextPage  BY <1>1, <1>6, NextPageWalk
<1>7. CASE UNCHANGED vars
  BY <1>7 DEF vars, WalkInv, ShownWasThere, StillAhead, BehindOrShifted,
       Shifted, Covered, Place, Definite, Above, skip
<1>. QED  BY <1>2, <1>3, <1>4, <1>5, <1>6, <1>7 DEF Next, Terminating

LEMMA WalkInvariant == Spec => []WalkInv
  BY InitType, TypeStep, InitWalk, WalkStep, PTL DEF Spec

\* A client that follows the pages to the end misses no row that was there
\* when it began: for any number of rows, any page size, any commits between.
THEOREM NothingIsMissed == Spec => []WalkMissesNothing
<1>1. WalkInv => WalkMissesNothing
  BY DEF WalkInv, WalkMissesNothing, ShownWasThere, StillAhead
<1>. QED  BY <1>1, WalkInvariant, PTL

\* A row is repeated only when one was committed above it.
THEOREM OnlyShiftsRepeat == Spec => []RepeatsAreShifts
<1>1. WalkInv => RepeatsAreShifts
  BY DEF WalkInv, RepeatsAreShifts, ShownWasThere, BehindOrShifted, Shifted
<1>. QED  BY <1>1, WalkInvariant, PTL

-----------------------------------------------------------------------------
(* Pages.  The rows of a page are as many as the positions it covers: tied  *)
(* rows share a run of positions, and runs do not overlap.                  *)

\* The positions that x and the rows tied with it share.
Run(x) == (Place(x) + 1)..(Place(x) + Cardinality(Tied(x)))

LEMMA RunIsFinite ==
  ASSUME TypeOK, NEW x \in rows
  PROVE  /\ IsFiniteSet(rows) /\ Cardinality(rows) \in Nat
         /\ IsFiniteSet(Tied(x)) /\ Cardinality(Tied(x)) \in Nat
         /\ Place(x) \in Nat
         /\ x \in Tied(x)
<1>1. IsFiniteSet(rows) /\ Cardinality(rows) \in Nat
  BY ListingsAssumption, FS_Subset, FS_CardinalityType DEF TypeOK
<1>2. IsFiniteSet(Tied(x)) /\ Cardinality(Tied(x)) \in Nat
  BY <1>1, FS_Subset, FS_CardinalityType, Tied(x) \subseteq rows DEF Tied
<1>3. Place(x) \in Nat
  BY PlaceIsNat DEF TypeOK
<1>4. ~Above(x, x)
  <2>1. time[x] \in Int /\ x \in Int
    BY ListingsAssumption DEF TypeOK
  <2>. QED  BY <2>1 DEF Above
<1>. QED  BY <1>1, <1>2, <1>3, <1>4 DEF Tied

\* Tied rows have the same place and the same ties.
LEMMA TiedAlike ==
  ASSUME TypeOK, NEW x \in rows, NEW y \in Tied(x)
  PROVE  Tied(y) = Tied(x) /\ Place(y) = Place(x)
<1>1. \A z \in rows : time[z] \in Int /\ z \in Int
  BY ListingsAssumption DEF TypeOK
<1>2. y \in rows /\ ~Above(y, x) /\ ~Above(x, y)
  BY DEF Tied
<1>3. \A z \in rows : /\ Above(z, x) <=> Above(z, y)
                      /\ Above(x, z) <=> Above(y, z)
  BY <1>1, <1>2 DEF Above
<1>4. Tied(y) = Tied(x)
  BY <1>3 DEF Tied
<1>5. {z \in rows : Above(z, y)} = {z \in rows : Above(z, x)}
  BY <1>3
<1>. QED  BY <1>4, <1>5 DEF Place

\* A row that comes before another has its run before it.
LEMMA RunsInOrder ==
  ASSUME TypeOK, NEW x \in rows, NEW y \in rows, Above(y, x)
  PROVE  Place(y) + Cardinality(Tied(y)) <= Place(x)
<1>. DEFINE A == {z \in rows : Above(z, y)}
            B == {z \in rows : Above(z, x)}
<1>1. \A z \in rows : time[z] \in Int /\ z \in Int
  BY ListingsAssumption DEF TypeOK
<1>2. \A z \in rows : Above(z, y) => Above(z, x)
  BY <1>1 DEF Above
<1>3. \A z \in Tied(y) : Above(z, x)
  BY <1>1 DEF Above, Tied
<1>4. A \cup Tied(y) \subseteq B
  BY <1>2, <1>3 DEF Tied
<1>5. A \cap Tied(y) = {}
  BY DEF Tied
<1>6. IsFiniteSet(A) /\ IsFiniteSet(B) /\ IsFiniteSet(Tied(y))
  BY PlaceIsNat, RunIsFinite DEF TypeOK
<1>7. /\ Cardinality(A) \in Nat /\ Cardinality(B) \in Nat
      /\ Cardinality(Tied(y)) \in Nat
  BY <1>6, FS_CardinalityType
<1>8. Cardinality(A \cup Tied(y)) = Cardinality(A) + Cardinality(Tied(y))
  <2>1. Cardinality(A \cup Tied(y))
          = Cardinality(A) + Cardinality(Tied(y)) - Cardinality(A \cap Tied(y))
    BY <1>6, FS_Union
  <2>2. Cardinality(A \cap Tied(y)) = 0
    BY <1>5, FS_EmptySet
  <2>. HIDE DEF A
  <2>. QED  BY <1>7, <2>1, <2>2
<1>9. Cardinality(A \cup Tied(y)) <= Cardinality(B)
  BY <1>4, <1>6, FS_Subset
<1>. QED  BY <1>8, <1>9 DEF Place

\* No run goes beyond the number of rows.
LEMMA RunsEnd ==
  ASSUME TypeOK, NEW x \in rows
  PROVE  Place(x) + Cardinality(Tied(x)) <= Cardinality(rows)
<1>. DEFINE A == {z \in rows : Above(z, x)}
<1>1. A \cup Tied(x) \subseteq rows /\ A \cap Tied(x) = {}
  BY DEF Tied
<1>2. IsFiniteSet(A) /\ IsFiniteSet(rows) /\ IsFiniteSet(Tied(x))
  BY PlaceIsNat, RunIsFinite DEF TypeOK
<1>3. /\ Cardinality(A) \in Nat /\ Cardinality(rows) \in Nat
      /\ Cardinality(Tied(x)) \in Nat
  BY <1>2, FS_CardinalityType
<1>4. Cardinality(A \cup Tied(x)) = Cardinality(A) + Cardinality(Tied(x))
  <2>1. Cardinality(A \cup Tied(x))
          = Cardinality(A) + Cardinality(Tied(x)) - Cardinality(A \cap Tied(x))
    BY <1>2, FS_Union
  <2>2. Cardinality(A \cap Tied(x)) = 0
    BY <1>1, FS_EmptySet
  <2>. HIDE DEF A
  <2>. QED  BY <1>3, <2>1, <2>2
<1>5. Cardinality(A \cup Tied(x)) <= Cardinality(rows)
  BY <1>1, <1>2, FS_Subset
<1>. QED  BY <1>4, <1>5 DEF Place

\* Each row of a page has a position of its own in the window: one bijection
\* for each run, glued together.
LEMMA PagePositions ==
  ASSUME TypeOK, NEW S \in SUBSET rows, IsPage(S)
  PROVE  ExistsInjection(S, Window \cap (1..Cardinality(rows)))
<1>. DEFINE W(x) == Window \cap Run(x)
            at(x) == CHOOSE g : g \in Bijection(S \cap Tied(x), W(x))
            f == [x \in S |-> at(x)[x]]
            P == Window \cap (1..Cardinality(rows))
<1>1. ASSUME NEW x \in S
      PROVE  at(x) \in Bijection(S \cap Tied(x), W(x))
  <2>1. IsFiniteSet(S \cap Tied(x))
    BY RunIsFinite, FS_Intersection
  <2>2. IsFiniteSet(W(x))
    <3>1. IsFiniteSet(Run(x))
      BY RunIsFinite, FS_Interval DEF Run
    <3>. QED  BY <3>1, FS_Intersection
  <2>3. Cardinality(S \cap Tied(x)) = Cardinality(W(x))
    BY DEF IsPage, Run
  <2>4. Bijection(S \cap Tied(x), W(x)) # {}
    BY <2>1, <2>2, <2>3, FS_SameCardinalityBij, Fun_ExistsBij
  <2>. QED  BY <2>4
<1>2. ASSUME NEW x \in S
      PROVE  /\ f[x] \in Window /\ f[x] \in Run(x)
             /\ \A y \in S \cap Tied(x) : at(x)[y] = f[x] => y = x
  <2>1. x \in S \cap Tied(x)
    BY RunIsFinite
  <2>2. /\ at(x) \in [S \cap Tied(x) -> W(x)]
        /\ \A a, b \in S \cap Tied(x) : at(x)[a] = at(x)[b] => a = b
    <3>1. at(x) \in Bijection(S \cap Tied(x), W(x))
      BY <1>1
    <3>. HIDE DEF at, W
    <3>. QED  BY <3>1, Fun_BijectionProperties
  <2>. HIDE DEF at
  <2>3. f[x] = at(x)[x]
    OBVIOUS
  <2>. QED  BY <2>1, <2>2, <2>3
<1>3. ASSUME NEW x \in S, NEW y \in S, f[x] = f[y]
      PROVE  x = y
  <2>1. /\ Place(x) \in Nat /\ Cardinality(Tied(x)) \in Nat
        /\ Place(y) \in Nat /\ Cardinality(Tied(y)) \in Nat
    BY RunIsFinite
  <2>2. /\ f[x] \in Int
        /\ f[x] > Place(x) /\ f[x] <= Place(x) + Cardinality(Tied(x))
        /\ f[x] > Place(y) /\ f[x] <= Place(y) + Cardinality(Tied(y))
    BY <1>2, <1>3, <2>1 DEF Run
  <2>3. ~Above(x, y) /\ ~Above(y, x)
    <3>. HIDE DEF f
    <3>. QED  BY <2>1, <2>2, RunsInOrder
  <2>4. y \in S \cap Tied(x)
    BY <2>3 DEF Tied
  <2>5. at(y) = at(x)
    BY <2>4, TiedAlike DEF Run
  <2>6. at(x)[y] = f[x]
    BY <1>3, <2>5
  <2>. QED  BY <1>2, <2>4, <2>6
<1>4. f \in [S -> P]
  <2>1. ASSUME NEW x \in S PROVE f[x] \in P
    <3>1. /\ Place(x) \in Nat /\ Cardinality(Tied(x)) \in Nat
          /\ Cardinality(rows) \in Nat
          /\ Place(x) + Cardinality(Tied(x)) <= Cardinality(rows)
      BY RunIsFinite, RunsEnd
    <3>2. f[x] \in Window /\ f[x] \in Run(x)
      BY <1>2
    <3>. HIDE DEF f
    <3>3. f[x] \in 1..Cardinality(rows)
      BY <3>1, <3>2 DEF Run
    <3>. QED  BY <3>2, <3>3
  <2>. HIDE DEF at, P
  <2>. QED  BY <2>1
<1>. HIDE DEF f, P
<1>5. f \in Injection(S, P)
  BY <1>3, <1>4, Fun_IsInj
<1>. QED  BY <1>5, Fun_ExistsInj DEF P

\* A page is no longer than its limit, and ends within the rows there are.
LEMMA PageFits ==
  ASSUME TypeOK, NEW S \in SUBSET rows, IsPage(S)
  PROVE  /\ Cardinality(S) <= limit
         /\ S # {} => skip + Cardinality(S) <= Cardinality(rows)
<1>. DEFINE n == Cardinality(rows)
            P == Window \cap (1..n)
<1>1. limit \in Nat /\ skip \in Nat
  <2>1. limit \in Nat /\ walk.page - 1 \in Nat
    BY ListingsAssumption DEF TypeOK
  <2>. QED  BY <2>1 DEF skip
<1>2. n \in Nat /\ IsFiniteSet(S)
  BY ListingsAssumption, FS_Subset, FS_CardinalityType DEF TypeOK
<1>3. PICK f : f \in Injection(S, P)
  BY PagePositions, Fun_ExistsInj
<1>4. IsFiniteSet(Window) /\ Cardinality(Window) = limit
  BY <1>1, FS_Interval DEF Window
<1>5. IsFiniteSet(P) /\ Cardinality(P) <= limit
  BY <1>4, FS_Intersection
<1>6. Cardinality(S) <= Cardinality(P)
  BY <1>3, <1>5, FS_Injection
<1>7. Cardinality(S) \in Nat /\ Cardinality(P) \in Nat
  BY <1>2, <1>5, FS_CardinalityType
<1>8. ASSUME S # {} PROVE skip + Cardinality(S) <= n
  <2>1. P # {}
    BY <1>3, <1>8, Fun_InjectionProperties
  <2>2. P \subseteq (skip + 1)..n /\ skip + 1 <= n
    BY <1>1, <1>2, <2>1 DEF Window
  <2>3. IsFiniteSet((skip + 1)..n) /\ Cardinality((skip + 1)..n) = n - skip
    BY <1>1, <1>2, <2>2, FS_Interval
  <2>4. Cardinality(P) <= n - skip
    BY <2>2, <2>3, FS_Subset
  <2>. HIDE DEF P, n
  <2>. QED  BY <1>1, <1>2, <1>6, <1>7, <2>4
<1>. QED  BY <1>1, <1>5, <1>6, <1>7, <1>8

-----------------------------------------------------------------------------
\* The page that was found fits its limit and the rows that the second query
\* counts, and the answer its total.
PageInv ==
  /\ walk.pc \in {"count", "answered"} => Cardinality(walk.found) <= limit
  /\ walk.pc = "count" /\ walk.found # {} =>
       skip + Cardinality(walk.found) <= Cardinality(rows)
  /\ walk.pc = "answered" /\ walk.found # {} =>
       skip + Cardinality(walk.found) <= walk.total

LEMMA PageStep == TypeOK /\ WalkInv /\ PageInv /\ [Next]_vars => PageInv'
<1>. SUFFICES ASSUME TypeOK, WalkInv, PageInv, [Next]_vars PROVE PageInv'
  OBVIOUS
<1>1. ASSUME NEW S \in SUBSET (Rows \ rows), Commit(S) PROVE PageInv'
  <2>1. /\ UNCHANGED <<limit, walk>> /\ rows \subseteq rows' /\ skip' = skip
        /\ rows' \subseteq Rows
    BY <1>1 DEF Commit, skip, TypeOK
  <2>2. IsFiniteSet(rows') /\ IsFiniteSet(walk.found)
    BY <2>1, ListingsAssumption, FS_Subset DEF TypeOK
  <2>3. Cardinality(rows) <= Cardinality(rows')
    BY <2>1, <2>2, FS_Subset
  <2>4. /\ Cardinality(rows) \in Nat /\ Cardinality(rows') \in Nat
        /\ Cardinality(walk.found) \in Nat
    BY <2>1, <2>2, FS_Subset, FS_CardinalityType
  <2>5. skip \in Int
    BY ListingsAssumption DEF skip, TypeOK
  <2>. QED  BY <2>1, <2>3, <2>4, <2>5 DEF PageInv
<1>2. CASE FindMany
  <2>1. PICK S \in SUBSET rows :
          IsPage(S) /\ walk' = [walk EXCEPT !.pc = "count", !.found = S]
    BY <1>2 DEF FindMany
  <2>2. /\ walk'.pc = "count" /\ walk'.found = S /\ walk'.page = walk.page
        /\ limit' = limit /\ rows' = rows /\ skip' = skip
    BY <1>2, <2>1 DEF FindMany, TypeOK, skip
  <2>. QED  BY <2>1, <2>2, PageFits DEF PageInv
<1>3. CASE Count
  <2>1. /\ walk.pc = "count" /\ walk'.pc = "answered"
        /\ walk'.found = walk.found /\ walk'.total = Cardinality(rows)
        /\ limit' = limit /\ rows' = rows /\ skip' = skip
    BY <1>3 DEF Count, CountRows, TypeOK, skip
  <2>. QED  BY <2>1 DEF PageInv
<1>4. CASE Fail
  BY <1>4 DEF Fail, TypeOK, PageInv
<1>5. CASE NextPage
  <2>1. walk'.pc \in {"rows", "ended"}
    BY <1>5 DEF NextPage, TypeOK
  <2>. QED  BY <2>1 DEF PageInv
<1>6. CASE UNCHANGED vars
  BY <1>6 DEF vars, PageInv, skip
<1>. QED  BY <1>1, <1>2, <1>3, <1>4, <1>5, <1>6 DEF Next, Terminating

\* meta.total is never below what the page shows and the pages before it hold,
\* and no page is longer than its limit: for any number of rows, however many
\* of them are tied, and whatever is committed between the two queries.
THEOREM TotalIsEnough == Spec => []TotalCoversPage
<1>1. Init => PageInv
  BY DEF Init, PageInv
<1>2. Spec => []PageInv
  BY <1>1, InitType, TypeStep, InitWalk, WalkStep, PageStep, PTL DEF Spec
<1>3. PageInv => TotalCoversPage
  BY DEF PageInv, TotalCoversPage, skip
<1>. QED  BY <1>2, <1>3, PTL
=============================================================================
