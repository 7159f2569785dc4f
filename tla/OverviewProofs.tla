--------------------------- MODULE OverviewProofs ---------------------------
(***************************************************************************)
(* Proofs of what the answers of the ledger add up to: the categories of   *)
(* an overview to its totals, and what a listing of budgets compares to    *)
(* the transactions of one calendar month; with the sums over finite sets  *)
(* and the calendar they rest on.                                          *)
(***************************************************************************)
EXTENDS LedgerProofs, FiniteSetTheorems

-----------------------------------------------------------------------------
(* Sums over finite sets. *)

\* Induction over finite sets, as a smallest counterexample.
LEMMA Smallest ==
  ASSUME NEW S, IsFiniteSet(S), NEW Bad \in SUBSET (SUBSET S), Bad # {}
  PROVE  \E T \in Bad : \A U \in SUBSET T : U # T => U \notin Bad
<1>1. IsWellFoundedOn(StrictSubsetOrdering(S), SUBSET S)
  BY FS_FiniteSubsetsOfFinite, FS_StrictSubsetOrderingWellFounded
<1>2. PICK T \in Bad : \A U \in Bad : ~(<<U, T>> \in StrictSubsetOrdering(S))
  BY <1>1, WFMin
<1> QED
  BY <1>2 DEF StrictSubsetOrdering

Pick(s) == CHOOSE x \in s : TRUE

\* How MapThenSumSet adds up the values that the function K has on the set T.
SumRule(K, T, g) ==
  g = [s \in SUBSET T |-> IF s = {} THEN 0 ELSE K[Pick(s)] + g[s \ {Pick(s)}]]

SumOf(K, T) == (CHOOSE g : SumRule(K, T, g))[T]

LEMMA Picked ==
  ASSUME NEW s, s # {}
  PROVE  Pick(s) \in s
BY DEF Pick

LEMMA SumRuleIsUnique ==
  ASSUME NEW K, NEW T, IsFiniteSet(T), NEW f, NEW g,
         SumRule(K, T, f), SumRule(K, T, g)
  PROVE  f = g
<1> DEFINE Bad == {s \in SUBSET T : f[s] # g[s]}
<1>1. ASSUME Bad # {} PROVE FALSE
  <2>0. Bad \in SUBSET (SUBSET T)
    OBVIOUS
  <2> HIDE DEF Bad
  <2>1. PICK s \in Bad : \A u \in SUBSET s : u # s => u \notin Bad
    BY <1>1, <2>0, Smallest
  <2> USE DEF Bad
  <2>2. CASE s = {}
    BY <2>1, <2>2 DEF SumRule
  <2>3. CASE s # {}
    <3>1. Pick(s) \in s
      BY <2>3, Picked
    <3>2. f[s \ {Pick(s)}] = g[s \ {Pick(s)}]
      BY <2>1, <3>1
    <3>3. /\ f[s] = K[Pick(s)] + f[s \ {Pick(s)}]
          /\ g[s] = K[Pick(s)] + g[s \ {Pick(s)}]
      BY <2>1, <2>3 DEF SumRule
    <3> QED
      BY <2>1, <3>2, <3>3
  <2> QED
    BY <2>2, <2>3
<1>2. \A s \in SUBSET T : f[s] = g[s]
  BY <1>1
<1>3. /\ f = [s \in SUBSET T |-> f[s]]
      /\ g = [s \in SUBSET T |-> g[s]]
  BY DEF SumRule
<1> QED
  BY <1>2, <1>3

LEMMA SumRuleRestricts ==
  ASSUME NEW K, NEW T, NEW U \in SUBSET T, NEW g, SumRule(K, T, g),
         NEW h, h = [s \in SUBSET U |-> g[s]]
  PROVE  SumRule(K, U, h)
<1>1. ASSUME NEW s \in SUBSET U
      PROVE  h[s] = IF s = {} THEN 0 ELSE K[Pick(s)] + h[s \ {Pick(s)}]
  BY DEF SumRule
<1>2. h = [s \in SUBSET U |-> IF s = {} THEN 0 ELSE K[Pick(s)] + h[s \ {Pick(s)}]]
  BY <1>1, Zenon
<1> QED
  BY <1>2 DEF SumRule

LEMMA SumRuleHasSolution ==
  ASSUME NEW K, NEW S, IsFiniteSet(S)
  PROVE  \E g : SumRule(K, S, g)
<1> DEFINE Bad == {T \in SUBSET S : ~ \E g : SumRule(K, T, g)}
<1>1. ASSUME Bad # {} PROVE FALSE
  <2>0. Bad \in SUBSET (SUBSET S)
    OBVIOUS
  <2> HIDE DEF Bad
  <2>1. PICK T \in Bad : \A U \in SUBSET T : U # T => U \notin Bad
    BY <1>1, <2>0, Smallest
  <2> USE DEF Bad
  <2>2. \A U \in SUBSET T : U # T => \E g : SumRule(K, U, g)
    BY <2>1
  <2> DEFINE below == [U \in SUBSET T |-> CHOOSE g : SumRule(K, U, g)]
             G == [s \in SUBSET T |->
                     IF s = {} THEN 0
                     ELSE K[Pick(s)] + below[s \ {Pick(s)}][s \ {Pick(s)}]]
  <2>3. \A U \in SUBSET T : U # T => SumRule(K, U, below[U])
    BY <2>2
  <2> HIDE DEF below
  <2>4. ASSUME NEW U \in SUBSET T, U # T
        PROVE  below[U][U] = G[U]
    <3>1. CASE U = {}
      BY <2>3, <2>4, <3>1 DEF SumRule
    <3>2. CASE U # {}
      <4> DEFINE V == U \ {Pick(U)}
      <4>1. Pick(U) \in U
        BY <3>2, Picked
      <4>2. V \in SUBSET U /\ V # T /\ V \in SUBSET T
        BY <2>4, <4>1
      <4>3. below[U][U] = K[Pick(U)] + below[U][V]
        BY <2>3, <2>4, <3>2 DEF SumRule
      <4> DEFINE part == [s \in SUBSET V |-> below[U][s]]
      <4> HIDE DEF V
      <4>4. SumRule(K, V, part)
        BY <2>3, <2>4, <4>2, SumRuleRestricts
      <4>5. SumRule(K, V, below[V])
        BY <2>3, <4>2
      <4>6. IsFiniteSet(V)
        BY <2>1, <4>2, FS_Subset
      <4>7. below[V] = part
        BY <4>4, <4>5, <4>6, SumRuleIsUnique
      <4>8. below[V][V] = below[U][V]
        BY <4>7
      <4>9. G[U] = K[Pick(U)] + below[V][V]
        BY <3>2 DEF V
      <4> QED
        BY <4>3, <4>8, <4>9
    <3> QED
      BY <3>1, <3>2
  <2>5. ASSUME NEW s \in SUBSET T, s # {}
        PROVE  G[s] = K[Pick(s)] + G[s \ {Pick(s)}]
    <3>1. Pick(s) \in s
      BY <2>5, Picked
    <3>2. s \ {Pick(s)} \in SUBSET T /\ s \ {Pick(s)} # T
      BY <3>1
    <3>3. below[s \ {Pick(s)}][s \ {Pick(s)}] = G[s \ {Pick(s)}]
      BY <2>4, <3>2
    <3> QED
      BY <2>5, <3>3
  <2>6. \A s \in SUBSET T :
          G[s] = IF s = {} THEN 0 ELSE K[Pick(s)] + G[s \ {Pick(s)}]
    BY <2>5
  <2>7. G = [s \in SUBSET T |-> G[s]]
    OBVIOUS
  <2> HIDE DEF G
  <2>8. SumRule(K, T, G)
    BY <2>6, <2>7 DEF SumRule
  <2> QED
    BY <2>1, <2>8
<1> QED
  BY <1>1

LEMMA SumIsSolved ==
  ASSUME NEW K, NEW T, IsFiniteSet(T), NEW g, SumRule(K, T, g)
  PROVE  SumOf(K, T) = g[T]
<1>1. SumRule(K, T, CHOOSE f : SumRule(K, T, f))
  OBVIOUS
<1> QED
  BY <1>1, SumRuleIsUnique DEF SumOf

LEMMA SumSteps ==
  ASSUME NEW K, NEW T, IsFiniteSet(T)
  PROVE  /\ SumOf(K, {}) = 0
         /\ T # {} => SumOf(K, T) = K[Pick(T)] + SumOf(K, T \ {Pick(T)})
<1> DEFINE sums(U) == CHOOSE g : SumRule(K, U, g)
<1>1. ASSUME NEW U, IsFiniteSet(U) PROVE SumRule(K, U, sums(U))
  BY <1>1, SumRuleHasSolution
<1>2. SumOf(K, {}) = 0
  <2>1. SumRule(K, {}, sums({}))
    BY <1>1, FS_EmptySet
  <2> HIDE DEF sums
  <2>2. sums({})[{}] = 0
    BY <2>1 DEF SumRule
  <2> QED
    BY <2>2 DEF SumOf, sums
<1>3. ASSUME T # {}
      PROVE  SumOf(K, T) = K[Pick(T)] + SumOf(K, T \ {Pick(T)})
  <2> DEFINE U == T \ {Pick(T)}
             part == [s \in SUBSET U |-> sums(T)[s]]
  <2>1. SumRule(K, T, sums(T)) /\ IsFiniteSet(U) /\ U \in SUBSET T
    BY <1>1, FS_RemoveElement
  <2>2. SumRule(K, U, sums(U))
    BY <1>1, <2>1
  <2> HIDE DEF U, sums
  <2>3. SumRule(K, U, part)
    BY <2>1, SumRuleRestricts
  <2>4. sums(U) = part
    BY <2>1, <2>2, <2>3, SumRuleIsUnique
  <2>5. sums(U)[U] = sums(T)[U]
    BY <2>4
  <2>6. sums(T)[T] = K[Pick(T)] + sums(T)[U]
    BY <1>3, <2>1 DEF SumRule, U
  <2> QED
    BY <2>5, <2>6 DEF SumOf, sums, U
<1> QED
  BY <1>2, <1>3

LEMMA SumIsInteger ==
  ASSUME NEW S, IsFiniteSet(S), NEW K, \A x \in S : K[x] \in Int
  PROVE  SumOf(K, S) \in Int
<1> DEFINE Bad == {T \in SUBSET S : SumOf(K, T) \notin Int}
<1>1. Bad \in SUBSET (SUBSET S)
  OBVIOUS
<1>2. ASSUME Bad # {} PROVE FALSE
  <2> HIDE DEF Bad
  <2>1. PICK T \in Bad : \A U \in SUBSET T : U # T => U \notin Bad
    BY <1>1, <1>2, Smallest
  <2>2. T \in SUBSET S /\ IsFiniteSet(T)
    BY <1>1, <2>1, FS_Subset
  <2> USE DEF Bad
  <2>3. T # {}
    <3>1. SumOf(K, {}) = 0 /\ SumOf(K, T) \notin Int
      BY <2>1, <2>2, SumSteps
    <3> QED
      BY <3>1
  <2>4. Pick(T) \in T
    BY <2>3, Picked
  <2>5. SumOf(K, T \ {Pick(T)}) \in Int
    BY <2>1, <2>2, <2>4
  <2>6. SumOf(K, T) = K[Pick(T)] + SumOf(K, T \ {Pick(T)})
    BY <2>2, <2>3, SumSteps
  <2> QED
    BY <2>1, <2>2, <2>4, <2>5, <2>6
<1> QED
  BY <1>2

\* The order in which values are added does not matter.
LEMMA SumOfOneMore ==
  ASSUME NEW S, IsFiniteSet(S), NEW K, \A x \in S : K[x] \in Int,
         NEW x \in S
  PROVE  SumOf(K, S) = K[x] + SumOf(K, S \ {x})
<1> DEFINE Fails(T) == \E y \in T : SumOf(K, T) # K[y] + SumOf(K, T \ {y})
           Bad == {T \in SUBSET S : Fails(T)}
<1>1. Bad \in SUBSET (SUBSET S)
  OBVIOUS
<1>2. ASSUME Bad # {} PROVE FALSE
  <2> HIDE DEF Bad
  <2>1. PICK T \in Bad : \A U \in SUBSET T : U # T => U \notin Bad
    BY <1>1, <1>2, Smallest
  <2>2. T \in SUBSET S /\ IsFiniteSet(T)
    BY <1>1, <2>1, FS_Subset
  <2>3. \A U \in SUBSET T : U # T => ~Fails(U)
    BY <2>1, <2>2 DEF Bad
  <2>4. PICK y \in T : SumOf(K, T) # K[y] + SumOf(K, T \ {y})
    BY <2>1 DEF Bad
  <2> DEFINE z == Pick(T)
  <2>5. z \in T /\ SumOf(K, T) = K[z] + SumOf(K, T \ {z})
    BY <2>2, <2>4, Picked, SumSteps
  <2> HIDE DEF z
  <2>6. y # z
    BY <2>4, <2>5
  <2>7. SumOf(K, T \ {z}) = K[y] + SumOf(K, (T \ {z}) \ {y})
    <3>1. T \ {z} \in SUBSET T /\ T \ {z} # T /\ y \in T \ {z}
      BY <2>4, <2>5, <2>6
    <3> QED
      BY <2>3, <3>1
  <2>8. SumOf(K, T \ {y}) = K[z] + SumOf(K, (T \ {y}) \ {z})
    <3>1. T \ {y} \in SUBSET T /\ T \ {y} # T /\ z \in T \ {y}
      BY <2>4, <2>5, <2>6
    <3> QED
      BY <2>3, <3>1
  <2> DEFINE rest == SumOf(K, T \ {y, z})
  <2>9. (T \ {z}) \ {y} = T \ {y, z} /\ (T \ {y}) \ {z} = T \ {y, z}
    OBVIOUS
  <2>10. rest \in Int
    <3>1. IsFiniteSet(T \ {y, z}) /\ \A u \in T \ {y, z} : K[u] \in Int
      BY <2>2, FS_Subset
    <3> QED
      BY <3>1, SumIsInteger
  <2>11. /\ SumOf(K, T \ {z}) = K[y] + rest
         /\ SumOf(K, T \ {y}) = K[z] + rest
    BY <2>7, <2>8, <2>9
  <2>12. K[y] \in Int /\ K[z] \in Int
    BY <2>2, <2>4, <2>5
  <2> HIDE DEF rest
  <2> QED
    BY <2>4, <2>5, <2>10, <2>11, <2>12
<1>3. ~Fails(S)
  BY <1>2
<1> QED
  BY <1>3

LEMMA SumOfUnion ==
  ASSUME NEW K, NEW A, NEW S, IsFiniteSet(A), IsFiniteSet(S), A \cap S = {},
         \A x \in A \cup S : K[x] \in Int
  PROVE  SumOf(K, A \cup S) = SumOf(K, A) + SumOf(K, S)
<1> DEFINE Bad == {T \in SUBSET S : SumOf(K, A \cup T) # SumOf(K, A) + SumOf(K, T)}
<1>1. Bad \in SUBSET (SUBSET S)
  OBVIOUS
<1>0. SumOf(K, A) \in Int
  BY SumIsInteger
<1>2. ASSUME Bad # {} PROVE FALSE
  <2> HIDE DEF Bad
  <2>1. PICK T \in Bad : \A U \in SUBSET T : U # T => U \notin Bad
    BY <1>1, <1>2, Smallest
  <2>2. T \in SUBSET S /\ IsFiniteSet(T)
    BY <1>1, <2>1, FS_Subset
  <2>3. SumOf(K, A \cup T) # SumOf(K, A) + SumOf(K, T)
    BY <2>1 DEF Bad
  <2>4. T # {}
    <3>1. SumOf(K, {}) = 0
      BY <2>2, SumSteps
    <3>2. SUFFICES ASSUME T = {} PROVE FALSE
      OBVIOUS
    <3>3. A \cup T = A
      BY <3>2
    <3>4. SumOf(K, A \cup T) = SumOf(K, A) /\ SumOf(K, T) = 0
      BY <3>1, <3>2, <3>3
    <3> QED
      BY <1>0, <2>3, <3>4
  <2>5. PICK y : y \in T
    BY <2>4
  <2> DEFINE U == T \ {y}
  <2>6. SumOf(K, A \cup U) = SumOf(K, A) + SumOf(K, U)
    <3>1. U \in SUBSET T /\ U # T /\ U \in SUBSET S
      BY <2>2, <2>5
    <3> HIDE DEF U
    <3> QED
      BY <2>1, <3>1 DEF Bad
  <2>7. SumOf(K, T) = K[y] + SumOf(K, U)
    BY <2>2, <2>5, SumOfOneMore
  <2>8. SumOf(K, A \cup T) = K[y] + SumOf(K, A \cup U)
    <3>1. IsFiniteSet(A \cup T)
      BY <2>2, FS_Union
    <3>2. (A \cup T) \ {y} = A \cup U
      BY <2>2, <2>5
    <3>3. \A x \in A \cup T : K[x] \in Int
      BY <2>2
    <3> HIDE DEF U
    <3>4. SumOf(K, A \cup T) = K[y] + SumOf(K, (A \cup T) \ {y})
      BY <2>5, <3>1, <3>3, SumOfOneMore
    <3> QED
      BY <3>2, <3>4
  <2>9. SumOf(K, U) \in Int /\ K[y] \in Int
    <3>1. IsFiniteSet(U) /\ \A x \in U : K[x] \in Int
      BY <2>2, FS_Subset
    <3> QED
      BY <2>2, <2>5, <3>1, SumIsInteger
  <2> HIDE DEF U
  <2> QED
    BY <1>0, <2>3, <2>6, <2>7, <2>8, <2>9
<1>3. S \notin Bad
  BY <1>2
<1> QED
  BY <1>3

LEMMA SumsAgree ==
  ASSUME NEW S, IsFiniteSet(S), NEW K, NEW L, \A x \in S : K[x] = L[x]
  PROVE  SumOf(K, S) = SumOf(L, S)
<1>1. PICK g : SumRule(K, S, g)
  BY SumRuleHasSolution
<1>2. PICK h : SumRule(L, S, h)
  BY SumRuleHasSolution
<1>3. ASSUME NEW s \in SUBSET S
      PROVE  (IF s = {} THEN 0 ELSE K[Pick(s)] + g[s \ {Pick(s)}])
               = (IF s = {} THEN 0 ELSE L[Pick(s)] + g[s \ {Pick(s)}])
  BY Picked
<1>4. SumRule(L, S, g)
  BY <1>1, <1>3, Zenon DEF SumRule
<1>5. g = h
  BY <1>2, <1>4, SumRuleIsUnique
<1>6. SumOf(K, S) = g[S] /\ SumOf(L, S) = h[S]
  BY <1>1, <1>2, SumIsSolved
<1> QED
  BY <1>5, <1>6

\* M measures the subsets of S, and adds up over disjoint ones.
Additive(M, S) ==
  /\ M \in [SUBSET S -> Int] /\ M[{}] = 0
  /\ \A A, B \in SUBSET S : A \cap B = {} => M[A \cup B] = M[A] + M[B]

\* W[c] are the elements of S that f puts in group c.
Grouping(W, f, S, C) ==
  /\ W \in [C -> SUBSET S] /\ f \in [S -> C]
  /\ \A c \in C : \A i \in S : i \in W[c] <=> f[i] = c

\* The measures of the groups add up to that of the whole.
LEMMA GroupsAddUp ==
  ASSUME NEW S, NEW C, IsFiniteSet(C), NEW M, Additive(M, S),
         NEW W, NEW f, Grouping(W, f, S, C),
         NEW L, \A c \in C : L[c] = M[W[c]]
  PROVE  SumOf(L, C) = M[S]
<1> DEFINE With(D) == {i \in S : f[i] \in D}
           Bad == {D \in SUBSET C : SumOf(L, D) # M[With(D)]}
<1>1. Bad \in SUBSET (SUBSET C)
  OBVIOUS
<1>0. \A c \in C : L[c] = M[With({c})] /\ L[c] \in Int
  <2>1. ASSUME NEW c \in C
        PROVE  L[c] = M[With({c})] /\ L[c] \in Int
    <3>1. With({c}) = W[c] /\ With({c}) \in SUBSET S
      BY DEF Grouping
    <3> HIDE DEF With
    <3> QED
      BY <3>1 DEF Additive
  <2> QED
    BY <2>1
<1>2. ASSUME Bad # {} PROVE FALSE
  <2> HIDE DEF Bad
  <2>1. PICK D \in Bad : \A E \in SUBSET D : E # D => E \notin Bad
    BY <1>1, <1>2, Smallest
  <2>2. D \in SUBSET C /\ IsFiniteSet(D)
    BY <1>1, <2>1, FS_Subset
  <2>3. SumOf(L, D) # M[With(D)]
    BY <2>1 DEF Bad
  <2>4. D # {}
    <3>1. SumOf(L, {}) = 0 /\ With({}) = {}
      BY <2>2, SumSteps
    <3> QED
      BY <2>3, <3>1 DEF Additive
  <2>5. PICK d : d \in D
    BY <2>4
  <2> DEFINE E == D \ {d}
  <2>6. E \in SUBSET D /\ E # D /\ E \in SUBSET C
    BY <2>2, <2>5
  <2>7. SumOf(L, E) = M[With(E)]
    <3> HIDE DEF E
    <3> QED
      BY <2>1, <2>6 DEF Bad
  <2>8. SumOf(L, D) = L[d] + SumOf(L, E)
    <3>1. \A x \in D : L[x] \in Int
      BY <1>0, <2>2
    <3> QED
      BY <2>2, <2>5, <3>1, SumOfOneMore
  <2>9. M[With(D)] = M[With({d})] + M[With(E)]
    <3>1. /\ With(D) = With({d}) \cup With(E)
          /\ With({d}) \cap With(E) = {}
      BY <2>5
    <3>2. With({d}) \in SUBSET S /\ With(E) \in SUBSET S
      OBVIOUS
    <3> HIDE DEF With
    <3> QED
      BY <3>1, <3>2 DEF Additive
  <2> QED
    BY <1>0, <2>2, <2>3, <2>5, <2>7, <2>8, <2>9
<1>3. SumOf(L, C) = M[With(C)]
  BY <1>2
<1>4. With(C) = S
  BY DEF Grouping
<1> QED
  BY <1>3, <1>4

-----------------------------------------------------------------------------
(* The sums of Ledger. *)

KoboOf == [i \in Items |-> Kobo(i)]

LEMMA KoboAddsUp ==
  ASSUME NEW S \in SUBSET Items, IsFiniteSet(S)
  PROVE  MapThenSumSet(Kobo, S) = SumOf(KoboOf, S)
<1> DEFINE Rule(g) ==
      g = [s \in SUBSET S |-> IF s = {} THEN 0
                              ELSE Kobo(Pick(s)) + g[s \ {Pick(s)}]]
<1>1. MapThenSumSet(Kobo, S) = (CHOOSE g : Rule(g))[S]
  BY DEF MapThenSumSet, MapThenFoldSet, Pick
<1>2. ASSUME NEW g PROVE Rule(g) <=> SumRule(KoboOf, S, g)
  <2>1. ASSUME NEW s \in SUBSET S
        PROVE  (IF s = {} THEN 0 ELSE Kobo(Pick(s)) + g[s \ {Pick(s)}])
                 = (IF s = {} THEN 0 ELSE KoboOf[Pick(s)] + g[s \ {Pick(s)}])
    BY Picked DEF KoboOf
  <2> QED
    BY <2>1, Zenon DEF SumRule
<1>3. \E g : Rule(g)
  BY <1>2, SumRuleHasSolution
<1>4. SumRule(KoboOf, S, CHOOSE g : Rule(g))
  <2>1. Rule(CHOOSE g : Rule(g))
    BY <1>3
  <2> QED
    BY <1>2, <2>1
<1> HIDE DEF Rule
<1> QED
  BY <1>1, <1>4, SumIsSolved

Field(groups, field) == [g \in DOMAIN groups |-> groups[g][field]]

LEMMA OverAddsUp ==
  ASSUME NEW groups, IsFiniteSet(DOMAIN groups)
  PROVE  /\ SumOver(groups).sum = SumOf(Field(groups, "sum"), DOMAIN groups)
         /\ SumOver(groups).count = SumOf(Field(groups, "count"), DOMAIN groups)
<1> DEFINE S == DOMAIN groups
<1>1. SumOver(groups).sum = SumOf(Field(groups, "sum"), S)
  <2> DEFINE Rule(g) ==
        g = [s \in SUBSET S |-> IF s = {} THEN 0
                                ELSE groups[Pick(s)].sum + g[s \ {Pick(s)}]]
             K == Field(groups, "sum")
  <2>1. SumOver(groups).sum = (CHOOSE g : Rule(g))[S]
    BY DEF SumOver, MapThenSumSet, MapThenFoldSet, Pick
  <2>2. ASSUME NEW g PROVE Rule(g) <=> SumRule(K, S, g)
    <3>1. ASSUME NEW s \in SUBSET S
          PROVE  (IF s = {} THEN 0 ELSE groups[Pick(s)].sum + g[s \ {Pick(s)}])
                   = (IF s = {} THEN 0 ELSE K[Pick(s)] + g[s \ {Pick(s)}])
      BY Picked DEF Field
    <3> QED
      BY <3>1, Zenon DEF SumRule
  <2>3. \E g : Rule(g)
    BY <2>2, SumRuleHasSolution
  <2>4. SumRule(K, S, CHOOSE g : Rule(g))
    <3>1. Rule(CHOOSE g : Rule(g))
      BY <2>3
    <3> QED
      BY <2>2, <3>1
  <2> HIDE DEF Rule, K
  <2>5. SumOver(groups).sum = SumOf(K, S)
    BY <2>1, <2>4, SumIsSolved
  <2> QED
    BY <2>5 DEF K
<1>2. SumOver(groups).count = SumOf(Field(groups, "count"), S)
  <2> DEFINE Rule(g) ==
        g = [s \in SUBSET S |-> IF s = {} THEN 0
                                ELSE groups[Pick(s)].count + g[s \ {Pick(s)}]]
             K == Field(groups, "count")
  <2>1. SumOver(groups).count = (CHOOSE g : Rule(g))[S]
    BY DEF SumOver, MapThenSumSet, MapThenFoldSet, Pick
  <2>2. ASSUME NEW g PROVE Rule(g) <=> SumRule(K, S, g)
    <3>1. ASSUME NEW s \in SUBSET S
          PROVE  (IF s = {} THEN 0 ELSE groups[Pick(s)].count + g[s \ {Pick(s)}])
                   = (IF s = {} THEN 0 ELSE K[Pick(s)] + g[s \ {Pick(s)}])
      BY Picked DEF Field
    <3> QED
      BY <3>1, Zenon DEF SumRule
  <2>3. \E g : Rule(g)
    BY <2>2, SumRuleHasSolution
  <2>4. SumRule(K, S, CHOOSE g : Rule(g))
    <3>1. Rule(CHOOSE g : Rule(g))
      BY <2>3
    <3> QED
      BY <2>2, <3>1
  <2> HIDE DEF Rule, K
  <2>5. SumOver(groups).count = SumOf(K, S)
    BY <2>1, <2>4, SumIsSolved
  <2> QED
    BY <2>5 DEF K
<1> QED
  BY <1>1, <1>2

LEMMA KoboIsInteger ==
  \A i \in Items : KoboOf[i] \in Int
<1>1. ASSUME NEW i \in Items PROVE Kobo(i) \in Int
  <2>1. Extracted[i].amount \in Int
    BY LedgerAssumption
  <2> QED
    BY <2>1 DEF Kobo, toKobo
<1> QED
  BY <1>1 DEF KoboOf

LEMMA GroupFields ==
  ASSUME NEW S \in SUBSET Items, IsFiniteSet(S)
  PROVE  /\ Group(S) = [sum |-> SumOf(KoboOf, S), count |-> Cardinality(S)]
         /\ SumOf(KoboOf, S) \in Int /\ Cardinality(S) \in Nat
<1>1. MapThenSumSet(Kobo, S) = SumOf(KoboOf, S)
  BY KoboAddsUp
<1>2. SumOf(KoboOf, S) \in Int
  BY KoboIsInteger, SumIsInteger
<1> QED
  BY <1>1, <1>2, FS_CardinalityType DEF Group

\* However the rows of a set are grouped, its groups add up to the whole.
LEMMA GroupingAddsUp ==
  ASSUME NEW S \in SUBSET Items, IsFiniteSet(S),
         NEW C, IsFiniteSet(C), NEW f \in [S -> C],
         NEW groups, groups = [c \in C |-> Group({i \in S : f[i] = c})]
  PROVE  SumOver(groups) = Group(S)
<1> DEFINE sums   == [T \in SUBSET S |-> SumOf(KoboOf, T)]
           counts == [T \in SUBSET S |-> Cardinality(T)]
           Sums   == Field(groups, "sum")
           Counts == Field(groups, "count")
           W      == [c \in C |-> {i \in S : f[i] = c}]
<1>1. ASSUME NEW T \in SUBSET S
      PROVE  /\ IsFiniteSet(T) /\ T \in SUBSET Items
             /\ Group(T) = [sum |-> SumOf(KoboOf, T), count |-> Cardinality(T)]
             /\ SumOf(KoboOf, T) \in Int /\ Cardinality(T) \in Int
  BY FS_Subset, GroupFields
<1>2. DOMAIN groups = C
  OBVIOUS
<1>3. \A c \in C : /\ W[c] = {i \in S : f[i] = c} /\ W[c] \in SUBSET S
                   /\ groups[c] = Group(W[c])
  OBVIOUS
<1> HIDE DEF W
<1>4. \A c \in C : Sums[c] = sums[W[c]] /\ Counts[c] = counts[W[c]]
  BY <1>1, <1>2, <1>3 DEF Field
<1>5. sums \in [SUBSET S -> Int] /\ counts \in [SUBSET S -> Int]
  BY <1>1
<1>6. sums[{}] = 0 /\ counts[{}] = 0
  <2>1. SumOf(KoboOf, {}) = 0 /\ Cardinality({}) = 0
    BY SumSteps, FS_EmptySet
  <2> QED
    BY <2>1
<1>7. ASSUME NEW A \in SUBSET S, NEW B \in SUBSET S, A \cap B = {}
      PROVE  /\ sums[A \cup B] = sums[A] + sums[B]
             /\ counts[A \cup B] = counts[A] + counts[B]
  <2>1. IsFiniteSet(A) /\ IsFiniteSet(B) /\ A \cup B \in SUBSET S
    BY <1>1
  <2>2. SumOf(KoboOf, A \cup B) = SumOf(KoboOf, A) + SumOf(KoboOf, B)
    BY <1>7, <2>1, KoboIsInteger, SumOfUnion
  <2>3. Cardinality(A \cup B) = Cardinality(A) + Cardinality(B)
    <3>1. Cardinality(A \cup B)
            = Cardinality(A) + Cardinality(B) - Cardinality(A \cap B)
      BY <2>1, FS_Union
    <3>2. Cardinality(A \cap B) = 0
      BY <1>7, FS_EmptySet
    <3> QED
      BY <1>1, <3>1, <3>2
  <2> QED
    BY <2>1, <2>2, <2>3
<1>8. sums[S] = SumOf(KoboOf, S) /\ counts[S] = Cardinality(S)
  OBVIOUS
<1> HIDE DEF sums, counts, Sums, Counts
<1>9. SumOf(Sums, C) = sums[S] /\ SumOf(Counts, C) = counts[S]
  <2>1. Grouping(W, f, S, C)
    BY <1>3 DEF Grouping, W
  <2>2. Additive(sums, S) /\ Additive(counts, S)
    BY <1>5, <1>6, <1>7 DEF Additive
  <2> QED
    BY <1>4, <2>1, <2>2, GroupsAddUp
<1>10. /\ SumOver(groups).sum = SumOf(KoboOf, S)
       /\ SumOver(groups).count = Cardinality(S)
  BY <1>2, <1>8, <1>9, OverAddsUp DEF Sums, Counts
<1>11. SumOver(groups) = [sum   |-> SumOver(groups).sum,
                          count |-> SumOver(groups).count]
  BY DEF SumOver
<1> QED
  BY <1>1, <1>10, <1>11

-----------------------------------------------------------------------------
(* An overview adds up. *)

\* What an overview has read adds up to the rows it asked for, each query over
\* the statements that were committed when it ran.
SumsRead(r) ==
  /\ req[r].kind \in {"overview", "budgets"}
  /\ req[r].pc \in {"byCategory", "answered"}
  => /\ SumOver(req[r].byType) = Group(AskedFor(r, req[r].first))
     /\ req[r].pc = "byCategory" => req[r].first \subseteq Committed
     /\ req[r].pc = "answered" \/ req[r].byCategory # None =>
          /\ req[r].first \subseteq req[r].second
          /\ IsFiniteSet(AskedFor(r, req[r].second))
          /\ SumOver(req[r].byCategory) = Group(AskedFor(r, req[r].second))

Rows == {i \in Items : Present(i)}

SumsInv == IsFiniteSet(Rows) /\ \A r \in Requests : SumsRead(r)

\* A request keeps what it has read while rows are only added.
LEMMA SumsKept ==
  ASSUME NEW r \in Requests, SumsRead(r), Committed \subseteq Committed',
         req'[r].kind = req[r].kind, req'[r].user = req[r].user,
         req'[r].statement = req[r].statement, req'[r].range = req[r].range,
         req'[r].byType = req[r].byType, req'[r].byCategory = req[r].byCategory,
         req'[r].first = req[r].first, req'[r].second = req[r].second,
         req'[r].pc = req[r].pc
           \/ req'[r].pc \notin {"byCategory", "answered"}
           \/ /\ req'[r].pc = "answered" /\ req[r].pc = "byCategory"
              /\ req[r].byCategory # None
  PROVE  SumsRead(r)'
<1>1. /\ AskedFor(r, req[r].first)' = AskedFor(r, req[r].first)
      /\ AskedFor(r, req[r].second)' = AskedFor(r, req[r].second)
  BY DEF AskedFor
<1>2. /\ SumOver(req[r].byType)' = SumOver(req[r].byType)
      /\ SumOver(req[r].byCategory)' = SumOver(req[r].byCategory)
  OBVIOUS
<1>3. /\ Group(AskedFor(r, req[r].first))' = Group(AskedFor(r, req[r].first))
      /\ Group(AskedFor(r, req[r].second))' = Group(AskedFor(r, req[r].second))
  BY <1>1 DEF Group
<1> QED
  BY <1>1, <1>2, <1>3 DEF SumsRead

\* Whatever the requests in W read, the others keep their sums.
LEMMA SumsMoves ==
  ASSUME SumsInv, NEW W \in SUBSET Requests, Moves(W), IsFiniteSet(Rows)',
         \A i \in Items : Present(i) => Present(i)', \A r \in W : SumsRead(r)'
  PROVE  SumsInv'
<1>1. Committed \subseteq Committed'
  BY DEF Committed, ItemsOf
<1>2. ASSUME NEW r \in Requests \ W PROVE SumsRead(r)'
  <2>1. Same(req'[r], req[r]) /\ SumsRead(r)
    BY DEF Moves, SumsInv
  <2> QED
    BY <1>1, <2>1, SumsKept DEF Same
<1> QED
  BY <1>2 DEF SumsInv

LEMMA SumsMovesOnly ==
  ASSUME SumsInv, NEW r \in Requests, Moves({r}), UNCHANGED category, SumsRead(r)'
  PROVE  SumsInv'
BY SumsMoves DEF SumsInv, Rows, Present

LEMMA SelectedIsFinite ==
  ASSUME TypeInv, SumsInv, NEW r \in Requests
  PROVE  Selected(r) \in SUBSET Items /\ IsFiniteSet(Selected(r))
<1>1. Selected(r) \in SUBSET Rows /\ Rows \in SUBSET Items
  BY DEF Selected, OwnRows, Where, Rows
<1> QED
  BY <1>1, FS_Subset DEF SumsInv

LEMMA TypesAddUp ==
  ASSUME TypeInv, SumsInv, NEW r \in Requests
  PROVE  SumOver(ByType(Selected(r))) = Group(Selected(r))
<1> DEFINE S == Selected(r)
           C == {"debit", "credit"}
           f == [i \in S |-> Extracted[i].type]
<1>1. S \in SUBSET Items /\ IsFiniteSet(S)
  BY SelectedIsFinite
<1> HIDE DEF S
<1>2. \A i \in S : f[i] = Extracted[i].type /\ f[i] \in C
  BY <1>1, LedgerAssumption
<1>3. f \in [S -> C]
  BY <1>2
<1>4. IsFiniteSet(C)
  <2>1. IsFiniteSet({"debit"})
    BY FS_Singleton
  <2>2. IsFiniteSet({"debit"} \cup {"credit"})
    BY <2>1, FS_AddElement
  <2>3. C = {"debit"} \cup {"credit"}
    OBVIOUS
  <2> QED
    BY <2>2, <2>3
<1>5. ASSUME NEW t \in C
      PROVE  {i \in S : Extracted[i].type = t} = {i \in S : f[i] = t}
  BY <1>2
<1>6. ByType(S) = [t \in C |-> Group({i \in S : f[i] = t})]
  BY <1>5 DEF ByType
<1> HIDE DEF f, C
<1>7. SumOver(ByType(S)) = Group(S)
  BY <1>1, <1>3, <1>4, <1>6, GroupingAddsUp
<1> QED
  BY <1>7 DEF S

LEMMA CategoriesAddUp ==
  ASSUME TypeInv, SumsInv, NEW r \in Requests
  PROVE  SumOver(ByCategory(Selected(r))) = Group(Selected(r))
<1> DEFINE S == Selected(r)
           f == [i \in S |-> category[i]]
<1>1. S \in SUBSET Items /\ IsFiniteSet(S)
  BY SelectedIsFinite
<1>2. \A i \in S : category[i] \in Categories
  BY <1>1 DEF Selected, OwnRows, Where, Present, TypeInv
<1> HIDE DEF S
<1>3. f \in [S -> Categories]
  BY <1>2
<1>4. IsFiniteSet(Categories)
  BY LedgerAssumption
<1>5. ASSUME NEW c \in Categories
      PROVE  {i \in S : category[i] = c} = {i \in S : f[i] = c}
  OBVIOUS
<1>6. ByCategory(S) = [c \in Categories |-> Group({i \in S : f[i] = c})]
  BY <1>5 DEF ByCategory
<1> HIDE DEF f
<1>7. SumOver(ByCategory(S)) = Group(S)
  BY <1>1, <1>3, <1>4, <1>6, GroupingAddsUp
<1> QED
  BY <1>7 DEF S

LEMMA SumsStep ==
  ASSUME TypeInv, ReadInv, SumsInv, [Next]_vars
  PROVE  SumsInv'
<1>0. WholeStatements
  BY DEF ReadInv
<1>1. ASSUME NEW r \in Requests, Send(r) PROVE SumsInv'
  <2>1. SumsRead(r)'
    BY <1>1, SendMoves DEF SumsRead
  <2> QED
    BY <1>1, <2>1, SendMoves, SumsMovesOnly
<1>2. ASSUME NEW r \in Requests, FindStatement(r) PROVE SumsInv'
  <2>1. SumsRead(r)'
    BY <1>2, FindStatementMoves DEF SumsRead
  <2> QED
    BY <1>2, <2>1, FindStatementMoves, SumsMovesOnly
<1>3. ASSUME NEW r \in Requests, GroupByType(r) PROVE SumsInv'
  <2>1. /\ Keeps(r) /\ req[r].kind \in Readers /\ req'[r].first = Committed
        /\ req'[r].byType = ByType(Selected(r)) /\ UNCHANGED category
    BY <1>3, GroupByTypeMoves
  <2>2. Selected(r) = AskedFor(r, Committed)
    BY <1>0, <2>1, SelectedIsAskedFor
  <2>3. AskedFor(r, req[r].first)' = AskedFor(r, Committed)
    BY <2>1 DEF AskedFor, Keeps
  <2>4. SumOver(req[r].byType)' = Group(AskedFor(r, req[r].first))'
    BY <2>1, <2>2, <2>3, TypesAddUp
  <2>5. Committed' = Committed
    BY <2>1 DEF Committed, Present
  <2>6. req'[r].kind # "stats" =>
          req'[r].pc = "byCategory" /\ req'[r].byCategory = None
    BY <1>3 DEF GroupByType, TypeInv, Stage
  <2>7. SumsRead(r)'
    BY <2>1, <2>4, <2>5, <2>6 DEF SumsRead
  <2> QED
    BY <1>3, <2>7, GroupByTypeMoves, SumsMovesOnly
<1>4. ASSUME NEW r \in Requests, GroupByCategory(r) PROVE SumsInv'
  <2>1. /\ Keeps(r) /\ req[r].kind \in Readers /\ req'[r].second = Committed
        /\ req'[r].byCategory = ByCategory(Selected(r)) /\ UNCHANGED category
        /\ req[r].pc = "byCategory"
        /\ req'[r].first = req[r].first /\ req'[r].byType = req[r].byType
    BY <1>4, GroupByCategoryMoves
  <2>2. Selected(r) = AskedFor(r, Committed)
    BY <1>0, <2>1, SelectedIsAskedFor
  <2>3. /\ AskedFor(r, req[r].second)' = Selected(r)
        /\ AskedFor(r, req[r].first)' = AskedFor(r, req[r].first)
    BY <2>1, <2>2 DEF AskedFor, Keeps
  <2>4. SumOver(req[r].byCategory)' = Group(AskedFor(r, req[r].second))'
    BY <2>1, <2>3, CategoriesAddUp
  <2>5. Committed' = Committed
    BY <2>1 DEF Committed, Present
  <2>6. IsFiniteSet(AskedFor(r, req[r].second))'
    BY <2>3, SelectedIsFinite
  <2>7. SumsRead(r) /\ req'[r].kind = req[r].kind
    BY <2>1 DEF SumsInv, Keeps
  <2>8. /\ SumOver(req[r].byType)' = SumOver(req[r].byType)
        /\ Group(AskedFor(r, req[r].first))' = Group(AskedFor(r, req[r].first))
    BY <2>1, <2>3
  <2>9. SumsRead(r)'
    BY <2>1, <2>4, <2>5, <2>6, <2>7, <2>8 DEF SumsRead
  <2> QED
    BY <1>4, <2>9, GroupByCategoryMoves, SumsMovesOnly
<1>5. ASSUME NEW r \in Requests, FindBudgets(r) PROVE SumsInv'
  <2>1. /\ Keeps(r) /\ UNCHANGED category
        /\ req'[r].pc \in {"answered", "byCategory"} => req[r].pc = "byCategory"
        /\ req'[r].pc = "answered" => req[r].byCategory # None
        /\ req'[r].byType = req[r].byType /\ req'[r].first = req[r].first
        /\ req'[r].byCategory = req[r].byCategory
        /\ req'[r].second = req[r].second
    BY <1>5, FindBudgetsMoves
  <2>2. Committed' = Committed /\ SumsRead(r)
    BY <2>1 DEF Committed, Present, SumsInv
  <2>3. SumsRead(r)'
    BY <2>1, <2>2, SumsKept DEF Keeps
  <2> QED
    BY <1>5, <2>3, FindBudgetsMoves, SumsMovesOnly
<1>6. ASSUME NEW r \in Requests, Upsert(r) PROVE SumsInv'
  <2>1. SumsRead(r)'
    BY <1>6, UpsertMoves DEF SumsRead
  <2> QED
    BY <1>6, <2>1, UpsertMoves, SumsMovesOnly
<1>7. ASSUME NEW r \in Requests, Find(r) PROVE SumsInv'
  <2>1. SumsRead(r)'
    BY <1>7, FindMoves DEF SumsRead
  <2> QED
    BY <1>7, <2>1, FindMoves, SumsMovesOnly
<1>8. ASSUME NEW r \in Requests, Delete(r) PROVE SumsInv'
  <2>1. SumsRead(r)'
    BY <1>8, DeleteMoves DEF SumsRead
  <2> QED
    BY <1>8, <2>1, DeleteMoves, SumsMovesOnly
<1>9. ASSUME NEW r \in Requests, Fail(r) PROVE SumsInv'
  <2>1. SumsRead(r)'
    BY <1>9, FailMoves DEF SumsRead
  <2> QED
    BY <1>9, <2>1, FailMoves, SumsMovesOnly
<1>10. ASSUME NEW s \in Statements, createMany(s) PROVE SumsInv'
  <2>1. Moves({}) /\ \A i \in Items : Present(i)' <=> Present(i) \/ StatementOf[i] = s
    BY <1>10, createManyEffect
  <2>2. IsFiniteSet(Rows) /\ IsFiniteSet({i \in Items : StatementOf[i] = s})
    BY LedgerAssumption DEF SumsInv
  <2>3. Rows' = Rows \cup {i \in Items : StatementOf[i] = s}
    BY <2>1 DEF Rows
  <2>4. IsFiniteSet(Rows)'
    BY <2>2, <2>3, FS_Union
  <2> QED
    BY <2>1, <2>4, SumsMoves
<1>11. ASSUME NEW i \in Items, NEW c \in Categories, correct(i, c) PROVE SumsInv'
  <2>1. Moves({}) /\ \A j \in Items : Present(j)' <=> Present(j)
    BY <1>11, correctEffect
  <2>2. Rows' = Rows
    BY <2>1 DEF Rows
  <2> QED
    BY <2>1, <2>2, SumsMoves DEF SumsInv
<1>12. CASE UNCHANGED vars
  <2>1. Moves({}) /\ UNCHANGED category
    BY <1>12, MovesNone DEF vars
  <2> QED
    BY <2>1, SumsMoves DEF SumsInv, Rows, Present
<1>13. CASE Terminating
  BY <1>12, <1>13 DEF Terminating
<1> QED
  BY <1>1, <1>2, <1>3, <1>4, <1>5, <1>6, <1>7, <1>8, <1>9, <1>10, <1>11,
     <1>12, <1>13 DEF Next, Handle

LEMMA SumsInit ==
  ASSUME Init
  PROVE  SumsInv
<1>1. Rows = {}
  BY DEF Init, Rows, Present
<1>2. \A r \in Requests : SumsRead(r)
  BY UnsentIsTyped DEF Init, SumsRead
<1> QED
  BY <1>1, <1>2, FS_EmptySet DEF SumsInv

LEMMA ReadSumsAddUp ==
  ASSUME SumsInv
  PROVE  OverviewAddsUp
<1> SUFFICES ASSUME NEW r \in Requests, req[r].pc = "answered",
                    req[r].kind \in {"overview", "budgets"}
             PROVE  LET types == SumOver(req[r].byType)
                        late  == Group(AskedFor(r, req[r].second \ req[r].first))
                    IN  SumOver(req[r].byCategory) =
                          [sum   |-> types.sum + late.sum,
                           count |-> types.count + late.count]
  BY DEF OverviewAddsUp
<1> DEFINE A == AskedFor(r, req[r].first)
           B == AskedFor(r, req[r].second \ req[r].first)
           S == AskedFor(r, req[r].second)
<1>1. /\ SumOver(req[r].byType) = Group(A) /\ SumOver(req[r].byCategory) = Group(S)
      /\ req[r].first \subseteq req[r].second /\ IsFiniteSet(S)
  BY DEF SumsInv, SumsRead
<1>2. S = A \cup B /\ A \cap B = {} /\ S \in SUBSET Items
  BY <1>1 DEF AskedFor
<1> HIDE DEF A, B, S
<1>3. /\ IsFiniteSet(A) /\ IsFiniteSet(B)
      /\ A \in SUBSET Items /\ B \in SUBSET Items
  BY <1>1, <1>2, FS_Subset
<1>4. /\ Group(A) = [sum |-> SumOf(KoboOf, A), count |-> Cardinality(A)]
      /\ Group(B) = [sum |-> SumOf(KoboOf, B), count |-> Cardinality(B)]
      /\ Group(S) = [sum |-> SumOf(KoboOf, S), count |-> Cardinality(S)]
      /\ Cardinality(A) \in Nat /\ Cardinality(B) \in Nat
  BY <1>1, <1>2, <1>3, GroupFields
<1>5. SumOf(KoboOf, S) = SumOf(KoboOf, A) + SumOf(KoboOf, B)
  BY <1>2, <1>3, KoboIsInteger, SumOfUnion
<1>6. Cardinality(S) = Cardinality(A) + Cardinality(B)
  <2>1. Cardinality(A \cup B)
          = Cardinality(A) + Cardinality(B) - Cardinality(A \cap B)
    BY <1>3, FS_Union
  <2>2. Cardinality(A \cap B) = 0
    BY <1>2, FS_EmptySet
  <2> QED
    BY <1>2, <1>4, <2>1, <2>2
<1> QED
  BY <1>1, <1>4, <1>5, <1>6 DEF B

\* The categories of an overview sum to its totals by type, but for the
\* statements committed between its two queries, for any number of items,
\* corrections and batches.
THEOREM OverviewsAddUp == Spec => []OverviewAddsUp
<1>1. Init => TypeInv /\ ReadInv /\ SumsInv
  BY TypeInit, ReadInit, SumsInit
<1>2. TypeInv /\ ReadInv /\ SumsInv /\ [Next]_vars
        => (TypeInv /\ ReadInv /\ SumsInv)'
  BY TypeStep, ReadStep, SumsStep
<1> QED
  BY <1>1, <1>2, ReadSumsAddUp, PTL DEF Spec

-----------------------------------------------------------------------------
(* The calendar. *)

\* Days from 1 March of year 0 to 1 March of year y.
MarchFirst(y) == 365 * y + y \div 4 - y \div 100 + y \div 400

YearOfCycle(d) == (d - d \div 1460 + d \div 36524 - d \div 146096) \div 365

\* A cycle of 400 years has 146097 days, and is cut into its years.

LEMMA Cycles ==
  ASSUME NEW c \in Int, NEW y \in 0..400
  PROVE  MarchFirst(400 * c + y) = 146097 * c + MarchFirst(y)
BY SMTT(60) DEF MarchFirst

LEMMA YearBegins ==
  ASSUME NEW y \in Int
  PROVE  /\ DayFromYear(y) + DaysBefore(2, y) + 719468 = MarchFirst(y)
         /\ DayFromYear(y) + 719468 = MarchFirst(y - 1) + 306
BY SMTT(60) DEF DayFromYear, DaysBefore, IsLeap, MarchFirst

LEMMA YearLengths ==
  ASSUME NEW y \in Int
  PROVE  MarchFirst(y + 1) = MarchFirst(y) + IF IsLeap(y + 1) THEN 366 ELSE 365
BY SMTT(60) DEF IsLeap, MarchFirst

LEMMA YearsOfCycle ==
  ASSUME NEW d \in Nat, d <= 146096
  PROVE  /\ YearOfCycle(d) \in 0..399
         /\ MarchFirst(YearOfCycle(d)) <= d
         /\ d < MarchFirst(YearOfCycle(d) + 1)
<1>1. PICK c \in 0..3, k \in Nat :
        /\ d = 36524 * c + k /\ k <= 36524
        /\ k = 36524 => c = 3
  <2> DEFINE x == IF d = 146096 THEN 3 ELSE d \div 36524
  <2>1. /\ x \in 0..3 /\ d - 36524 * x \in Nat /\ d - 36524 * x <= 36524
        /\ d - 36524 * x = 36524 => x = 3
    BY SMT
  <2> HIDE DEF x
  <2> QED
    BY SMT, <2>1
<1>2. PICK q \in 0..24, j \in Nat :
        /\ k = 1461 * q + j /\ j <= 1460
        /\ j = 1460 => q < 24 \/ c = 3
  <2> DEFINE x == k \div 1461
  <2>1. /\ x \in 0..24 /\ k - 1461 * x \in Nat /\ k - 1461 * x <= 1460
        /\ k - 1461 * x = 1460 => x < 24 \/ c = 3
    BY SMT, <1>1
  <2> HIDE DEF x
  <2> QED
    BY SMT, <2>1
<1>3. PICK r \in 0..3, e \in Nat :
        /\ j = 365 * r + e /\ e <= 365
        /\ e = 365 => r = 3
  <2> DEFINE x == IF j = 1460 THEN 3 ELSE j \div 365
  <2>1. /\ x \in 0..3 /\ j - 365 * x \in Nat /\ j - 365 * x <= 365
        /\ j - 365 * x = 365 => x = 3
    BY SMT, <1>2
  <2> HIDE DEF x
  <2> QED
    BY SMT, <2>1
<1> DEFINE y == 100 * c + 4 * q + r
<1>4. y \in 0..399 /\ MarchFirst(y) = 36524 * c + 1461 * q + 365 * r
  BY SMTT(60) DEF MarchFirst
<1>5. d = MarchFirst(y) + e
  BY SMT, <1>1, <1>2, <1>3, <1>4
<1>6. d < MarchFirst(y + 1)
  BY <1>1, <1>2, <1>3, SMTT(60) DEF MarchFirst
<1>7. YearOfCycle(d) = y
  <2> DEFINE over == IF 24 * c + q + 365 * r + e >= 1460 THEN 1 ELSE 0
             last == IF d = 146096 THEN 1 ELSE 0
  <2>1. d \div 1460 = 25 * c + q + over
    BY <1>1, <1>2, <1>3, SMTT(60)
  <2>2. d \div 36524 = c + last /\ d \div 146096 = last
    BY <1>1, SMTT(60)
  <2>3. d - d \div 1460 + d \div 36524 - d \div 146096 = 365 * y + e - over
    BY SMT, <1>1, <1>2, <1>3, <2>1, <2>2
  <2>4. e - over \in 0..364
    BY <1>1, <1>2, <1>3, SMTT(60)
  <2> QED
    BY <1>4, <2>3, <2>4, SMTT(60) DEF YearOfCycle
<1> QED
  BY SMT, <1>4, <1>5, <1>6, <1>7

\* What MonthOf computes of a day: the year that began in March, and the day
\* in that year.
MarchYear(day) == YearOfCycle(day % 146097) + 400 * (day \div 146097)

DayOfYear(day) == day - MarchFirst(MarchYear(day))

LEMMA DaysInYear ==
  ASSUME NEW day \in Int
  PROVE  /\ MarchYear(day) \in Int
         /\ DayOfYear(day) \in Nat /\ DayOfYear(day) <= 365
         /\ DayOfYear(day) = 365 => IsLeap(MarchYear(day) + 1)
         /\ DayOfYear(day) =
              LET d == day % 146097
                  y == YearOfCycle(d)
              IN  d - (365 * y + y \div 4 - y \div 100)
<1> DEFINE d == day % 146097
           c == day \div 146097
           y == YearOfCycle(d)
<1>1. d \in Nat /\ d <= 146096 /\ c \in Int /\ day = 146097 * c + d
  BY SMT
<1> HIDE DEF d, c
<1>2. y \in 0..399 /\ MarchFirst(y) <= d /\ d < MarchFirst(y + 1)
  BY SMT, <1>1, YearsOfCycle
<1> HIDE DEF y
<1>3. /\ MarchFirst(400 * c + y) = 146097 * c + MarchFirst(y)
      /\ MarchFirst(400 * c + (y + 1)) = 146097 * c + MarchFirst(y + 1)
  <2>1. y \in 0..400 /\ y + 1 \in 0..400
    BY SMT, <1>2
  <2> QED
    BY SMT, <1>1, <2>1, Cycles
<1>4. MarchYear(day) = 400 * c + y /\ MarchYear(day) \in Int
  BY SMT, <1>1, <1>2 DEF MarchYear, d, c, y
<1>5. MarchFirst(y) = 365 * y + y \div 4 - y \div 100
  BY SMT, <1>2 DEF MarchFirst
<1>6. MarchFirst(y) \in Int /\ MarchFirst(y + 1) \in Int
  BY SMT, <1>2 DEF MarchFirst
<1>7. DayOfYear(day) = d - MarchFirst(y)
  BY SMT, <1>1, <1>3, <1>4, <1>6 DEF DayOfYear
<1>8. MarchFirst(400 * c + y + 1)
        = MarchFirst(400 * c + y) + IF IsLeap(400 * c + y + 1) THEN 366 ELSE 365
  BY SMT, <1>1, <1>2, YearLengths
<1>9. 400 * c + y + 1 = 400 * c + (y + 1)
  BY SMT, <1>1, <1>2
<1>10. d - MarchFirst(y) < IF IsLeap(400 * c + y + 1) THEN 366 ELSE 365
  <2>1. 146097 * c \in Int
    BY SMT, <1>1
  <2> DEFINE len == IF IsLeap(400 * c + y + 1) THEN 366 ELSE 365
  <2>2. len \in Int
    BY SMT
  <2> HIDE DEF len
  <2>3. MarchFirst(y + 1) = MarchFirst(y) + len
    BY SMT, <1>3, <1>6, <1>8, <1>9, <2>1, <2>2 DEF len
  <2> QED
    BY SMT, <1>1, <1>2, <1>6, <2>2, <2>3 DEF len
<1> QED
  BY SMT, <1>1, <1>2, <1>4, <1>5, <1>6, <1>7, <1>10 DEF d, y

\* The month that day x of a year from March lies in: 0 is March.
FromMarch(x) == (5 * x + 2) \div 153

\* The day of that year on which month f begins.
MonthFirst(f) == (153 * f + 2) \div 5

LEMMA MonthsOfYear ==
  ASSUME NEW x \in Nat, x <= 365
  PROVE  /\ FromMarch(x) \in 0..11
         /\ MonthFirst(FromMarch(x)) <= x
         /\ FromMarch(x) < 11 => x < MonthFirst(FromMarch(x) + 1)
BY SMTT(60) DEF FromMarch, MonthFirst

\* The months of the calendar year, counted from March.
LEMMA MonthsBegin ==
  ASSUME NEW y \in Int
  PROVE  /\ \A m \in 3..12 :
              MakeDay(y, m - 1, 1) + 719468 = MarchFirst(y) + MonthFirst(m - 3)
         /\ \A m \in 1..2 :
              MakeDay(y, m - 1, 1) + 719468 = MarchFirst(y - 1) + MonthFirst(m + 9)
         /\ MakeDay(y, 12, 1) = MakeDay(y + 1, 0, 1)
         /\ \A m \in 1..12 : MakeDay(y, m, 0) = MakeDay(y, m, 1) - 1
<1>1. ASSUME NEW m \in 3..12
      PROVE  MakeDay(y, m - 1, 1) + 719468 = MarchFirst(y) + MonthFirst(m - 3)
  <2>1. (m - 1) \div 12 = 0 /\ (m - 1) % 12 = m - 1
    BY SMT
  <2>2. DaysBefore(m - 1, y) = DaysBefore(2, y) + MonthFirst(m - 3)
    BY SMT DEF DaysBefore, MonthFirst
  <2>3. DayFromYear(y) + DaysBefore(2, y) + 719468 = MarchFirst(y)
    BY SMT, YearBegins
  <2>4. /\ DayFromYear(y) \in Int /\ DaysBefore(2, y) \in Int
        /\ MonthFirst(m - 3) \in Int /\ MarchFirst(y) \in Int
    BY SMT DEF DayFromYear, DaysBefore, MonthFirst, MarchFirst
  <2>5. MakeDay(y, m - 1, 1) = DayFromYear(y) + DaysBefore(m - 1, y)
    BY SMT, <2>1, <2>2, <2>4 DEF MakeDay
  <2> QED
    BY SMT, <2>2, <2>3, <2>4, <2>5
<1>2. ASSUME NEW m \in 1..2
      PROVE  MakeDay(y, m - 1, 1) + 719468 = MarchFirst(y - 1) + MonthFirst(m + 9)
  <2>1. (m - 1) \div 12 = 0 /\ (m - 1) % 12 = m - 1
    BY SMT
  <2>2. DaysBefore(m - 1, y) = MonthFirst(m + 9) - 306
    BY SMT DEF DaysBefore, MonthFirst
  <2>3. DayFromYear(y) + 719468 = MarchFirst(y - 1) + 306
    BY SMT, YearBegins
  <2>4. /\ DayFromYear(y) \in Int
        /\ MonthFirst(m + 9) \in Int /\ MarchFirst(y - 1) \in Int
    BY SMT DEF DayFromYear, MonthFirst, MarchFirst
  <2>5. MakeDay(y, m - 1, 1) = DayFromYear(y) + DaysBefore(m - 1, y)
    BY SMT, <2>1, <2>2, <2>4 DEF MakeDay
  <2> QED
    BY SMT, <2>2, <2>3, <2>4, <2>5
<1>3. MakeDay(y, 12, 1) = MakeDay(y + 1, 0, 1)
  <2>1. /\ 12 \div 12 = 1 /\ 12 % 12 = 0 /\ 0 \div 12 = 0 /\ 0 % 12 = 0
        /\ (y + 1) + 0 = y + 1
    BY SMT
  <2> QED
    BY SMT, <2>1 DEF MakeDay
<1>4. ASSUME NEW m \in 1..12
      PROVE  MakeDay(y, m, 0) = MakeDay(y, m, 1) - 1
  <2> DEFINE z == y + m \div 12
             b == DayFromYear(z) + DaysBefore(m % 12, z)
  <2>1. b \in Int
    <3>1. z \in Int /\ m % 12 \in 0..11
      BY SMT
    <3> HIDE DEF z
    <3> QED
      BY SMT, <3>1 DEF DayFromYear, DaysBefore
  <2>2. MakeDay(y, m, 0) = b + 0 - 1 /\ MakeDay(y, m, 1) = b + 1 - 1
    BY SMT DEF MakeDay
  <2> HIDE DEF b
  <2> QED
    BY SMT, <2>1, <2>2
<1> QED
  BY SMT, <1>1, <1>2, <1>3, <1>4

LEMMA MonthOfDay ==
  ASSUME NEW t \in Int
  PROVE  LET day == t \div DayTicks + 719468
             f   == FromMarch(DayOfYear(day))
         IN  /\ day \in Int
             /\ MonthOf(t) = [year  |-> IF f < 10 THEN MarchYear(day)
                                                  ELSE MarchYear(day) + 1,
                              month |-> IF f < 10 THEN f + 3 ELSE f - 9]
<1> DEFINE day == t \div DayTicks + 719468
           d   == day % 146097
           y   == YearOfCycle(d)
           x   == d - (365 * y + y \div 4 - y \div 100)
           f   == (5 * x + 2) \div 153
           month == IF f < 10 THEN f + 3 ELSE f - 9
           year  == y + 400 * (day \div 146097)
<1>1. day \in Int
  BY SMT, CalendarAssumption
<1>2. MonthOf(t) = [year  |-> IF month <= 2 THEN year + 1 ELSE year,
                    month |-> month]
  BY SMT DEF MonthOf, YearOfCycle
<1>3. year = MarchYear(day)
  BY SMT DEF MarchYear
<1>4. x = DayOfYear(day) /\ x \in Nat /\ x <= 365
  BY SMT, <1>1, DaysInYear
<1>5. f = FromMarch(DayOfYear(day)) /\ f \in 0..11
  <2> HIDE DEF x
  <2> QED
    BY SMT, <1>4, MonthsOfYear DEF FromMarch
<1> HIDE DEF day, x, f, year
<1>6. month <= 2 <=> ~(f < 10)
  BY SMT, <1>5
<1>7. MonthOf(t) = [year |-> IF f < 10 THEN year ELSE year + 1, month |-> month]
  BY SMT, <1>2, <1>6
<1> QED
  BY SMT, <1>1, <1>3, <1>5, <1>7 DEF day

\* A day lies between the first and the last of the month that MonthOf gives it.
LEMMA MonthContains ==
  ASSUME NEW t \in Int
  PROVE  /\ MonthOf(t) \in [year : Int, month : 1..12]
         /\ MakeDay(MonthOf(t).year, MonthOf(t).month - 1, 1) <= t \div DayTicks
         /\ t \div DayTicks < MakeDay(MonthOf(t).year, MonthOf(t).month, 1)
<1> DEFINE day == t \div DayTicks + 719468
           x   == DayOfYear(day)
           y   == MarchYear(day)
           f   == FromMarch(x)
           year  == IF f < 10 THEN y ELSE y + 1
           month == IF f < 10 THEN f + 3 ELSE f - 9
<1>1. day \in Int /\ MonthOf(t) = [year |-> year, month |-> month]
  BY SMT, MonthOfDay
<1> DEFINE D == t \div DayTicks
           In(z, m) == MakeDay(z, m - 1, 1) <= D /\ D < MakeDay(z, m, 1)
<1>0. D \in Int /\ D = day - 719468
  BY SMT, CalendarAssumption
<1> HIDE DEF day, D
<1>2. /\ y \in Int /\ x \in Nat /\ x <= 365 /\ x = day - MarchFirst(y)
      /\ x = 365 => IsLeap(y + 1)
  BY SMT, <1>1, DaysInYear DEF DayOfYear
<1>3. MarchFirst(y) \in Int /\ MarchFirst(y + 1) \in Int
  BY SMT, <1>2 DEF MarchFirst
<1> HIDE DEF x, y
<1>4. f \in 0..11 /\ MonthFirst(f) <= x /\ (f < 11 => x < MonthFirst(f + 1))
  BY SMT, <1>2, MonthsOfYear
<1>5. x < MarchFirst(y + 1) - MarchFirst(y)
  <2>1. MarchFirst(y + 1) = MarchFirst(y) + IF IsLeap(y + 1) THEN 366 ELSE 365
    BY SMT, <1>2, YearLengths
  <2> QED
    BY SMT, <1>2, <1>3, <2>1
<1> HIDE DEF f
<1>6. /\ year \in Int /\ month \in 1..12
      /\ MonthOf(t).year = year /\ MonthOf(t).month = month
  BY SMT, <1>1, <1>2, <1>4
<1>7. ASSUME f < 9 PROVE In(year, month)
  <2>1. year = y /\ month = f + 3 /\ month \in 3..12 /\ month + 1 \in 3..12
    BY SMT, <1>4, <1>7
  <2>2. /\ MakeDay(y, month - 1, 1) + 719468 = MarchFirst(y) + MonthFirst(month - 3)
        /\ MakeDay(y, (month + 1) - 1, 1) + 719468
             = MarchFirst(y) + MonthFirst((month + 1) - 3)
    BY SMT, <1>2, <2>1, MonthsBegin
  <2>3. month - 3 = f /\ (month + 1) - 3 = f + 1 /\ (month + 1) - 1 = month
    BY SMT, <1>4, <2>1
  <2>4. MakeDay(y, month - 1, 1) \in Int /\ MakeDay(y, month, 1) \in Int
    BY SMT, <1>2, <2>1 DEF MakeDay, DayFromYear, DaysBefore
  <2>5. MonthFirst(f) \in Int /\ MonthFirst(f + 1) \in Int
    BY SMT, <1>4 DEF MonthFirst
  <2> HIDE DEF year, month
  <2>6. In(y, month)
    BY SMT, <1>0, <1>1, <1>2, <1>3, <1>4, <1>7, <2>2, <2>3, <2>4, <2>5
  <2> QED
    BY <2>1, <2>6
<1>8. ASSUME f = 9 PROVE In(year, month)
  <2>1. year = y /\ month = 12
    BY SMT, <1>8
  <2>2. /\ MakeDay(y, 12 - 1, 1) + 719468 = MarchFirst(y) + MonthFirst(12 - 3)
        /\ MakeDay(y + 1, 1 - 1, 1) + 719468
             = MarchFirst((y + 1) - 1) + MonthFirst(1 + 9)
        /\ MakeDay(y, 12, 1) = MakeDay(y + 1, 0, 1)
    BY SMT, <1>2, MonthsBegin
  <2>3. (y + 1) - 1 = y /\ 12 - 3 = f /\ 1 + 9 = f + 1 /\ 1 - 1 = 0
    BY SMT, <1>2, <1>8
  <2>4. MakeDay(y, 12 - 1, 1) \in Int /\ MakeDay(y, 12, 1) \in Int
    BY SMT, <1>2 DEF MakeDay, DayFromYear, DaysBefore
  <2>5. MonthFirst(f) \in Int /\ MonthFirst(f + 1) \in Int
    BY SMT, <1>4 DEF MonthFirst
  <2> HIDE DEF year, month
  <2>6. In(y, 12)
    BY SMT, <1>0, <1>1, <1>2, <1>3, <1>4, <1>8, <2>2, <2>3, <2>4, <2>5
  <2> QED
    BY <2>1, <2>6
<1>9. ASSUME f = 10 PROVE In(year, month)
  <2>1. year = y + 1 /\ month = 1
    BY SMT, <1>9
  <2>2. /\ MakeDay(y + 1, 1 - 1, 1) + 719468
             = MarchFirst((y + 1) - 1) + MonthFirst(1 + 9)
        /\ MakeDay(y + 1, 2 - 1, 1) + 719468
             = MarchFirst((y + 1) - 1) + MonthFirst(2 + 9)
    BY SMT, <1>2, MonthsBegin
  <2>3. (y + 1) - 1 = y /\ 1 + 9 = f /\ 2 + 9 = f + 1 /\ 2 - 1 = 1
    BY SMT, <1>2, <1>9
  <2>4. MakeDay(y + 1, 1 - 1, 1) \in Int /\ MakeDay(y + 1, 1, 1) \in Int
    BY SMT, <1>2 DEF MakeDay, DayFromYear, DaysBefore
  <2>5. MonthFirst(f) \in Int /\ MonthFirst(f + 1) \in Int
    BY SMT, <1>4 DEF MonthFirst
  <2> HIDE DEF year, month
  <2>6. In(y + 1, 1)
    BY SMT, <1>0, <1>1, <1>2, <1>3, <1>4, <1>9, <2>2, <2>3, <2>4, <2>5
  <2> QED
    BY <2>1, <2>6
<1>10. ASSUME f = 11 PROVE In(year, month)
  <2>1. year = y + 1 /\ month = 2
    BY SMT, <1>10
  <2>2. /\ MakeDay(y + 1, 2 - 1, 1) + 719468
             = MarchFirst((y + 1) - 1) + MonthFirst(2 + 9)
        /\ MakeDay(y + 1, 3 - 1, 1) + 719468
             = MarchFirst(y + 1) + MonthFirst(3 - 3)
    BY SMT, <1>2, MonthsBegin
  <2>3. (y + 1) - 1 = y /\ 2 + 9 = f /\ 3 - 1 = 2
    BY SMT, <1>2, <1>10
  <2>4. MakeDay(y + 1, 2 - 1, 1) \in Int /\ MakeDay(y + 1, 2, 1) \in Int
    BY SMT, <1>2 DEF MakeDay, DayFromYear, DaysBefore
  <2>5. MonthFirst(f) \in Int /\ MonthFirst(3 - 3) = 0
    BY SMT, <1>4 DEF MonthFirst
  <2> HIDE DEF year, month
  <2>6. In(y + 1, 2)
    BY SMT, <1>0, <1>1, <1>2, <1>3, <1>4, <1>5, <1>10, <2>2, <2>3, <2>4, <2>5
  <2> QED
    BY <2>1, <2>6
<1> QED
  <2> HIDE DEF year, month
  <2>1. In(year, month)
    BY SMT, <1>4, <1>7, <1>8, <1>9, <1>10
  <2>2. MonthOf(t) \in [year : Int, month : 1..12]
    BY SMT, <1>1, <1>6
  <2> QED
    BY <1>6, <2>1, <2>2 DEF D

\* Months follow each other: one ends before a later one begins.
LEMMA MonthsInOrder ==
  ASSUME NEW y \in Int, NEW z \in Int, NEW m \in 1..12, NEW n \in 1..12,
         y < z \/ (y = z /\ m < n)
  PROVE  MakeDay(y, m, 1) <= MakeDay(z, n - 1, 1)
<1>1. ASSUME NEW x \in Int, NEW k \in 0..11
      PROVE  /\ DaysBefore(k, x) \in Nat /\ DaysBefore(k, x) <= 335
             /\ MakeDay(x, k, 1) = DayFromYear(x) + DaysBefore(k, x)
  <2>1. DaysBefore(k, x) \in Nat /\ DaysBefore(k, x) <= 335
    BY SMT DEF DaysBefore
  <2>2. k \div 12 = 0 /\ k % 12 = k /\ x + 0 = x /\ DayFromYear(x) \in Int
    BY SMT DEF DayFromYear
  <2> QED
    BY SMT, <2>1, <2>2 DEF MakeDay
<1> DEFINE p == n - 1
<1>2. p \in 0..11
  BY SMT
<1> HIDE DEF p
<1>3. /\ DaysBefore(p, z) \in Nat /\ DaysBefore(p, z) <= 335
      /\ MakeDay(z, p, 1) = DayFromYear(z) + DaysBefore(p, z)
  BY <1>1, <1>2
<1>4. /\ DayFromYear(y) \in Int /\ DayFromYear(y + 1) \in Int
      /\ DayFromYear(z) \in Int
  BY SMT DEF DayFromYear
<1>5. MakeDay(y, 12, 1) = DayFromYear(y + 1)
  <2>1. 12 \div 12 = 1 /\ 12 % 12 = 0 /\ DaysBefore(0, y + 1) = 0
    BY SMT DEF DaysBefore
  <2> QED
    BY SMT, <1>4, <2>1 DEF MakeDay
<1>6. ASSUME y < z PROVE MakeDay(y, m, 1) <= MakeDay(z, p, 1)
  <2>1. /\ DayFromYear(y + 1) <= DayFromYear(z)
        /\ DayFromYear(y) + 365 <= DayFromYear(y + 1)
    BY <1>6, SMTT(60) DEF DayFromYear
  <2>2. CASE m = 12
    BY SMT, <1>3, <1>4, <1>5, <2>1, <2>2
  <2>3. CASE m # 12
    <3>1. m \in 0..11
      BY SMT, <2>3
    <3>2. /\ DaysBefore(m, y) \in Nat /\ DaysBefore(m, y) <= 335
          /\ MakeDay(y, m, 1) = DayFromYear(y) + DaysBefore(m, y)
      BY <1>1, <3>1
    <3> QED
      BY SMT, <1>3, <1>4, <2>1, <3>2
  <2> QED
    BY <2>2, <2>3
<1>7. ASSUME y = z, m < n PROVE MakeDay(y, m, 1) <= MakeDay(z, p, 1)
  <2>1. m \in 0..11 /\ m <= p
    BY SMT, <1>7 DEF p
  <2>2. /\ DaysBefore(m, y) \in Nat /\ DaysBefore(m, y) <= 335
        /\ MakeDay(y, m, 1) = DayFromYear(y) + DaysBefore(m, y)
    BY <1>1, <2>1
  <2>3. DaysBefore(m, y) <= DaysBefore(p, y)
    BY SMT, <1>2, <2>1 DEF DaysBefore
  <2> QED
    BY SMT, <1>3, <1>4, <1>7, <2>2, <2>3
<1>8. MakeDay(y, m, 1) <= MakeDay(z, p, 1)
  BY <1>6, <1>7
<1> QED
  BY <1>8 DEF p

\* Ticks and the days they are in.
LEMMA TicksOfDays ==
  ASSUME NEW t \in Int, NEW a \in Int, NEW b \in Int
  PROVE  /\ t \div DayTicks \in Int
         /\ a * DayTicks <= t <=> a <= t \div DayTicks
         /\ t < b * DayTicks <=> t \div DayTicks < b
<1> DEFINE n == DayTicks
           D == t \div n
<1>1. n \in Nat \ {0}
  BY CalendarAssumption
<1> HIDE DEF n
<1>2. D \in Int /\ n * D <= t /\ t < n * D + n
  BY SMT, <1>1
<1> HIDE DEF D
<1>3. ASSUME NEW x \in Int PROVE x * n <= t <=> x <= D
  <2>1. x <= D => x * n <= D * n
    BY SMT, <1>1, <1>2
  <2>2. D + 1 <= x => (D + 1) * n <= x * n
    BY SMT, <1>1, <1>2
  <2>3. (D + 1) * n = n * D + n /\ D * n = n * D
    BY SMT, <1>1, <1>2
  <2>4. n * D \in Int /\ x * n \in Int
    BY SMT, <1>1, <1>2
  <2> QED
    BY SMT, <1>1, <1>2, <2>1, <2>2, <2>3, <2>4
<1>4. a * n <= t <=> a <= D
  BY <1>3
<1>5. t < b * n <=> D < b
  <2>1. b * n <= t <=> b <= D
    BY <1>3
  <2>2. b * n \in Int
    BY SMT, <1>1
  <2> QED
    BY SMT, <1>2, <2>1, <2>2
<1> QED
  BY <1>2, <1>4, <1>5 DEF D, n

\* The range of a month holds exactly the instants of that month, in every
\* year, but for the years that Date.UTC takes for those of the twentieth
\* century.
THEOREM MonthRangeIsMonth ==
  ASSUME NEW y \in Int, NEW m \in 1..12, NEW t \in Int
  PROVE  /\ getMonthRange(y, m) \in [from : Int, to : Int]
         /\ /\ getMonthRange(y, m).from <= t
            /\ t <= getMonthRange(y, m).to
            <=> MonthOf(t) = [year |-> FullYear(y), month |-> m]
<1> DEFINE z == FullYear(y)
           D == t \div DayTicks
           first == MakeDay(z, m - 1, 1)
           next  == MakeDay(z, m, 1)
           M == MonthOf(t)
<1>1. z \in Int
  BY SMT DEF FullYear
<1> HIDE DEF z
<1>2. first \in Int /\ next \in Int
  <2>1. \A k \in 0..12 : MakeDay(z, k, 1) \in Int
    <3>1. ASSUME NEW k \in 0..12 PROVE MakeDay(z, k, 1) \in Int
      <4> DEFINE x == z + k \div 12
                 j == k % 12
      <4>1. x \in Int /\ j \in 0..11
        BY SMT, <1>1
      <4> HIDE DEF x, j
      <4>2. DayFromYear(x) \in Int /\ DaysBefore(j, x) \in Int
        BY SMT, <4>1 DEF DayFromYear, DaysBefore
      <4> QED
        BY SMT, <4>2 DEF MakeDay, x, j
    <3> QED
      BY <3>1
  <2>2. m - 1 \in 0..12 /\ m \in 0..12
    BY SMT
  <2> QED
    BY <2>1, <2>2
<1>3. MakeDay(z, m, 0) = next - 1
  BY <1>1, MonthsBegin
<1>4. getMonthRange(y, m) = [from |-> first * DayTicks + 0,
                             to   |-> (next - 1) * DayTicks + (DayTicks - 1)]
  BY <1>3 DEF getMonthRange, DateUTC, z
<1> HIDE DEF first, next
<1>5. /\ first * DayTicks \in Int /\ next * DayTicks \in Int
      /\ (next - 1) * DayTicks + (DayTicks - 1) = next * DayTicks - 1
  BY SMT, <1>2, CalendarAssumption
<1>6. /\ getMonthRange(y, m).from = first * DayTicks
      /\ getMonthRange(y, m).to = next * DayTicks - 1
      /\ getMonthRange(y, m) \in [from : Int, to : Int]
  BY SMT, <1>4, <1>5
<1>7. getMonthRange(y, m).from <= t /\ t <= getMonthRange(y, m).to
        <=> first <= D /\ D < next
  <2>1. first * DayTicks <= t <=> first <= D
    BY <1>2, TicksOfDays
  <2>2. t < next * DayTicks <=> D < next
    BY <1>2, TicksOfDays
  <2>3. t <= next * DayTicks - 1 <=> t < next * DayTicks
    BY SMT, <1>5
  <2> QED
    BY <1>6, <2>1, <2>2, <2>3
<1>8. /\ M \in [year : Int, month : 1..12]
      /\ MakeDay(M.year, M.month - 1, 1) <= D
      /\ D < MakeDay(M.year, M.month, 1)
      /\ D \in Int
  BY MonthContains, TicksOfDays
<1> HIDE DEF D, M
<1>9. ASSUME M = [year |-> z, month |-> m] PROVE first <= D /\ D < next
  BY <1>8, <1>9 DEF first, next
<1>10. ASSUME first <= D, D < next, M # [year |-> z, month |-> m] PROVE FALSE
  <2>1. /\ M.year \in Int /\ M.month \in 1..12
        /\ M.year # z \/ M.month # m
    BY <1>8, <1>10
  <2>2. CASE M.year < z \/ (M.year = z /\ M.month < m)
    <3>1. MakeDay(M.year, M.month, 1) <= first
      BY <1>1, <2>1, <2>2, MonthsInOrder DEF first
    <3>2. MakeDay(M.year, M.month, 1) \in Int
      BY SMT, <2>1 DEF MakeDay, DayFromYear, DaysBefore
    <3> QED
      BY SMT, <1>2, <1>8, <1>10, <3>1, <3>2
  <2>3. CASE z < M.year \/ (z = M.year /\ m < M.month)
    <3>1. next <= MakeDay(M.year, M.month - 1, 1)
      BY <1>1, <2>1, <2>3, MonthsInOrder DEF next
    <3>2. MakeDay(M.year, M.month - 1, 1) \in Int
      BY SMT, <2>1 DEF MakeDay, DayFromYear, DaysBefore
    <3> QED
      BY SMT, <1>2, <1>8, <1>10, <3>1, <3>2
  <2> QED
    BY SMT, <1>1, <2>1, <2>2, <2>3
<1>11. first <= D /\ D < next <=> M = [year |-> z, month |-> m]
  BY <1>9, <1>10
<1> QED
  BY <1>6, <1>7, <1>11 DEF M, z

-----------------------------------------------------------------------------
(* What a listing of budgets compares. *)

\* While nothing is written, what a listing has read is what is there.
QuietRead(r) ==
  req[r].kind = "budgets" /\ req[r].pc \in Open =>
    /\ req[r].user \in Clients
    /\ req[r].month \in [year : Int, month : 1..12]
    /\ req[r].range = getMonthRange(req[r].month.year, req[r].month.month)
    /\ req[r].quiet /\ req[r].byCategory # None =>
         req[r].byCategory = ByCategory(Selected(r))
    /\ req[r].quiet /\ req[r].own # None => req[r].own = budgets[req[r].user]

QuietInv == \A r \in Requests : QuietRead(r)

\* Nothing is written, and no request but r moves.
MovesAlone(r) ==
  /\ UNCHANGED <<category, budgets>>
  /\ \A x \in Requests \ {r} : req'[x] = req[x]

\* Something is written: the listings under way are not quiet any more.
MovesAloud ==
  \A x \in Requests :
    req'[x].kind = "budgets" /\ req'[x].pc \in Open =>
      /\ ~req'[x].quiet /\ req[x].kind = "budgets" /\ req'[x].pc = req[x].pc
      /\ req'[x].user = req[x].user /\ req'[x].month = req[x].month
      /\ req'[x].range = req[x].range

LEMMA QuietAlone ==
  ASSUME QuietInv, NEW r \in Requests, MovesAlone(r), QuietRead(r)'
  PROVE  QuietInv'
<1>1. ASSUME NEW x \in Requests \ {r} PROVE QuietRead(x)'
  <2>1. /\ req'[x] = req[x] /\ UNCHANGED <<category, budgets>> /\ QuietRead(x)
    BY DEF QuietInv, MovesAlone
  <2>2. /\ Selected(x)' = Selected(x)
        /\ ByCategory(Selected(x))' = ByCategory(Selected(x))
    BY <2>1 DEF Selected, OwnRows, Where, Present, ByCategory
  <2> QED
    BY <2>1, <2>2 DEF QuietRead
<1> QED
  BY <1>1 DEF QuietInv

LEMMA QuietAloud ==
  ASSUME QuietInv, MovesAloud
  PROVE  QuietInv'
BY DEF QuietInv, MovesAloud, QuietRead

\* Disturbing the records q, of which only others than listings are new.
LEMMA DisturbIsAloud ==
  ASSUME NEW q \in [Requests -> ReqRecords], req' = Disturb(q),
         \A x \in Requests : q[x] = req[x] \/ q[x].kind # "budgets"
  PROVE  MovesAloud
<1> SUFFICES ASSUME NEW x \in Requests,
                    req'[x].kind = "budgets", req'[x].pc \in Open
             PROVE  /\ ~req'[x].quiet /\ req[x].kind = "budgets"
                    /\ req'[x].pc = req[x].pc
                    /\ req'[x].user = req[x].user /\ req'[x].month = req[x].month
                    /\ req'[x].range = req[x].range
  BY DEF MovesAloud
<1>1. req'[x] = IF q[x].kind = "budgets" /\ q[x].pc \in Open
                THEN [q[x] EXCEPT !.quiet = FALSE] ELSE q[x]
  BY DEF Disturb
<1>2. q[x] \in ReqRecords
  OBVIOUS
<1>3. q[x].kind = "budgets" /\ q[x].pc \in Open
  BY <1>1
<1>4. req'[x] = [q[x] EXCEPT !.quiet = FALSE] /\ q[x] = req[x]
  BY <1>1, <1>3
<1> QED
  BY <1>2, <1>3, <1>4 DEF ReqRecords

\* A request that asks the same selects the same while nothing is written.
LEMMA SelectsTheSame ==
  ASSUME NEW r \in Requests, UNCHANGED category,
         req'[r].kind = req[r].kind, req'[r].user = req[r].user,
         req'[r].statement = req[r].statement, req'[r].range = req[r].range
  PROVE  /\ Selected(r)' = Selected(r)
         /\ ByCategory(Selected(r))' = ByCategory(Selected(r))
BY DEF Selected, OwnRows, Where, Present, ByCategory

LEMMA AskedAreMonths ==
  /\ Asked \subseteq [year : Int, month : 1..12]
  /\ MonthOf(Now) \in [year : Int, month : 1..12]
<1>1. MonthOf(Now) \in [year : Int, month : 1..12]
  BY LedgerAssumption, MonthContains
<1>2. \A m \in Months : m \in [year : Int, month : 1..12]
  BY LedgerAssumption
<1> QED
  BY <1>1, <1>2 DEF Asked

LEMMA SendIsQuiet ==
  ASSUME TypeInv, QuietInv, NEW r \in Requests, Send(r)
  PROVE  QuietInv'
<1>0. MovesAlone(r) /\ UNCHANGED category
  BY DEF Send, SendOverview, SendStats, SendBudgets, SendSet, SendRemove,
         MovesAlone, TypeInv
<1>1. Unsent \in ReqRecords
  BY UnsentIsTyped
<1>2. CASE SendBudgets(r)
  <2>1. PICK u \in Clients, m \in [year : Int, month : 1..12] :
          req' = [req EXCEPT ![r] = [Unsent EXCEPT
                    !.kind = "budgets", !.pc = "byType", !.user = u, !.month = m,
                    !.range = getMonthRange(m.year, m.month)]]
    BY <1>2, AskedAreMonths DEF SendBudgets, getCurrentMonthRange, Asked
  <2> DEFINE range == getMonthRange(m.year, m.month)
             q == [Unsent EXCEPT
                    !.kind = "budgets", !.pc = "byType", !.user = u, !.month = m,
                    !.range = range]
  <2> HIDE DEF range
  <2>2. /\ q.user = u /\ q.month = m /\ q.range = range
        /\ q.byCategory = None /\ q.own = None
    BY DEF Unsent
  <2>3. req'[r] = q
    BY <2>1 DEF TypeInv, range
  <2> HIDE DEF q
  <2>4. QuietRead(r)'
    BY <2>2, <2>3 DEF QuietRead, range
  <2> QED
    BY <1>0, <2>4, QuietAlone
<1>3. CASE ~SendBudgets(r)
  <2>1. req'[r].kind # "budgets"
    <3>1. CASE SendOverview(r)
      BY <1>1, <3>1 DEF SendOverview, ReqRecords, TypeInv
    <3>2. CASE SendStats(r)
      BY <1>1, <3>2 DEF SendStats, ReqRecords, TypeInv
    <3>3. CASE SendSet(r)
      BY <1>1, <3>3 DEF SendSet, ReqRecords, TypeInv
    <3>4. CASE SendRemove(r)
      BY <1>1, <3>4 DEF SendRemove, ReqRecords, TypeInv
    <3> QED
      BY <1>3, <3>1, <3>2, <3>3, <3>4 DEF Send
  <2>2. QuietRead(r)'
    BY <2>1 DEF QuietRead
  <2> QED
    BY <1>0, <2>2, QuietAlone
<1> QED
  BY <1>2, <1>3

\* The fields by which a listing of budgets is asked for.
Asks(r) ==
  /\ req'[r].kind = req[r].kind /\ req'[r].user = req[r].user
  /\ req'[r].statement = req[r].statement /\ req'[r].range = req[r].range
  /\ req'[r].month = req[r].month /\ req'[r].quiet = req[r].quiet

\* A step of r that asks the same, and reads nothing but what is there.
LEMMA ReadIsQuiet ==
  ASSUME QuietInv, NEW r \in Requests, MovesAlone(r), Asks(r),
         req[r].pc \in Open,
         req'[r].byCategory \in {req[r].byCategory, ByCategory(Selected(r))},
         req'[r].own \in {req[r].own, budgets[req[r].user]}
  PROVE  QuietInv'
<1>1. UNCHANGED <<category, budgets>> /\ QuietRead(r)
  BY DEF MovesAlone, QuietInv
<1>2. ByCategory(Selected(r))' = ByCategory(Selected(r))
  BY <1>1, SelectsTheSame DEF Asks
<1>3. QuietRead(r)'
  BY <1>1, <1>2 DEF QuietRead, Asks
<1> QED
  BY <1>3, QuietAlone

LEMMA EndIsQuiet ==
  ASSUME TypeInv, QuietInv, NEW r \in Requests, NEW label, End(r, label),
         UNCHANGED <<category, budgets>>
  PROVE  QuietInv' /\ req'[r].kind = "none"
<1>1. /\ req' = [req EXCEPT ![r] = Ended(label)]
      /\ Ended(label).kind = "none"
  BY DEF End, Ended, Unsent
<1>2. req'[r].kind = "none" /\ MovesAlone(r)
  BY <1>1 DEF TypeInv, MovesAlone
<1>3. QuietRead(r)'
  BY <1>2 DEF QuietRead
<1> QED
  BY <1>2, <1>3, QuietAlone

LEMMA FindStatementReads ==
  ASSUME TypeInv, QuietInv, NEW r \in Requests, FindStatement(r)
  PROVE  QuietInv' /\ req'[r].pc # "answered"
<1>1. CASE Goto(r, "byType")
  <2>1. /\ req[r] \in ReqRecords
        /\ req' = [req EXCEPT ![r] = [req[r] EXCEPT !.pc = "byType"]]
        /\ req[r].pc = "lookup" /\ UNCHANGED <<category, budgets>>
    BY <1>1 DEF FindStatement, TypeInv, Goto
  <2>2. /\ MovesAlone(r) /\ Asks(r) /\ req[r].pc \in Open
        /\ req'[r].byCategory = req[r].byCategory /\ req'[r].own = req[r].own
        /\ req'[r].pc = "byType"
    BY <2>1 DEF MovesAlone, Asks, ReqRecords, Open, TypeInv
  <2> QED
    BY <2>2, ReadIsQuiet
<1>2. CASE End(r, "notFound")
  BY <1>2, EndIsQuiet, EndMoves DEF FindStatement
<1> QED
  BY <1>1, <1>2 DEF FindStatement

LEMMA GroupByTypeReads ==
  ASSUME TypeInv, QuietInv, NEW r \in Requests, GroupByType(r)
  PROVE  /\ QuietInv'
         /\ req[r].kind = "budgets" => req'[r].pc # "answered"
<1> DEFINE totals == ByType(Selected(r))
           label  == IF req[r].kind = "stats" THEN "answered" ELSE "byCategory"
           done   == Committed
<1>1. /\ req[r] \in ReqRecords /\ req[r].pc = "byType"
      /\ req' = [req EXCEPT ![r] = [req[r] EXCEPT !.byType = totals, !.first = done,
                                                  !.pc = label]]
      /\ UNCHANGED <<category, budgets>>
  BY DEF GroupByType, TypeInv
<1> HIDE DEF totals, label, done
<1>2. /\ MovesAlone(r) /\ Asks(r) /\ req[r].pc \in Open
      /\ req'[r].byCategory = req[r].byCategory /\ req'[r].own = req[r].own
      /\ req'[r].pc = label
  BY <1>1 DEF MovesAlone, Asks, ReqRecords, Open, TypeInv
<1> QED
  BY <1>2, ReadIsQuiet DEF label

LEMMA GroupByCategoryReads ==
  ASSUME TypeInv, QuietInv, NEW r \in Requests, GroupByCategory(r)
  PROVE  /\ QuietInv' /\ UNCHANGED <<category, budgets>>
         /\ req'[r].byCategory = ByCategory(Selected(r))
         /\ req'[r].own = req[r].own
         /\ req[r].kind = "budgets" /\ req'[r].pc = "answered" => req[r].own # None
<1> DEFINE totals == ByCategory(Selected(r))
           label  == IF req[r].kind = "overview" \/ req[r].own # None
                     THEN "answered" ELSE "byCategory"
           done   == Committed
<1>1. /\ req[r] \in ReqRecords /\ req[r].pc = "byCategory"
      /\ req' = [req EXCEPT ![r] = [req[r] EXCEPT !.byCategory = totals,
                                                  !.second = done, !.pc = label]]
      /\ UNCHANGED <<category, budgets>>
  BY DEF GroupByCategory, Categorized, TypeInv
<1> HIDE DEF totals, label, done
<1>2. /\ MovesAlone(r) /\ Asks(r) /\ req[r].pc \in Open
      /\ req'[r].byCategory = totals /\ req'[r].own = req[r].own
      /\ req'[r].pc = label
  BY <1>1 DEF MovesAlone, Asks, ReqRecords, Open, TypeInv
<1>3. QuietInv'
  BY <1>2, ReadIsQuiet DEF totals
<1> QED
  BY <1>1, <1>2, <1>3 DEF totals, label

LEMMA FindBudgetsReads ==
  ASSUME TypeInv, QuietInv, NEW r \in Requests, FindBudgets(r)
  PROVE  /\ QuietInv' /\ UNCHANGED <<category, budgets>>
         /\ req'[r].byCategory = req[r].byCategory
         /\ req'[r].own = budgets[req[r].user]
         /\ req[r].pc \in Open /\ req'[r].pc = "answered" => req[r].byCategory # None
<1> DEFINE found == budgets[req[r].user]
           label == IF req[r].byCategory # None THEN "answered" ELSE req[r].pc
<1>1. /\ req[r] \in ReqRecords /\ req[r].pc \in Open
      /\ req' = [req EXCEPT ![r] = [req[r] EXCEPT !.own = found, !.pc = label]]
      /\ UNCHANGED <<category, budgets>>
  BY DEF FindBudgets, TypeInv
<1> HIDE DEF found, label
<1>2. /\ MovesAlone(r) /\ Asks(r)
      /\ req'[r].byCategory = req[r].byCategory /\ req'[r].own = found
      /\ req'[r].pc = label
  BY <1>1 DEF MovesAlone, Asks, ReqRecords, TypeInv
<1>3. QuietInv'
  BY <1>1, <1>2, ReadIsQuiet DEF found
<1> QED
  BY <1>1, <1>2, <1>3 DEF found, label, Open

LEMMA WritesAreAloud ==
  ASSUME TypeInv,
         \/ \E s \in Statements : createMany(s)
         \/ \E i \in Items, c \in Categories : correct(i, c)
         \/ \E r \in Requests : Upsert(r)
  PROVE  MovesAloud
<1>1. CASE req' = Disturb(req)
  <2>1. req \in [Requests -> ReqRecords]
    BY DEF TypeInv
  <2> QED
    BY <1>1, <2>1, DisturbIsAloud
<1>2. ASSUME NEW r \in Requests, Upsert(r) PROVE MovesAloud
  <2>1. PICK answer \in {"answered", "failed"} :
          req' = Disturb([req EXCEPT ![r] = Ended(answer)])
    BY <1>2 DEF Upsert
  <2> DEFINE q == [req EXCEPT ![r] = Ended(answer)]
  <2>2. Ended(answer) \in ReqRecords /\ Ended(answer).kind = "none"
    BY EndedIsTyped
  <2>3. /\ q \in [Requests -> ReqRecords] /\ req' = Disturb(q)
        /\ \A x \in Requests : q[x] = req[x] \/ q[x].kind # "budgets"
    BY <2>1, <2>2 DEF TypeInv
  <2> HIDE DEF q
  <2> QED
    BY <2>3, DisturbIsAloud
<1> QED
  BY <1>1, <1>2 DEF createMany, correct

LEMMA RemovalIsQuiet ==
  ASSUME TypeInv, QuietInv, NEW r \in Requests, Find(r) \/ Delete(r)
  PROVE  QuietInv'
<1>1. req[r] \in ReqRecords /\ req[r].kind = "remove"
  BY DEF TypeInv, Stage, Find, Delete
<1>2. CASE Find(r)
  <2>1. MovesAlone(r)
    BY <1>2 DEF Find, FindOne, End, TypeInv, MovesAlone
  <2>2. req'[r].kind # "budgets"
    BY <1>1, <1>2, FindMoves
  <2>3. QuietRead(r)'
    BY <2>2 DEF QuietRead
  <2> QED
    BY <2>1, <2>3, QuietAlone
<1>3. CASE Delete(r) /\ Row(r) = None
  <2>1. MovesAlone(r)
    BY <1>3 DEF Delete, DeleteRow, Goto, TypeInv, MovesAlone
  <2>2. req'[r].kind # "budgets"
    BY <1>1, <1>3, DeleteMoves
  <2>3. QuietRead(r)'
    BY <2>2 DEF QuietRead
  <2> QED
    BY <2>1, <2>3, QuietAlone
<1>4. CASE Delete(r) /\ Row(r) # None
  <2>1. PICK answer \in {"answered", "failed"} :
          req' = Disturb([req EXCEPT ![r].pc = answer, ![r].row = Row(r).id])
    BY <1>4 DEF Delete, DeleteRow
  <2>2. Row(r).id \in Requests \cup {"old"}
    <3>1. req[r].user \in Clients /\ req[r].target \in Targets
      BY <1>4, DeleteMoves
    <3>2. Row(r) \in BudgetRows
      BY <1>4, <3>1 DEF Row, TypeInv, Targets
    <3> QED
      BY <3>2 DEF BudgetRows
  <2> DEFINE id == Row(r).id
             p == [req[r] EXCEPT !.pc = answer, !.row = id]
             q == [req EXCEPT ![r] = p]
  <2>3. answer \in Pcs /\ id \in Requests \cup {"old", None}
    BY <2>2 DEF Pcs
  <2>4. req' = Disturb(q)
    BY <2>1 DEF TypeInv
  <2> HIDE DEF id
  <2>5. p \in ReqRecords
    BY <1>1, <2>3 DEF ReqRecords
  <2>7. p.kind = "remove"
    BY <1>1 DEF ReqRecords
  <2> HIDE DEF p
  <2>6. /\ q \in [Requests -> ReqRecords]
        /\ \A x \in Requests : q[x] = req[x] \/ q[x].kind # "budgets"
    BY <2>5, <2>7 DEF TypeInv
  <2> HIDE DEF q
  <2>8. MovesAloud
    BY <2>4, <2>6, DisturbIsAloud
  <2> QED
    BY <2>8, QuietAloud
<1> QED
  BY <1>2, <1>3, <1>4

\* Of the rows of a user, a listing selects those of the month it was asked for.
LEMMA SelectedIsOfMonth ==
  ASSUME NEW r \in Requests, QuietRead(r),
         req[r].kind = "budgets", req[r].pc \in Open, req[r].month.year >= 100
  PROVE  Selected(r) = {i \in OwnRows(req[r].user) :
                          MonthOf(Extracted[i].date) = req[r].month}
<1> DEFINE y == req[r].month.year
           m == req[r].month.month
           range == req[r].range
<1>1. /\ y \in Int /\ y >= 100 /\ m \in 1..12
      /\ req[r].month = [year |-> y, month |-> m]
      /\ range = getMonthRange(y, m)
  BY DEF QuietRead
<1>2. FullYear(y) = y
  BY SMT, <1>1 DEF FullYear
<1>3. Selected(r) = Where(req[r].user, range)
  BY DEF Selected
<1> HIDE DEF y, m, range
<1>4. range.from # None /\ range.to # None
  <2>1. range \in [from : Int, to : Int]
    <3>1. 0 \in Int
      OBVIOUS
    <3> QED
      BY <1>1, <3>1, MonthRangeIsMonth
  <2> QED
    BY <2>1, LedgerAssumption
<1>5. ASSUME NEW t \in Int
      PROVE  InRange(t, range) <=> MonthOf(t) = req[r].month
  <2>1. range.from <= t /\ t <= range.to <=> MonthOf(t) = req[r].month
    <3>1. y \in Int /\ m \in 1..12
      BY <1>1
    <3>2. getMonthRange(y, m).from <= t /\ t <= getMonthRange(y, m).to
            <=> MonthOf(t) = [year |-> FullYear(y), month |-> m]
      BY <3>1, <1>5, MonthRangeIsMonth
    <3>3. range = getMonthRange(y, m)
          /\ req[r].month = [year |-> FullYear(y), month |-> m]
      BY <1>1, <1>2
    <3> QED
      BY <3>2, <3>3
  <2>2. range.from \in Int /\ (t >= range.from <=> range.from <= t)
    BY <1>1, MonthRangeIsMonth
  <2> QED
    BY <1>4, <2>1, <2>2 DEF InRange
<1>6. \A i \in Items : Extracted[i].date \in Int
  BY LedgerAssumption
<1>7. Where(req[r].user, range)
        = {i \in OwnRows(req[r].user) : InRange(Extracted[i].date, range)}
  BY DEF Where
<1>8. \A i \in OwnRows(req[r].user) : i \in Items
  BY DEF OwnRows
<1> QED
  BY <1>3, <1>5, <1>6, <1>7, <1>8

\* A listing of budgets is about to be answered.
Answers(r) ==
  req[r].pc \in Open /\ req'[r].pc = "answered" /\ req[r].kind = "budgets"

Compares(r) ==
  req[r].quiet /\ req[r].month.year >= 100 =>
    /\ req'[r].own = budgets[req[r].user]
    /\ \A c \in Categories :
         spent(r, c)' =
           Group({i \in OwnRows(req[r].user) :
                    /\ category[i] = c
                    /\ MonthOf(Extracted[i].date) = req[r].month}).sum

LEMMA ReadCompares ==
  ASSUME QuietInv, NEW r \in Requests, Answers(r),
         req'[r].byCategory = ByCategory(Selected(r)),
         req[r].quiet => req'[r].own = budgets[req[r].user]
  PROVE  Compares(r)
<1> SUFFICES ASSUME req[r].quiet, req[r].month.year >= 100, NEW c \in Categories
             PROVE  spent(r, c)' =
                      Group({i \in OwnRows(req[r].user) :
                               /\ category[i] = c
                               /\ MonthOf(Extracted[i].date) = req[r].month}).sum
  BY DEF Compares
<1>1. Selected(r) = {i \in OwnRows(req[r].user) :
                       MonthOf(Extracted[i].date) = req[r].month}
  BY SelectedIsOfMonth DEF Answers, QuietInv
<1> DEFINE A == {i \in Selected(r) : category[i] = c}
           B == {i \in OwnRows(req[r].user) :
                   /\ category[i] = c
                   /\ MonthOf(Extracted[i].date) = req[r].month}
<1>2. A = B
  BY <1>1
<1>3. spent(r, c)' = ByCategory(Selected(r))[c].sum
  BY DEF spent
<1>4. ByCategory(Selected(r))[c] = Group(A)
  BY DEF ByCategory
<1> HIDE DEF A, B
<1>5. spent(r, c)' = Group(B).sum
  BY <1>2, <1>3, <1>4
<1> QED
  BY <1>5 DEF B

LEMMA NoneAnswers ==
  ASSUME NEW W \in SUBSET Requests, Moves(W), \A r \in W : ~Answers(r)
  PROVE  \A r \in Requests : ~Answers(r)
<1>1. ASSUME NEW r \in Requests \ W PROVE ~Answers(r)
  BY DEF Moves, Same, Answers, Open
<1> QED
  BY <1>1

Good == QuietInv' /\ \A r \in Requests : Answers(r) => Compares(r)

LEMMA QuietStep ==
  ASSUME TypeInv, QuietInv, [Next]_vars
  PROVE  Good
<1>0. ASSUME NEW r \in Requests, Moves({r}), ~Answers(r), QuietInv' PROVE Good
  BY <1>0, NoneAnswers DEF Good
<1>1. ASSUME NEW r \in Requests, Send(r) PROVE Good
  <2>1. ~Answers(r)
    BY <1>1, SendMoves DEF Answers, Open
  <2> QED
    BY <1>0, <1>1, <2>1, SendMoves, SendIsQuiet
<1>2. ASSUME NEW r \in Requests, FindStatement(r) PROVE Good
  <2>1. ~Answers(r)
    BY <1>2, FindStatementReads DEF Answers
  <2> QED
    BY <1>0, <1>2, <2>1, FindStatementMoves, FindStatementReads
<1>3. ASSUME NEW r \in Requests, GroupByType(r) PROVE Good
  <2>1. ~Answers(r)
    BY <1>3, GroupByTypeReads DEF Answers
  <2> QED
    BY <1>0, <1>3, <2>1, GroupByTypeMoves, GroupByTypeReads
<1>4. ASSUME NEW r \in Requests, GroupByCategory(r) PROVE Good
  <2>1. Answers(r) => Compares(r)
    <3> SUFFICES ASSUME Answers(r) PROVE Compares(r)
      OBVIOUS
    <3>1. /\ req'[r].byCategory = ByCategory(Selected(r))
          /\ req'[r].own = req[r].own /\ req[r].own # None
      BY <1>4, GroupByCategoryReads DEF Answers
    <3>2. req[r].quiet => req'[r].own = budgets[req[r].user]
      BY <3>1 DEF QuietInv, QuietRead, Answers
    <3> QED
      BY <3>1, <3>2, ReadCompares
  <2>2. ASSUME NEW x \in Requests \ {r} PROVE ~Answers(x)
    BY <1>4, GroupByCategoryMoves DEF Moves, Same, Answers, Open
  <2> QED
    BY <1>4, <2>1, <2>2, GroupByCategoryReads DEF Good
<1>5. ASSUME NEW r \in Requests, FindBudgets(r) PROVE Good
  <2>1. Answers(r) => Compares(r)
    <3> SUFFICES ASSUME Answers(r) PROVE Compares(r)
      OBVIOUS
    <3>1. /\ req'[r].byCategory = req[r].byCategory /\ req[r].byCategory # None
          /\ req'[r].own = budgets[req[r].user]
      BY <1>5, FindBudgetsReads DEF Answers
    <3>2. req[r].quiet => req'[r].byCategory = ByCategory(Selected(r))
      BY <3>1 DEF QuietInv, QuietRead, Answers
    <3>3. CASE req[r].quiet
      BY <3>1, <3>2, <3>3, ReadCompares
    <3>4. CASE ~req[r].quiet
      BY <3>4 DEF Compares
    <3> QED
      BY <3>3, <3>4
  <2>2. ASSUME NEW x \in Requests \ {r} PROVE ~Answers(x)
    BY <1>5, FindBudgetsMoves DEF Moves, Same, Answers, Open
  <2> QED
    BY <1>5, <2>1, <2>2, FindBudgetsReads DEF Good
<1>6. ASSUME NEW r \in Requests, Upsert(r) PROVE Good
  <2>1. ~Answers(r) /\ Moves({r})
    BY <1>6, UpsertMoves DEF Answers
  <2>2. QuietInv'
    BY <1>6, WritesAreAloud, QuietAloud
  <2> QED
    BY <1>0, <2>1, <2>2
<1>7. ASSUME NEW r \in Requests, Find(r) PROVE Good
  <2>1. ~Answers(r) /\ Moves({r})
    BY <1>7, FindMoves DEF Answers
  <2> QED
    BY <1>0, <1>7, <2>1, RemovalIsQuiet
<1>8. ASSUME NEW r \in Requests, Delete(r) PROVE Good
  <2>1. ~Answers(r) /\ Moves({r})
    BY <1>8, DeleteMoves DEF Answers
  <2> QED
    BY <1>0, <1>8, <2>1, RemovalIsQuiet
<1>9. ASSUME NEW r \in Requests, Fail(r) PROVE Good
  <2>1. End(r, "failed") /\ UNCHANGED <<category, budgets>>
    BY <1>9 DEF Fail
  <2>2. Moves({r}) /\ ~Answers(r)
    BY <2>1, EndMoves DEF Answers
  <2> QED
    BY <1>0, <2>1, <2>2, EndIsQuiet
<1>10. CASE \/ \E s \in Statements : createMany(s)
            \/ \E i \in Items, c \in Categories : correct(i, c)
  <2>1. QuietInv'
    BY <1>10, WritesAreAloud, QuietAloud
  <2>2. Moves({})
    BY <1>10, createManyEffect, correctEffect
  <2>3. \A x \in Requests : ~Answers(x)
    BY <2>2, NoneAnswers
  <2> QED
    BY <2>1, <2>3 DEF Good
<1>11. CASE UNCHANGED vars
  <2>1. UNCHANGED <<category, budgets, req>>
    BY <1>11 DEF vars
  <2>2. ASSUME NEW x \in Requests PROVE QuietRead(x)'
    <3>1. QuietRead(x) /\ ByCategory(Selected(x))' = ByCategory(Selected(x))
      BY <2>1, SelectsTheSame DEF QuietInv
    <3> QED
      BY <2>1, <3>1 DEF QuietRead
  <2>3. \A x \in Requests : ~Answers(x)
    BY <2>1 DEF Answers, Open
  <2> QED
    BY <2>2, <2>3 DEF Good, QuietInv
<1>12. CASE Terminating
  BY <1>11, <1>12 DEF Terminating
<1>13. ASSUME NEW r \in Requests, Handle(r) PROVE Good
  BY <1>13, <1>2, <1>3, <1>4, <1>5, <1>6, <1>7, <1>8, <1>9 DEF Handle
<1>14. CASE \E r \in Requests : Send(r) \/ Handle(r)
  BY <1>1, <1>13, <1>14
<1>15. CASE Next
  <2>1. \/ \E s \in Statements : createMany(s)
        \/ \E i \in Items, c \in Categories : correct(i, c)
        \/ \E r \in Requests : Send(r) \/ Handle(r)
        \/ Terminating
    BY <1>15 DEF Next
  <2> QED
    BY <2>1, <1>10, <1>12, <1>14
<1>16. Next \/ UNCHANGED vars
  OBVIOUS
<1> QED
  BY <1>11, <1>15, <1>16

LEMMA QuietInit ==
  ASSUME Init
  PROVE  QuietInv
BY UnsentIsTyped DEF Init, QuietInv, QuietRead

\* When nothing is written while it runs, a listing of budgets has the budgets
\* that are there and, for every category, what the transactions of the month
\* come to: for any items, whatever their dates, and any month from the year
\* 100 on.
THEOREM BudgetsCompareTheMonth == Spec => SpentIsOfMonth
<1>1. Init => TypeInv /\ QuietInv
  BY TypeInit, QuietInit
<1>2. TypeInv /\ QuietInv /\ [Next]_vars => (TypeInv /\ QuietInv)'
  BY TypeStep, QuietStep DEF Good
<1>3. TypeInv /\ QuietInv /\ [Next]_vars =>
        [\A r \in Requests :
           req[r].pc \in Open /\ req'[r].pc = "answered" /\ req[r].kind = "budgets"
             /\ req[r].quiet /\ req[r].month.year >= 100 =>
               /\ req'[r].own = budgets[req[r].user]
               /\ \A c \in Categories :
                    spent(r, c)' =
                      Group({i \in OwnRows(req[r].user) :
                               /\ category[i] = c
                               /\ MonthOf(Extracted[i].date) = req[r].month}).sum]_vars
  BY QuietStep DEF Good, Answers, Compares
<1> QED
  BY <1>1, <1>2, <1>3, PTL DEF Spec, SpentIsOfMonth
=============================================================================
