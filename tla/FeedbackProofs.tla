--------------------------- MODULE FeedbackProofs ---------------------------
(***************************************************************************)
(* Proofs about Feedback, Validation and Context, for any validators,      *)
(* limits, sizes and number of kills: what the model is told, when a       *)
(* session succeeds, and that the builder of the prompt packs well.        *)
(*                                                                         *)
(*   1. sums: the folds of Context are counts of finite sets               *)
(*   2. the loops: Selected of Validation and Accepted of Context          *)
(*   3. the gate: what success_gate_open means for the results of a stage  *)
(*   4. the invariant of Feedback and the theorems                         *)
(*                                                                         *)
(* Where a proof needs induction over a list, it takes the least number    *)
(* for which the claim would fail.                                         *)
(***************************************************************************)
EXTENDS Feedback, FiniteSetTheorems, WellFoundedInduction, TLAPS

-----------------------------------------------------------------------------
(* 1. Sums                                                                   *)

\* A set of numbers that is not empty has a least one: what is left of
\* induction here.
LEMMA LeastOf ==
  ASSUME NEW S \in SUBSET Nat, S # {} PROVE \E m \in S : \A n \in S : m <= n
<1>1. PICK m \in S : \A y \in S : ~ (<<y, m>> \in OpToRel(<, Nat))
  BY NatLessThanWellFounded, WFMin
<1>2. \A y \in S : ~ (y < m) BY <1>1 DEF OpToRel
<1> QED BY <1>2

\* A stack of f[x] blocks for every x of S: a sum is the number of blocks.
Blocks(f, S, M) == {p \in S \X (1..M) : p[2] <= f[p[1]]}

\* The stacks have finitely many blocks.
LEMMA BlocksCounted ==
  ASSUME NEW S, IsFiniteSet(S), NEW M \in Nat, NEW f
  PROVE  /\ IsFiniteSet(Blocks(f, S, M))
         /\ Cardinality(Blocks(f, S, M)) \in Nat
<1>1. IsFiniteSet(1..M) BY FS_Interval
<1>2. IsFiniteSet(S \X (1..M)) BY <1>1, FS_Product
<1>3. IsFiniteSet(Blocks(f, S, M)) BY <1>2, FS_Subset DEF Blocks
<1> QED BY <1>3, FS_CardinalityType

\* The blocks of x are f[x] more than those of the others.
LEMMA BlocksGrow ==
  ASSUME NEW S, IsFiniteSet(S), NEW M \in Nat, NEW f,
         NEW x \in S, f[x] \in 0..M
  PROVE  Cardinality(Blocks(f, S, M)) = f[x] + Cardinality(Blocks(f, S \ {x}, M))
<1> DEFINE A == Blocks(f, S \ {x}, M)
           B == {x} \X (1..f[x])
<1>1. f[x] \in Nat /\ f[x] \in Int /\ 1 \in Int OBVIOUS
<1>2. IsFiniteSet(1..f[x]) /\ Cardinality(1..f[x]) = f[x]
  <2>1. /\ IsFiniteSet(1..f[x])
        /\ Cardinality(1..f[x]) = IF 1 > f[x] THEN 0 ELSE f[x] - 1 + 1
    BY <1>1, FS_Interval
  <2> QED BY <1>1, <2>1
<1>3. IsFiniteSet(B) /\ Cardinality(B) = f[x]
  <2>1. IsFiniteSet({x}) /\ Cardinality({x}) = 1 BY FS_Singleton
  <2> DEFINE R == 1..f[x]
  <2>2. IsFiniteSet(R) /\ Cardinality(R) = f[x] BY <1>2
  <2> HIDE DEF R
  <2>3. /\ IsFiniteSet({x} \X R)
        /\ Cardinality({x} \X R) = Cardinality({x}) * Cardinality(R)
    BY <2>1, <2>2, FS_Product
  <2>4. Cardinality({x} \X R) = f[x] BY <1>1, <2>1, <2>2, <2>3
  <2> QED BY <2>3, <2>4 DEF R
<1>4. Blocks(f, S, M) = A \cup B BY <1>1 DEF Blocks
<1>5. A \cap B = {} BY DEF Blocks
<1>6. IsFiniteSet(A) /\ Cardinality(A) \in Nat
  <2>1. IsFiniteSet(S \ {x}) BY FS_RemoveElement
  <2> QED BY <2>1, BlocksCounted
<1> HIDE DEF A, B
<1>7. Cardinality(A \cup B) = Cardinality(A) + Cardinality(B) - Cardinality({})
  BY <1>3, <1>5, <1>6, FS_Union
<1>8. Cardinality({}) = 0 BY FS_EmptySet
<1> QED BY <1>1, <1>3, <1>4, <1>6, <1>7, <1>8 DEF A

\* How a fold of the community modules takes a set apart.
SumStep(it, s, f) ==
  IF s = {} THEN 0
  ELSE LET x == CHOOSE x \in s : TRUE IN f[x] + it[s \ {x}]

Sums(it, f, T) == it = [s \in SUBSET T |-> SumStep(it, s, f)]

\* The fold that sums f over S, whichever element it takes first, exists and
\* counts the blocks.
LEMMA SumIsCount ==
  ASSUME NEW U, NEW M \in Nat, NEW f \in [U -> 0..M],
         NEW T \in SUBSET U, IsFiniteSet(T)
  PROVE  /\ \E it : Sums(it, f, T)
         /\ \A it : Sums(it, f, T) => it[T] = Cardinality(Blocks(f, T, M))
<1> DEFINE g == [s \in SUBSET T |-> Cardinality(Blocks(f, s, M))]
<1>1. \A s \in SUBSET T : IsFiniteSet(s) /\ Cardinality(s) \in Nat
  BY FS_Subset, FS_CardinalityType
<1>2. ASSUME NEW s \in SUBSET T
      PROVE  /\ Cardinality(Blocks(f, s, M)) \in Nat
             /\ \A x \in s : Cardinality(Blocks(f, s, M)) =
                               f[x] + Cardinality(Blocks(f, s \ {x}, M))
  <2>1. IsFiniteSet(s) BY <1>1
  <2>2. ASSUME NEW x \in s PROVE f[x] \in 0..M OBVIOUS
  <2> QED BY <2>1, <2>2, BlocksCounted, BlocksGrow
<1>3. Cardinality(Blocks(f, {}, M)) = 0 BY FS_EmptySet DEF Blocks
<1>4. \A s \in SUBSET T : g[s] = SumStep(g, s, f)
  <2> TAKE s \in SUBSET T
  <2>1. CASE s = {} BY <1>3, <2>1 DEF SumStep
  <2>2. CASE s # {}
    <3> DEFINE x == CHOOSE x \in s : TRUE
    <3>1. x \in s BY <2>2
    <3>2. s \ {x} \in SUBSET T OBVIOUS
    <3> HIDE DEF x
    <3>3. g[s] = f[x] + g[s \ {x}] BY <1>2, <3>1, <3>2
    <3> HIDE DEF g
    <3> QED BY <2>2, <3>3 DEF SumStep, x
  <2> QED BY <2>1, <2>2
<1>5. Sums(g, f, T)
  <2>1. DOMAIN g = SUBSET T /\ g = [s \in DOMAIN g |-> g[s]] OBVIOUS
  <2> HIDE DEF g
  <2>2. g = [s \in SUBSET T |-> SumStep(g, s, f)] BY <1>4, <2>1
  <2> QED BY <2>2 DEF Sums
<1>6. ASSUME NEW it, Sums(it, f, T) PROVE \A s \in SUBSET T : it[s] = g[s]
  <2> DEFINE Bad == {k \in Nat : \E s \in SUBSET T :
                             Cardinality(s) = k /\ it[s] # g[s]}
  <2> HIDE DEF g
  <2>1. \A s \in SUBSET T : it[s] = SumStep(it, s, f) BY <1>6 DEF Sums
  <2>2. Bad = {}
    <3> SUFFICES ASSUME Bad # {} PROVE FALSE OBVIOUS
    <3>1. PICK m \in Bad : \A k \in Bad : m <= k BY LeastOf
    <3>2. PICK s \in SUBSET T : Cardinality(s) = m /\ it[s] # g[s] BY <3>1
    <3>3. s # {} BY <1>4, <2>1, <3>2 DEF SumStep
    <3> DEFINE x == CHOOSE x \in s : TRUE
    <3>4. x \in s BY <3>3
    <3>5. it[s] = f[x] + it[s \ {x}] /\ g[s] = f[x] + g[s \ {x}]
      BY <1>4, <2>1, <3>3 DEF SumStep
    <3> HIDE DEF x
    <3>6. s \ {x} \in SUBSET T /\ Cardinality(s \ {x}) = m - 1 /\ m \in Nat
      BY <1>1, <3>2, <3>4, FS_RemoveElement
    <3>7. Cardinality(s \ {x}) \in Nat BY <1>1, <3>6
    <3>8. m - 1 \notin Bad BY <3>1, <3>6
    <3>9. it[s \ {x}] = g[s \ {x}] BY <3>6, <3>7, <3>8
    <3> QED BY <3>2, <3>5, <3>9
  <2> QED BY <1>1, <2>2
<1>7. g[T] = Cardinality(Blocks(f, T, M)) OBVIOUS
<1> HIDE DEF g
<1> QED BY <1>5, <1>6, <1>7

\* SizeOf of Context, which is such a fold, is a number of blocks.
LEMMA SizeOfIsCount ==
  ASSUME NEW list \in Seq(Nat), NEW S \in SUBSET (1..Len(list))
  PROVE  LET f == [i \in 1..Len(list) |-> Size(list[i])] IN
         SizeOf(list, S) = Cardinality(Blocks(f, S, ItemCap))
<1> DEFINE f == [i \in 1..Len(list) |-> Size(list[i])]
           IsSum(it) ==
             it = [s \in SUBSET S |->
                     IF s = {} THEN 0
                     ELSE LET x == CHOOSE x \in s : TRUE
                          IN Size(list[x]) + it[s \ {x}]]
           sum == CHOOSE it : IsSum(it)
<1>1. SizeOf(list, S) = sum[S] BY DEF SizeOf, MapThenSumSet, MapThenFoldSet
<1>2. IsFiniteSet(S) /\ ItemCap \in Nat
  <2>1. Len(list) \in Int /\ 1 \in Int OBVIOUS
  <2>2. IsFiniteSet(1..Len(list)) BY <2>1, FS_Interval
  <2> QED BY <2>2, FS_Subset, SizesAssumption
<1>3. f \in [1..Len(list) -> 0..ItemCap] BY <1>2 DEF Size
<1>4. \A it : IsSum(it) <=> Sums(it, f, S)
  <2> TAKE it
  <2>1. ASSUME NEW s \in SUBSET S
        PROVE  (IF s = {} THEN 0
                ELSE LET x == CHOOSE x \in s : TRUE
                     IN Size(list[x]) + it[s \ {x}]) = SumStep(it, s, f)
    <3>1. CASE s = {} BY <3>1 DEF SumStep
    <3>2. CASE s # {}
      <4> DEFINE x == CHOOSE x \in s : TRUE
      <4>1. x \in s BY <3>2
      <4>2. f[x] = Size(list[x]) BY <4>1
      <4> HIDE DEF f
      <4> QED BY <3>2, <4>2 DEF SumStep
    <3> QED BY <3>1, <3>2
  <2> HIDE DEF f
  <2> QED BY <2>1 DEF Sums
<1> HIDE DEF f, IsSum
<1>5. /\ \E it : Sums(it, f, S)
      /\ \A it : Sums(it, f, S) => it[S] = Cardinality(Blocks(f, S, ItemCap))
  BY <1>2, <1>3, SumIsCount
<1>6. IsSum(sum)
  <2>1. \E it : IsSum(it) BY <1>4, <1>5
  <2> QED BY <2>1
<1> HIDE DEF sum
<1>7. SizeOf(list, S) = Cardinality(Blocks(f, S, ItemCap))
  BY <1>1, <1>4, <1>5, <1>6
<1> QED BY <1>7 DEF f

\* The size of the first n items grows by the n-th.
LEMMA SizeOfPrefix ==
  ASSUME NEW list \in Seq(Nat)
  PROVE  /\ SizeOf(list, 1..0) = 0
         /\ \A n \in 0..Len(list) : SizeOf(list, 1..n) \in Nat
         /\ \A n \in 1..Len(list) :
              SizeOf(list, 1..n) = SizeOf(list, 1..(n - 1)) + Size(list[n])
         /\ \A n \in 1..Len(list) : Size(list[n]) \in Nat
<1> DEFINE f == [i \in 1..Len(list) |-> Size(list[i])]
           Total(n) == Cardinality(Blocks(f, 1..n, ItemCap))
<1>1. ItemCap \in Nat /\ Len(list) \in Nat BY SizesAssumption
<1>2. \A i \in 1..Len(list) : Size(list[i]) \in 0..ItemCap BY <1>1 DEF Size
<1>3. \A n \in 0..Len(list) : SizeOf(list, 1..n) = Total(n)
  <2> TAKE n \in 0..Len(list)
  <2>1. 1..n \in SUBSET (1..Len(list)) BY <1>1
  <2> QED BY <2>1, SizeOfIsCount
<1>4. SizeOf(list, 1..0) = 0
  <2>1. 1..0 = {} /\ 0 \in 0..Len(list) BY <1>1
  <2>2. Blocks(f, {}, ItemCap) = {} BY DEF Blocks
  <2> HIDE DEF f
  <2> QED BY <1>3, <2>1, <2>2, FS_EmptySet
<1>5. ASSUME NEW n \in 0..Len(list)
      PROVE  /\ Total(n) \in Nat
             /\ \A i \in 1..n : Total(n) =
                    f[i] + Cardinality(Blocks(f, (1..n) \ {i}, ItemCap))
  <2>1. n \in Int /\ 1 \in Int /\ 1..n \in SUBSET (1..Len(list)) BY <1>1
  <2>2. IsFiniteSet(1..n) BY <2>1, FS_Interval
  <2>3. f \in [1..Len(list) -> 0..ItemCap] BY <1>2
  <2> HIDE DEF f
  <2>4. Total(n) \in Nat BY <1>1, <2>2, BlocksCounted
  <2>5. ASSUME NEW i \in 1..n
        PROVE  Total(n) = f[i] + Cardinality(Blocks(f, (1..n) \ {i}, ItemCap))
    <3>1. f[i] \in 0..ItemCap BY <2>1, <2>3
    <3> QED BY <1>1, <2>2, <3>1, BlocksGrow
  <2> QED BY <2>4, <2>5
<1>6. ASSUME NEW n \in 1..Len(list)
      PROVE  SizeOf(list, 1..n) = SizeOf(list, 1..(n - 1)) + Size(list[n])
  <2>1. (1..n) \ {n} = 1..(n - 1) /\ n \in 1..n /\ n \in 0..Len(list)
        /\ n - 1 \in 0..Len(list)
    BY <1>1
  <2>2. f[n] = Size(list[n]) /\ f[n] \in Nat BY <1>1, <1>2
  <2>3. Total(n) = f[n] + Total(n - 1)
    <3> HIDE DEF f
    <3> QED BY <1>5, <2>1
  <2>4. Total(n - 1) \in Nat BY <1>5, <2>1
  <2> HIDE DEF f, Total
  <2> QED BY <1>3, <2>1, <2>2, <2>3, <2>4
<1>7. \A n \in 0..Len(list) : SizeOf(list, 1..n) \in Nat
  <2> HIDE DEF f, Total
  <2> QED BY <1>3, <1>5
<1> QED BY <1>1, <1>2, <1>4, <1>6, <1>7

\* What the lists before a list use is the sum of their sizes.
LEMMA UsedSums ==
  ASSUME NEW items, NEW kept,
         SizeOf(items["snippets"], kept["snippets"]) \in Nat,
         SizeOf(items["observations"], kept["observations"]) \in Nat,
         SizeOf(items["memories"], kept["memories"]) \in Nat
  PROVE  /\ Used(items, kept, {}) = 0
         /\ Used(items, kept, {"snippets"})
              = SizeOf(items["snippets"], kept["snippets"])
         /\ Used(items, kept, {"snippets", "observations"})
              = SizeOf(items["snippets"], kept["snippets"])
                + SizeOf(items["observations"], kept["observations"])
         /\ Used(items, kept, Categories)
              = SizeOf(items["snippets"], kept["snippets"])
                + SizeOf(items["observations"], kept["observations"])
                + SizeOf(items["memories"], kept["memories"])
<1> DEFINE a == SizeOf(items["snippets"], kept["snippets"])
           b == SizeOf(items["observations"], kept["observations"])
           c == SizeOf(items["memories"], kept["memories"])
<1>0. a \in Nat /\ b \in Nat /\ c \in Nat OBVIOUS
<1> DEFINE M == a + b + c
           f == [k \in Categories |-> SizeOf(items[k], kept[k])]
           IsSum(it, S) ==
             it = [s \in SUBSET S |->
                     IF s = {} THEN 0
                     ELSE LET x == CHOOSE x \in s : TRUE
                          IN SizeOf(items[x], kept[x]) + it[s \ {x}]]
           sum(S) == CHOOSE it : IsSum(it, S)
<1>1. \A S : Used(items, kept, S) = sum(S)[S]
  BY DEF Used, MapThenSumSet, MapThenFoldSet
<1>2. M \in Nat /\ f \in [Categories -> 0..M] BY DEF Categories
<1>3. f["snippets"] = a /\ f["observations"] = b /\ f["memories"] = c
  BY DEF Categories
<1>4. \A S \in SUBSET Categories : IsFiniteSet(S)
  <2>1. Categories = {"snippets"} \cup {"observations"} \cup {"memories"}
    BY DEF Categories
  <2>2. IsFiniteSet(Categories) BY <2>1, FS_Singleton, FS_Union
  <2> QED BY <2>2, FS_Subset
<1>5. ASSUME NEW S \in SUBSET Categories
      PROVE  Used(items, kept, S) = Cardinality(Blocks(f, S, M))
  <2>1. IsFiniteSet(S) BY <1>4
  <2>2. \A it : IsSum(it, S) <=> Sums(it, f, S)
    <3> TAKE it
    <3>1. ASSUME NEW s \in SUBSET S
          PROVE  (IF s = {} THEN 0
                  ELSE LET x == CHOOSE x \in s : TRUE
                       IN SizeOf(items[x], kept[x]) + it[s \ {x}])
                   = SumStep(it, s, f)
      <4>1. CASE s = {} BY <4>1 DEF SumStep
      <4>2. CASE s # {}
        <5> DEFINE x == CHOOSE x \in s : TRUE
        <5>1. x \in s BY <4>2
        <5>2. f[x] = SizeOf(items[x], kept[x]) BY <5>1
        <5> HIDE DEF f
        <5> QED BY <4>2, <5>2 DEF SumStep
      <4> QED BY <4>1, <4>2
    <3> HIDE DEF f
    <3> QED BY <3>1 DEF Sums
  <2> HIDE DEF f, IsSum, M
  <2>3. /\ \E it : Sums(it, f, S)
        /\ \A it : Sums(it, f, S) => it[S] = Cardinality(Blocks(f, S, M))
    BY <1>2, <2>1, SumIsCount
  <2>4. IsSum(sum(S), S)
    <3>1. \E it : IsSum(it, S) BY <2>2, <2>3
    <3> QED BY <3>1
  <2> HIDE DEF sum
  <2> QED BY <1>1, <2>2, <2>3, <2>4
<1> DEFINE U(S) == Used(items, kept, S)
<1>6. U({}) = 0
  <2>1. Blocks(f, {}, M) = {} BY DEF Blocks
  <2> HIDE DEF f, M
  <2> QED BY <1>5, <2>1, FS_EmptySet
<1> HIDE DEF f, M
<1>7. ASSUME NEW S \in SUBSET Categories, NEW x \in S
      PROVE  U(S) = f[x] + U(S \ {x})
  <2>1. IsFiniteSet(S) /\ f[x] \in 0..M BY <1>2, <1>4
  <2>2. Cardinality(Blocks(f, S, M)) =
          f[x] + Cardinality(Blocks(f, S \ {x}, M))
    BY <1>2, <2>1, BlocksGrow
  <2> QED BY <1>5, <2>2
<1> HIDE DEF U
<1>8. U({"snippets"}) = a
  <2>1. {"snippets"} \in SUBSET Categories /\ {"snippets"} \ {"snippets"} = {}
    BY DEF Categories
  <2>2. U({"snippets"}) = f["snippets"] + U({"snippets"} \ {"snippets"})
    BY <1>7, <2>1
  <2> QED BY <1>3, <1>6, <2>1, <2>2
<1>9. U({"snippets", "observations"}) = a + b
  <2> DEFINE T == {"snippets", "observations"}
  <2>1. T \in SUBSET Categories /\ T \ {"observations"} = {"snippets"}
    BY DEF Categories
  <2>2. U(T) = f["observations"] + U(T \ {"observations"}) BY <1>7, <2>1
  <2> QED BY <1>3, <1>8, <2>1, <2>2
<1>10. U(Categories) = a + b + c
  <2>1. /\ "memories" \in Categories
        /\ Categories \ {"memories"} = {"snippets", "observations"}
    BY DEF Categories
  <2>2. U(Categories) = f["memories"] + U(Categories \ {"memories"})
    BY <1>7, <2>1
  <2> QED BY <1>3, <1>9, <2>1, <2>2
<1> QED BY <1>6, <1>8, <1>9, <1>10 DEF U

-----------------------------------------------------------------------------
(* 2. The loops                                                              *)

\* Some function follows a rule F from one number to the next.
Follows(g, N, b, F) ==
  g[0] = b /\ \A n \in 1..N : g[n] = F[n][g[n - 1]]

\* A value carried through a list by a rule, one item after the other, exists:
\* what the loops of the pipeline and of the builder need.
LEMMA PrefixRecursion ==
  ASSUME NEW N \in Nat, NEW S, NEW b \in S, NEW F \in [1..N -> [S -> S]]
  PROVE  \E g \in [0..N -> S] : Follows(g, N, b, F)
<1> DEFINE Bad == {m \in 0..N : ~ \E g \in [0..m -> S] : Follows(g, m, b, F)}
<1>1. Bad = {}
  <2> SUFFICES ASSUME Bad # {} PROVE FALSE OBVIOUS
  <2>1. Bad \in SUBSET Nat OBVIOUS
  <2>2. PICK m \in Bad : \A k \in Bad : m <= k BY <2>1, LeastOf
  <2>3. m \in 0..N /\ ~ \E g \in [0..m -> S] : Follows(g, m, b, F) BY <2>2
  <2>4. CASE m = 0
    <3> DEFINE g == [n \in 0..0 |-> b]
    <3>1. g \in [0..m -> S] /\ Follows(g, m, b, F) BY <2>4 DEF Follows
    <3> QED BY <2>3, <3>1
  <2>5. CASE m # 0
    <3>1. m - 1 \in 0..N /\ m - 1 \notin Bad BY <2>2, <2>3, <2>5
    <3>2. PICK h \in [0..(m - 1) -> S] : Follows(h, m - 1, b, F) BY <3>1
    <3> DEFINE g == [n \in 0..m |-> IF n = m THEN F[m][h[m - 1]] ELSE h[n]]
    <3>3. F[m][h[m - 1]] \in S
      <4>1. m \in 1..N /\ h[m - 1] \in S BY <2>3, <2>5
      <4> QED BY <4>1
    <3>4. g \in [0..m -> S] BY <2>3, <2>5, <3>3
    <3>5. \A n \in 0..(m - 1) : g[n] = h[n] BY <2>3
    <3>6. g[m] = F[m][h[m - 1]] /\ g[0] = b
      BY <2>3, <2>5, <3>2 DEF Follows
    <3>7. ASSUME NEW n \in 1..m PROVE g[n] = F[n][g[n - 1]]
      <4>1. g[n - 1] = h[n - 1]
        <5>1. n - 1 \in 0..(m - 1) BY <2>3
        <5> QED BY <3>5, <5>1
      <4> HIDE DEF g
      <4>2. CASE n = m BY <3>6, <4>1, <4>2
      <4>3. CASE n # m
        <5>1. n \in 1..(m - 1) /\ n \in 0..(m - 1) BY <2>3, <4>3
        <5>2. h[n] = F[n][h[n - 1]] BY <3>2, <5>1 DEF Follows
        <5> QED BY <3>5, <4>1, <5>1, <5>2
      <4> QED BY <4>2, <4>3
    <3> HIDE DEF g
    <3>8. Follows(g, m, b, F) BY <3>6, <3>7 DEF Follows
    <3> QED BY <2>3, <3>4, <3>8
  <2> QED BY <2>4, <2>5
<1>2. N \in 0..N /\ N \notin Bad BY <1>1
<1> QED BY <1>2

\* The validators of a stage are those of the configuration that have it.
LEMMA SelectedFacts ==
  ASSUME NEW V, NEW c \in Seq(V), NEW st
  PROVE  /\ Selected(c, st) \in Seq(V)
         /\ \A i \in 1..Len(Selected(c, st)) : \E j \in 1..Len(c) :
              st \in c[j].stages /\ Selected(c, st)[i] = c[j]
         /\ \A j \in 1..Len(c) : st \in c[j].stages =>
              \E i \in 1..Len(Selected(c, st)) :
                Selected(c, st)[i] = c[j]
<1> DEFINE N == Len(c)
           Rule(taken, n) ==
             IF n = 0 THEN <<>>
             ELSE IF st \in c[n].stages THEN Append(taken[n - 1], c[n])
             ELSE taken[n - 1]
           Takes(taken) == taken = [n \in 0..N |-> Rule(taken, n)]
           taken == CHOOSE taken : Takes(taken)
           F == [n \in 1..N |-> [s \in Seq(V) |->
                   IF st \in c[n].stages THEN Append(s, c[n]) ELSE s]]
<1>1. Selected(c, st) = taken[N] BY DEF Selected
<1>2. N \in Nat /\ \A n \in 1..N : c[n] \in V OBVIOUS
<1>3. F \in [1..N -> [Seq(V) -> Seq(V)]] BY <1>2
<1>4. \A n \in 1..N, s \in Seq(V) :
        F[n][s] = IF st \in c[n].stages THEN Append(s, c[n]) ELSE s
  OBVIOUS
<1> HIDE DEF F
<1>5. PICK g \in [0..N -> Seq(V)] : Follows(g, N, <<>>, F)
  <2>1. <<>> \in Seq(V) OBVIOUS
  <2> QED BY <1>2, <1>3, <2>1, PrefixRecursion
<1>6. \A n \in 0..N : g[n] = Rule(g, n)
  <2> TAKE n \in 0..N
  <2>1. CASE n = 0 BY <1>5, <2>1 DEF Follows
  <2>2. CASE n # 0
    <3>1. n \in 1..N /\ n > 0 /\ g[n - 1] \in Seq(V) BY <1>2, <1>5, <2>2
    <3>2. g[n] = F[n][g[n - 1]] BY <1>5, <3>1 DEF Follows
    <3> QED BY <1>4, <2>2, <3>1, <3>2
  <2> QED BY <2>1, <2>2
<1>7. Takes(g)
  <2>1. g = [n \in 0..N |-> g[n]] BY <1>5
  <2> HIDE DEF Rule
  <2> QED BY <1>6, <2>1
<1>8. Takes(taken) BY <1>7
<1>9. \A n \in 0..N : taken[n] = Rule(taken, n)
  <2> HIDE DEF Rule, taken
  <2> QED BY <1>8
<1> DEFINE Good(n) ==
      /\ taken[n] \in Seq(V)
      /\ \A i \in 1..Len(taken[n]) : \E j \in 1..n :
           st \in c[j].stages /\ taken[n][i] = c[j]
      /\ \A j \in 1..n : st \in c[j].stages =>
           \E i \in 1..Len(taken[n]) : taken[n][i] = c[j]
<1> HIDE DEF taken, Takes
<1>10. Good(0)
  <2>1. taken[0] = <<>> BY <1>2, <1>9
  <2> QED BY <2>1
<1>11. ASSUME NEW n \in 1..N, Good(n - 1) PROVE Good(n)
  <2>1. n \in 0..N /\ n > 0 /\ n # 0 /\ c[n] \in V BY <1>2
  <2>2. CASE st \notin c[n].stages
    <3>1. taken[n] = taken[n - 1] BY <1>9, <2>1, <2>2
    <3>2. \A j \in 1..n : st \in c[j].stages => j \in 1..(n - 1)
      <4> TAKE j \in 1..n
      <4>1. j = n \/ j \in 1..(n - 1) BY <2>1
      <4> QED BY <2>2, <4>1
    <3>3. \A j \in 1..(n - 1) : j \in 1..n BY <2>1
    <3>4. /\ taken[n - 1] \in Seq(V)
          /\ \A i \in 1..Len(taken[n - 1]) : \E j \in 1..(n - 1) :
               st \in c[j].stages /\ taken[n - 1][i] = c[j]
          /\ \A j \in 1..(n - 1) : st \in c[j].stages =>
               \E i \in 1..Len(taken[n - 1]) : taken[n - 1][i] = c[j]
      BY <1>11
    <3>5. \A i \in 1..Len(taken[n]) : \E j \in 1..n :
            st \in c[j].stages /\ taken[n][i] = c[j]
      BY <3>1, <3>3, <3>4
    <3>6. \A j \in 1..n : st \in c[j].stages =>
            \E i \in 1..Len(taken[n]) : taken[n][i] = c[j]
      BY <3>1, <3>2, <3>4
    <3> QED BY <3>1, <3>4, <3>5, <3>6
  <2>3. CASE st \in c[n].stages
    <3> DEFINE s == taken[n - 1]
    <3>1. taken[n] = Append(s, c[n]) BY <1>9, <2>1, <2>3
    <3>2. s \in Seq(V) BY <1>11
    <3>3. /\ Append(s, c[n]) \in Seq(V)
          /\ Len(Append(s, c[n])) = Len(s) + 1 /\ Len(s) \in Nat
          /\ \A i \in 1..Len(s) : Append(s, c[n])[i] = s[i]
          /\ Append(s, c[n])[Len(s) + 1] = c[n]
      BY <2>1, <3>2
    <3>4. /\ \A i \in 1..Len(s) : \E j \in 1..(n - 1) :
                st \in c[j].stages /\ s[i] = c[j]
          /\ \A j \in 1..(n - 1) : st \in c[j].stages =>
                \E i \in 1..Len(s) : s[i] = c[j]
      BY <1>11
    <3>5. \A j \in 1..n : j = n \/ j \in 1..(n - 1) BY <2>1
    <3>6. \A j \in 1..(n - 1) : j \in 1..n BY <2>1
    <3>7. \A i \in 1..(Len(s) + 1) : i = Len(s) + 1 \/ i \in 1..Len(s) BY <3>3
    <3>8. \A i \in 1..Len(s) : i \in 1..(Len(s) + 1) BY <3>3
    <3>9. Len(s) + 1 \in 1..(Len(s) + 1) /\ n \in 1..n BY <2>1, <3>3
    <3> HIDE DEF s
    <3>10. \A i \in 1..(Len(s) + 1) : \E j \in 1..n :
             st \in c[j].stages /\ taken[n][i] = c[j]
      BY <2>3, <3>1, <3>3, <3>4, <3>6, <3>7, <3>9
    <3>11. \A j \in 1..n : st \in c[j].stages =>
             \E i \in 1..(Len(s) + 1) : taken[n][i] = c[j]
      BY <3>1, <3>3, <3>4, <3>5, <3>8, <3>9
    <3> QED BY <3>1, <3>3, <3>10, <3>11
  <2> QED BY <2>2, <2>3
<1>12. Good(N)
  <2> DEFINE Bad == {n \in 0..N : ~ Good(n)}
  <2> HIDE DEF Good
  <2>1. Bad = {}
    <3> SUFFICES ASSUME Bad # {} PROVE FALSE OBVIOUS
    <3>0. Bad \in SUBSET Nat BY <1>2
    <3>1. PICK m \in Bad : \A k \in Bad : m <= k BY <3>0, LeastOf
    <3>2. m \in 1..N /\ m - 1 \in 0..N /\ m - 1 \notin Bad BY <1>2, <1>10, <3>1
    <3> QED BY <1>11, <3>1, <3>2
  <2> QED BY <1>2, <2>1
<1> QED BY <1>1, <1>12

\* The loop of take keeps a beginning of the list: it fits, and the next item
\* does not.
LEMMA AcceptedFacts ==
  ASSUME NEW list \in Seq(Nat), NEW room \in Nat
  PROVE  \E m \in 0..Len(list) :
           /\ Accepted(list, room) =
                [kept |-> 1..m, left |-> room - SizeOf(list, 1..m)]
           /\ SizeOf(list, 1..m) <= room
           /\ m < Len(list) => SizeOf(list, 1..(m + 1)) > room
<1> DEFINE N == Len(list)
           S == [kept : SUBSET Nat, left : Int]
           Taken(before, n) ==
             IF before.kept = 1..(n - 1) /\ Size(list[n]) <= before.left
             THEN [kept |-> 1..n, left |-> before.left - Size(list[n])]
             ELSE before
           Rule(after, n) ==
             IF n = 0 THEN [kept |-> {}, left |-> room]
             ELSE LET before == after[n - 1] IN Taken(before, n)
           Takes(after) == after = [n \in 0..N |-> Rule(after, n)]
           after == CHOOSE after : Takes(after)
           F == [n \in 1..N |-> [s \in S |-> Taken(s, n)]]
<1>1. Accepted(list, room) = after[N] BY DEF Accepted
<1>2. N \in Nat /\ room \in Int OBVIOUS
<1>3. \A n \in 1..N : Size(list[n]) \in Nat BY SizeOfPrefix
<1>4. F \in [1..N -> [S -> S]]
  <2>1. ASSUME NEW n \in 1..N, NEW s \in S PROVE Taken(s, n) \in S
    <3>1. Size(list[n]) \in Nat /\ 1..n \in SUBSET Nat BY <1>3
    <3> QED BY <3>1
  <2> HIDE DEF Taken, S
  <2> QED BY <2>1
<1>5. \A n \in 1..N, s \in S : F[n][s] = Taken(s, n)
  <2> HIDE DEF Taken, S
  <2> QED OBVIOUS
<1> DEFINE base == [kept |-> {}, left |-> room]
<1>6. base \in S BY <1>2
<1> HIDE DEF F, S, base
<1>7. PICK g \in [0..N -> S] : Follows(g, N, base, F)
  BY <1>2, <1>4, <1>6, PrefixRecursion
<1>8. \A n \in 0..N : g[n] = Rule(g, n)
  <2> TAKE n \in 0..N
  <2>1. CASE n = 0 BY <1>7, <2>1 DEF Follows, base
  <2>2. CASE n # 0
    <3>1. n \in 1..N /\ g[n - 1] \in S BY <1>2, <1>7, <2>2
    <3>2. g[n] = F[n][g[n - 1]] BY <1>7, <3>1 DEF Follows
    <3> HIDE DEF Taken
    <3> QED BY <1>5, <2>2, <3>1, <3>2
  <2> QED BY <2>1, <2>2
<1>9. Takes(g)
  <2>1. g = [n \in 0..N |-> g[n]] BY <1>7
  <2> HIDE DEF Rule
  <2> QED BY <1>8, <2>1
<1>10. Takes(after) BY <1>9
<1>11. \A n \in 0..N : after[n] = Rule(after, n)
  <2> HIDE DEF Rule, after
  <2> QED BY <1>10
<1> HIDE DEF after, Takes
<1> DEFINE Sum(m) == SizeOf(list, 1..m)
           State(m) == [kept |-> 1..m, left |-> room - Sum(m)]
           Good(n) == \E m \in 0..n :
             after[n] = State(m) /\ Sum(m) <= room /\ (m < n => Sum(m + 1) > room)
<1>12. Sum(0) = 0 /\ \A n \in 0..N : Sum(n) \in Nat BY SizeOfPrefix
<1>13. \A n \in 1..N : Sum(n) = Sum(n - 1) + Size(list[n]) BY SizeOfPrefix
<1> HIDE DEF Sum
<1>14. Good(0)
  <2>1. 0 \in 0..N /\ 0 \in 0..0 BY <1>2
  <2>2. after[0] = Rule(after, 0) BY <1>11, <2>1
  <2>3. after[0] = [kept |-> {}, left |-> room] BY <2>2
  <2>4. 1..0 = {} /\ room - 0 = room BY <1>2
  <2>5. after[0] = State(0) BY <1>12, <2>3, <2>4
  <2>6. Sum(0) <= room /\ ~ (0 < 0) BY <1>2, <1>12
  <2> HIDE DEF State
  <2> QED BY <2>1, <2>5, <2>6
<1>15. ASSUME NEW n \in 1..N, Good(n - 1) PROVE Good(n)
  <2>1. PICK m \in 0..(n - 1) :
          after[n - 1] = State(m) /\ Sum(m) <= room /\ (m < n - 1 => Sum(m + 1) > room)
    BY <1>15
  <2>2. n \in 0..N /\ n # 0 /\ n - 1 \in 0..N /\ m \in 0..N BY <1>2
  <2>3. after[n] = Taken(State(m), n) BY <1>11, <2>1, <2>2
  <2>4. 1..m = 1..(n - 1) <=> m = n - 1
    <3>1. ASSUME 1..m = 1..(n - 1) PROVE m = n - 1
      <4>1. CASE m < n - 1
        <5>1. n - 1 \in 1..(n - 1) /\ n - 1 \notin 1..m BY <2>2, <4>1
        <5> QED BY <3>1, <5>1
      <4> QED BY <2>2, <4>1
    <3> QED BY <3>1
  <2>5. Sum(m) \in Nat /\ Size(list[n]) \in Nat BY <1>3, <1>12, <2>2
  <2>6. CASE m = n - 1 /\ Sum(n) <= room
    <3>1. Sum(n) = Sum(m) + Size(list[n]) BY <1>13, <2>6
    <3>2. Size(list[n]) <= room - Sum(m) BY <1>2, <2>5, <2>6, <3>1
    <3>3. room - Sum(m) - Size(list[n]) = room - Sum(n)
      BY <1>2, <2>5, <3>1
    <3>4. after[n] = [kept |-> 1..n, left |-> room - Sum(m) - Size(list[n])]
      BY <2>3, <2>4, <2>6, <3>2
    <3>5. after[n] = State(n) BY <3>3, <3>4
    <3>6. n \in 0..n /\ ~ (n < n) BY <2>2
    <3> QED BY <2>6, <3>5, <3>6
  <2>7. CASE m = n - 1 /\ ~ (Sum(n) <= room)
    <3>1. Sum(n) = Sum(m) + Size(list[n]) BY <1>13, <2>7
    <3>2. ~ (Size(list[n]) <= room - Sum(m)) BY <1>2, <2>5, <2>7, <3>1
    <3>3. after[n] = State(m) BY <2>3, <3>2
    <3>4. m \in 0..n /\ Sum(m + 1) > room
      BY <1>2, <2>2, <2>5, <2>7, <3>1
    <3> QED BY <2>1, <3>3, <3>4
  <2>8. CASE m < n - 1
    <3>1. after[n] = State(m) BY <2>3, <2>4, <2>8
    <3>2. m \in 0..n /\ m < n BY <2>2, <2>8
    <3> QED BY <2>1, <2>8, <3>1, <3>2
  <2>9. m = n - 1 \/ m < n - 1 BY <2>2
  <2> QED BY <2>6, <2>7, <2>8, <2>9
<1>16. Good(N)
  <2> DEFINE Bad == {n \in 0..N : ~ Good(n)}
  <2> HIDE DEF Good
  <2>1. Bad = {}
    <3> SUFFICES ASSUME Bad # {} PROVE FALSE OBVIOUS
    <3>1. Bad \in SUBSET Nat BY <1>2
    <3>2. PICK m \in Bad : \A k \in Bad : m <= k BY <3>1, LeastOf
    <3>3. m \in 1..N /\ m - 1 \in 0..N /\ m - 1 \notin Bad BY <1>2, <1>14, <3>2
    <3> QED BY <1>15, <3>2, <3>3
  <2> QED BY <1>2, <2>1
<1> QED BY <1>1, <1>16 DEF Sum

\* What build takes fits into the prompt, and nothing is left out that would.
LEMMA PackedWell ==
  ASSUME NEW required \in Nat, required <= MaxBytes,
         NEW items \in [Categories -> Seq(Nat)]
  PROVE  /\ Fits(required, items, Packed(required, items))
         /\ Longest(required, items, Packed(required, items))
<1> DEFINE room == MaxBytes - required
           ls == items["snippets"]
           lo == items["observations"]
           lm == items["memories"]
<1>1. /\ ls \in Seq(Nat) /\ lo \in Seq(Nat) /\ lm \in Seq(Nat)
      /\ room \in Nat /\ MaxBytes \in Nat
  BY SizesAssumption DEF Categories
<1> HIDE DEF room, ls, lo, lm
<1>2. PICK s \in 0..Len(ls) :
        /\ Accepted(ls, room) = [kept |-> 1..s, left |-> room - SizeOf(ls, 1..s)]
        /\ SizeOf(ls, 1..s) <= room
        /\ s < Len(ls) => SizeOf(ls, 1..(s + 1)) > room
  BY <1>1, AcceptedFacts
<1> DEFINE a == SizeOf(ls, 1..s)
           room2 == room - a
<1>3. a \in Nat /\ room2 \in Nat
  <2>1. a \in Nat BY <1>1, SizeOfPrefix
  <2> HIDE DEF a
  <2> QED BY <1>1, <1>2, <2>1 DEF a
<1> HIDE DEF a, room2
<1>4. PICK o \in 0..Len(lo) :
        /\ Accepted(lo, room2) = [kept |-> 1..o, left |-> room2 - SizeOf(lo, 1..o)]
        /\ SizeOf(lo, 1..o) <= room2
        /\ o < Len(lo) => SizeOf(lo, 1..(o + 1)) > room2
  BY <1>1, <1>3, AcceptedFacts
<1> DEFINE b == SizeOf(lo, 1..o)
           room3 == room2 - b
<1>5. b \in Nat /\ room3 \in Nat
  <2>1. b \in Nat BY <1>1, SizeOfPrefix
  <2> HIDE DEF b
  <2> QED BY <1>3, <1>4, <2>1 DEF b
<1> HIDE DEF b, room3
<1>6. PICK m \in 0..Len(lm) :
        /\ Accepted(lm, room3) = [kept |-> 1..m, left |-> room3 - SizeOf(lm, 1..m)]
        /\ SizeOf(lm, 1..m) <= room3
        /\ m < Len(lm) => SizeOf(lm, 1..(m + 1)) > room3
  BY <1>1, <1>5, AcceptedFacts
<1> DEFINE c == SizeOf(lm, 1..m)
           kept == Packed(required, items)
<1>7. c \in Nat BY <1>1, SizeOfPrefix
<1> HIDE DEF c
<1>8. kept = [k \in Categories |->
                CASE k = "snippets" -> 1..s
                  [] k = "observations" -> 1..o
                  [] k = "memories" -> 1..m]
  <2>1. Accepted(ls, room).kept = 1..s /\ Accepted(ls, room).left = room2
    BY <1>2 DEF room2, a
  <2>2. Accepted(lo, room2).kept = 1..o /\ Accepted(lo, room2).left = room3
    BY <1>4 DEF room3, b
  <2>3. Accepted(lm, room3).kept = 1..m BY <1>6
  <2>4. kept = [k \in Categories |->
                  CASE k = "snippets" -> Accepted(ls, room).kept
                    [] k = "observations" ->
                         Accepted(lo, Accepted(ls, room).left).kept
                    [] k = "memories" ->
                         Accepted(lm, Accepted(lo, Accepted(ls, room).left).left).kept]
    BY DEF Packed, room, ls, lo, lm
  <2> HIDE DEF kept
  <2> QED BY <2>1, <2>2, <2>3, <2>4
<1>9. /\ kept["snippets"] = 1..s
      /\ kept["observations"] = 1..o
      /\ kept["memories"] = 1..m
  BY <1>8 DEF Categories
<1> HIDE DEF kept
<1>10. /\ SizeOf(items["snippets"], kept["snippets"]) = a
       /\ SizeOf(items["observations"], kept["observations"]) = b
       /\ SizeOf(items["memories"], kept["memories"]) = c
  BY <1>9 DEF a, b, c, ls, lo, lm
<1>11. /\ Used(items, kept, {}) = 0
       /\ Used(items, kept, {"snippets"}) = a
       /\ Used(items, kept, {"snippets", "observations"}) = a + b
       /\ Used(items, kept, Categories) = a + b + c
  <2>1. a \in Nat /\ b \in Nat /\ c \in Nat BY <1>3, <1>5, <1>7
  <2>2. SizeOf(items["snippets"], kept["snippets"]) = a BY <1>10
  <2>3. SizeOf(items["observations"], kept["observations"]) = b BY <1>10
  <2>4. SizeOf(items["memories"], kept["memories"]) = c BY <1>10
  <2> QED BY <2>1, <2>2, <2>3, <2>4, UsedSums
<1>12. a <= room /\ b <= room2 /\ c <= room3
  BY <1>2, <1>4, <1>6 DEF a, b, c
<1>13. Fits(required, items, kept)
  <2>1. required + (a + b + c) <= MaxBytes
    BY <1>1, <1>3, <1>5, <1>7, <1>12 DEF room, room2, room3
  <2> QED BY <1>11, <2>1 DEF Fits
<1>14. \A n \in Nat : Cardinality(1..n) = n
  <2> TAKE n \in Nat
  <2>1. n \in Int /\ 1 \in Int OBVIOUS
  <2>2. Cardinality(1..n) = IF 1 > n THEN 0 ELSE n - 1 + 1 BY <2>1, FS_Interval
  <2> QED BY <2>2
<1>15. /\ MaxBytes - required - Used(items, kept, Before("snippets")) = room
       /\ MaxBytes - required - Used(items, kept, Before("observations")) = room2
       /\ MaxBytes - required - Used(items, kept, Before("memories")) = room3
  <2>1. /\ Before("snippets") = {}
        /\ Before("observations") = {"snippets"}
        /\ Before("memories") = {"snippets", "observations"}
    BY DEF Before
  <2>2. /\ MaxBytes - required - 0 = room
        /\ MaxBytes - required - a = room2
        /\ MaxBytes - required - (a + b) = room3
    BY <1>1, <1>3, <1>5 DEF room, room2, room3
  <2> QED BY <1>11, <2>1, <2>2
<1>16. s \in Nat /\ o \in Nat /\ m \in Nat BY <1>1
<1>17. ASSUME NEW k \in Categories
       PROVE  LET left == MaxBytes - required - Used(items, kept, Before(k))
                  n == Cardinality(kept[k])
              IN /\ kept[k] = 1..n
                 /\ n < Len(items[k]) => SizeOf(items[k], 1..(n + 1)) > left
  <2>1. CASE k = "snippets"
    BY <1>2, <1>9, <1>14, <1>15, <1>16, <2>1 DEF ls
  <2>2. CASE k = "observations"
    BY <1>4, <1>9, <1>14, <1>15, <1>16, <2>2 DEF lo
  <2>3. CASE k = "memories"
    BY <1>6, <1>9, <1>14, <1>15, <1>16, <2>3 DEF lm
  <2> QED BY <2>1, <2>2, <2>3 DEF Categories
<1>18. Longest(required, items, kept) BY <1>17 DEF Longest
<1> QED BY <1>13, <1>18 DEF kept

-----------------------------------------------------------------------------
(* 3. The gate                                                               *)

\* A stage has one result for each of its validators, in their order.
LEMMA ResultsFacts ==
  ASSUME NEW c \in Configs, NEW s, NEW r \in Results(c, s)
  PROVE  /\ Selected(c, s) \in Seq({c[i] : i \in DOMAIN c})
         /\ DOMAIN r = 1..Len(Selected(c, s))
         /\ \A i \in DOMAIN r : /\ r[i].id = Selected(c, s)[i].id
                                /\ r[i].stage = s
         /\ DOMAIN r # {} <=> r # <<>>
<1> DEFINE vs == Selected(c, s)
           V == {c[i] : i \in DOMAIN c}
<1>1. c \in Seq(V) BY ConfigsAssumption
<1>2. vs \in Seq(V)
  <2> HIDE DEF V
  <2> QED BY <1>1, SelectedFacts
<1>3. PICK f \in [DOMAIN vs -> Verdicts] :
        r = [i \in DOMAIN vs |-> [id |-> vs[i].id, stage |-> s, status |-> f[i]]]
  BY DEF Results
<1> HIDE DEF vs, V
<1>4. DOMAIN vs = 1..Len(vs) /\ Len(vs) \in Nat BY <1>2
<1>5. /\ DOMAIN r = 1..Len(vs)
      /\ \A i \in DOMAIN r : r[i].id = vs[i].id /\ r[i].stage = s
  BY <1>3, <1>4
<1>6. r # <<>> => DOMAIN r # {}
  <2> SUFFICES ASSUME DOMAIN r = {} PROVE r = <<>> OBVIOUS
  <2>1. r = [i \in DOMAIN r |-> r[i]] BY <1>3
  <2>2. Len(vs) = 0
    <3>1. Len(vs) # 0 => 1 \in 1..Len(vs) BY <1>4
    <3> QED BY <1>5, <3>1
  <2>3. r \in Seq({1}) /\ Len(r) = 0 BY <1>5, <2>1, <2>2
  <2> QED BY <2>3
<1>7. DOMAIN r # {} => r # <<>> OBVIOUS
<1> QED BY <1>2, <1>5, <1>6, <1>7 DEF vs, V

\* success_gate_open compares ids, RequiredPassed the flags of the validators:
\* the first implies the second, and with ids that differ the converse holds
\* too.
LEMMA GateMeans ==
  ASSUME cfg \in Configs, results \in Results(cfg, "final")
  PROVE  /\ GateOpen(cfg, results) => RequiredPassed
         /\ UniqueIds /\ RequiredPassed => GateOpen(cfg, results)
<1> DEFINE V == {cfg[i] : i \in DOMAIN cfg}
           vs == Selected(cfg, "final")
           N == Len(vs)
           required == RequiredIds(cfg, "final")
<1>1. cfg \in Seq(V) BY ConfigsAssumption
<1>2. /\ vs \in Seq(V)
      /\ \A i \in 1..N : \E j \in 1..Len(cfg) :
           "final" \in cfg[j].stages /\ vs[i] = cfg[j]
      /\ \A j \in 1..Len(cfg) : "final" \in cfg[j].stages =>
           \E i \in 1..N : vs[i] = cfg[j]
  <2> HIDE DEF V
  <2> QED BY <1>1, SelectedFacts
<1>3. DOMAIN cfg = 1..Len(cfg) /\ DOMAIN vs = 1..N BY <1>1, <1>2
<1>4. /\ DOMAIN results = 1..N
      /\ \A i \in 1..N : results[i].id = vs[i].id /\ results[i].stage = "final"
      /\ 1..N # {} <=> results # <<>>
  <2>1. /\ DOMAIN results = 1..Len(Selected(cfg, "final"))
        /\ \A i \in DOMAIN results :
             /\ results[i].id = Selected(cfg, "final")[i].id
             /\ results[i].stage = "final"
        /\ DOMAIN results # {} <=> results # <<>>
    <3> HIDE DEF vs, N, V
    <3>1. cfg \in Configs /\ results \in Results(cfg, "final") OBVIOUS
    <3>2. DOMAIN results = 1..Len(Selected(cfg, "final")) BY <3>1, ResultsFacts
    <3>3. \A i \in DOMAIN results :
             /\ results[i].id = Selected(cfg, "final")[i].id
             /\ results[i].stage = "final"
      BY <3>1, ResultsFacts, ZenonT(30)
    <3>4. DOMAIN results # {} <=> results # <<>>
      BY <3>1, ResultsFacts
    <3> QED BY <3>2, <3>3, <3>4
  <2> QED BY <2>1
<1>5. RequiredPassed <=>
        /\ \E i \in 1..N : vs[i].required
        /\ \A i \in 1..N : vs[i].required => results[i].status = "passed"
  BY <1>3 DEF RequiredPassed
<1>6. required = {cfg[j].id : j \in {j \in 1..Len(cfg) :
                    cfg[j].required /\ "final" \in cfg[j].stages}}
  BY <1>3 DEF RequiredIds
<1>7. ASSUME NEW i \in 1..N, vs[i].required PROVE results[i].id \in required
  <2>1. PICK j \in 1..Len(cfg) : "final" \in cfg[j].stages /\ vs[i] = cfg[j]
    BY <1>2
  <2>2. results[i].id = cfg[j].id /\ cfg[j].required BY <1>4, <1>7, <2>1
  <2> HIDE DEF vs, required, V, N
  <2> QED BY <1>6, <2>1, <2>2
<1>8. ASSUME NEW x \in required
      PROVE  \E i \in 1..N : vs[i].required /\ results[i].id = x
  <2>1. PICK j \in 1..Len(cfg) :
          cfg[j].required /\ "final" \in cfg[j].stages /\ x = cfg[j].id
    BY <1>6
  <2>2. PICK i \in 1..N : vs[i] = cfg[j] BY <1>2, <2>1
  <2>3. results[i].id = vs[i].id BY <1>4
  <2> HIDE DEF vs, required, V, N
  <2> QED BY <2>1, <2>2, <2>3
<1>9. N \in Nat /\ (1..N # {} => 1 \in 1..N) BY <1>2
<1> HIDE DEF V, vs, required, N
<1>10. results # <<>> => results[1].stage = "final" BY <1>4, <1>9
<1>11. GateOpen(cfg, results) <=>
        /\ results # <<>>
        /\ required # {}
        /\ {results[i].id : i \in {j \in 1..N : results[j].id \in required}}
             = required
        /\ \A i \in 1..N :
             results[i].id \in required => results[i].status = "passed"
  BY <1>4, <1>10 DEF GateOpen, required
<1>12. ASSUME GateOpen(cfg, results) PROVE RequiredPassed
  BY <1>5, <1>7, <1>8, <1>11, <1>12
<1>13. ASSUME UniqueIds, RequiredPassed PROVE GateOpen(cfg, results)
  <2>1. results # <<>> /\ required # {} BY <1>4, <1>5, <1>7, <1>13
  <2>2. {results[i].id : i \in {j \in 1..N : results[j].id \in required}} = required
    BY <1>8
  <2>3. ASSUME NEW i \in 1..N, results[i].id \in required
        PROVE  results[i].status = "passed"
    <3>1. PICK j \in 1..Len(cfg) : cfg[j].required /\ cfg[j].id = results[i].id
      BY <1>6, <2>3
    <3>2. PICK k \in 1..Len(cfg) : vs[i] = cfg[k] BY <1>2 DEF vs, N
    <3>3. cfg[j].id = cfg[k].id BY <1>4, <3>1, <3>2
    <3>4. j = k BY <1>3, <1>13, <3>3 DEF UniqueIds
    <3>5. vs[i].required BY <3>1, <3>2, <3>4
    <3> QED BY <1>5, <1>13, <3>5
  <2> QED BY <1>11, <2>1, <2>2, <2>3
<1> QED BY <1>12, <1>13

-----------------------------------------------------------------------------
(* 4. The invariant and the theorems                                         *)

\* A session has its first status until its baseline is recorded.
Statuses ==
  /\ pc \in {"baseline", "begin"} => status = "CREATED"
  /\ pc \notin {"baseline", "begin", "down"} => status = "RUNNING"

\* The tracker agrees with the row, and the limits bound a turn.
Counters ==
  /\ pc # "down" => tracked = fails
  /\ pc \in {"ask", "validate", "count"} => tracked < MaxFailures
  /\ pc = "ask" => steps < MaxSteps

\* Once the session has begun there is something to tell.
Told ==
  /\ status # "CREATED" => row # <<>> \/ obs.summary # <<>>
  /\ pc = "begin" /\ results # <<>> => row # <<>>

\* The results that decide the end are those of the final stage.
Concluding ==
  /\ pc = "conclude" => results \in Results(cfg, "final")
  /\ status = "SUCCEEDED" =>
       results \in Results(cfg, "final") /\ GateOpen(cfg, results)

\* FailuresCounted without its second part, which follows.
Counted ==
  streak <= fails + faults + IF pc \in {"validate", "count"} THEN 1 ELSE 0

\* A verdict that is owed is the latest observation until the prompt is built.
Owed ==
  /\ due # {} => \/ pc \in {"loop", "ask"}
                 \/ pc = "down" /\ status \notin {"CREATED", "RUNNING"}
  /\ \A v \in due : v.summary # <<>>
  /\ pc = "loop" => \A v \in due : v = obs

\* VerdictReachesModel and PromptPacked are inductive together with these.
IInv == /\ TypeOK /\ Statuses /\ Counters /\ Told /\ Concluding /\ Counted
        /\ Owed /\ VerdictReachesModel /\ PromptPacked

\* A summary is never empty.
LEMMA SummarySpeaks == ASSUME NEW result PROVE Summary(result) # <<>>
BY DEF Summary

\* An observation made from results says something, whatever the results.
LEMMA ObservationSpeaks ==
  ASSUME NEW r
  PROVE  /\ ObservationOf(r).summary # <<>>
         /\ DOMAIN ObservationOf(r) = {"ok", "summary", "evidence"}
BY SummarySpeaks DEF ObservationOf

\* So do the observations that the engine makes itself.
LEMMA EngineSpeaks ==
  /\ \A o \in {ToolDone, ToolFailed, Blocked, Invalid, Unbuilt} :
       o.summary # <<>> /\ DOMAIN o = {"ok", "summary", "evidence"}
  /\ NoObservation.summary = <<>>
  /\ DOMAIN NoObservation = {"ok", "summary", "evidence"}
BY DEF ToolDone, ToolFailed, Blocked, Invalid, Unbuilt, NoObservation

\* The invariant holds at first.
LEMMA InitInv == Init => IInv
<1> SUFFICES ASSUME Init PROVE IInv OBVIOUS
<1>1. TypeOK BY EngineSpeaks, BudgetAssumption DEF Init, TypeOK, Pcs
<1>2. Statuses /\ Counters /\ Told /\ Concluding /\ Counted /\ Owed
  BY DEF Init, Statuses, Counters, Told, Concluding, Counted, Owed
<1>3. VerdictReachesModel /\ PromptPacked
  BY DEF Init, VerdictReachesModel, PromptPacked
<1> QED BY <1>1, <1>2, <1>3 DEF IInv

\* Every step keeps it: one step of the proof for each action.
LEMMA StepInv == IInv /\ [Next]_vars => IInv'
<1> SUFFICES ASSUME IInv, [Next]_vars PROVE IInv' OBVIOUS
<1>0. TypeOK /\ Statuses /\ Counters /\ Told /\ Concluding /\ Counted /\ Owed
      /\ VerdictReachesModel /\ PromptPacked
  BY DEF IInv
<1> USE BudgetAssumption
<1>1. CASE Start
  <2>1. TypeOK'
    BY <1>0, <1>1, EngineSpeaks, ObservationSpeaks
       DEF TypeOK, Statuses, Counters, Pcs, Start, Go
  <2>2. Statuses' /\ Counters' /\ Counted'
    BY <1>0, <1>1 DEF TypeOK, Statuses, Counters, Counted, Start, Go
  <2>3. Told' /\ Owed'
    BY <1>0, <1>1, EngineSpeaks, ObservationSpeaks, SummarySpeaks
       DEF Told, Owed, Statuses, Start, Go
  <2>4. Concluding' BY <1>0, <1>1 DEF Concluding, Statuses, Start, Go
  <2>5. VerdictReachesModel' /\ PromptPacked'
    BY <1>0, <1>1 DEF VerdictReachesModel, PromptPacked, Start, Go
  <2> QED BY <2>1, <2>2, <2>3, <2>4, <2>5 DEF IInv
<1>2. CASE Baseline
  <2>1. TypeOK'
    BY <1>0, <1>2, EngineSpeaks, ObservationSpeaks
       DEF TypeOK, Statuses, Counters, Pcs, Baseline, RunStage, Go
  <2>2. Statuses' /\ Counters' /\ Counted'
    BY <1>0, <1>2
       DEF TypeOK, Statuses, Counters, Counted, Baseline, RunStage, Go
  <2>3. Told' /\ Owed'
    BY <1>0, <1>2, EngineSpeaks, ObservationSpeaks, SummarySpeaks
       DEF Told, Owed, Statuses, Baseline, RunStage, Go
  <2>4. Concluding'
    BY <1>0, <1>2 DEF Concluding, Statuses, Baseline, RunStage, Go
  <2>5. VerdictReachesModel' /\ PromptPacked'
    BY <1>0, <1>2 DEF VerdictReachesModel, PromptPacked, Baseline, RunStage, Go
  <2> QED BY <2>1, <2>2, <2>3, <2>4, <2>5 DEF IInv
<1>3. CASE Begin
  <2>1. TypeOK'
    BY <1>0, <1>3, EngineSpeaks, ObservationSpeaks
       DEF TypeOK, Statuses, Counters, Pcs, Begin, Observe, Go
  <2>2. Statuses' /\ Counters' /\ Counted'
    BY <1>0, <1>3 DEF TypeOK, Statuses, Counters, Counted, Begin, Observe, Go
  <2>3. Told' /\ Owed'
    BY <1>0, <1>3, EngineSpeaks, ObservationSpeaks, SummarySpeaks
       DEF Told, Owed, Statuses, Begin, Observe, Go, GateOpen
  <2>4. Concluding' BY <1>0, <1>3 DEF Concluding, Statuses, Begin, Observe, Go
  <2>5. VerdictReachesModel' /\ PromptPacked'
    BY <1>0, <1>3 DEF VerdictReachesModel, PromptPacked, Begin, Observe, Go
  <2> QED BY <2>1, <2>2, <2>3, <2>4, <2>5 DEF IInv
<1>4. CASE Prompt
  <2>0. ASSUME ~ Exhausted,
               NEW required \in RequiredSizes, ~ TooBig(required),
               NEW size \in ItemSizes, NEW memories \in MemorySizes,
               prompt' = Built(required, Items(size, memories)),
               UNCHANGED <<obs, due>>, pc' = "ask"
        PROVE  /\ prompt' # NoPrompt
               /\ VerdictReachesModel'
               /\ PromptPacked'
    <3> DEFINE items == Items(size, memories)
    <3>1. /\ prompt'.pinned = Pinned
          /\ prompt'.latest = obs.summary
          /\ prompt'.required = required
          /\ prompt'.items = items
          /\ prompt'.kept = Packed(required, items)
      BY <2>0 DEF Built
    <3>2. row # <<>> \/ obs.summary # <<>>
      BY <1>0, <1>4 DEF Prompt, Statuses, Told
    <3>3. NoPrompt.pinned = {} /\ NoPrompt.latest = <<>> BY DEF NoPrompt
    <3>4. prompt' # NoPrompt
      <4>1. row # <<>> => row \in Pinned BY DEF Pinned
      <4> QED BY <3>1, <3>2, <3>3, <4>1
    <3>5. ASSUME NEW v \in due
          PROVE  /\ v.ok => prompt'.latest = v.summary
                 /\ ~ v.ok => v.summary \in prompt'.pinned
      <4>1. v = obs /\ obs.summary # <<>> BY <1>0, <1>4 DEF Prompt, Owed
      <4> QED BY <3>1, <4>1 DEF Pinned
    <3>6. items \in [Categories -> Seq(Nat)]
      <4>1. size \in Nat /\ memories \in Seq(Nat) OBVIOUS
      <4>2. /\ <<>> \in Seq(Nat)
            /\ (IF obs = NoObservation THEN <<>> ELSE <<size>>) \in Seq(Nat)
        BY <4>1
      <4> QED BY <4>1, <4>2 DEF Items, Categories
    <3>7. required \in Nat /\ required <= MaxBytes
      BY <2>0, SizesAssumption DEF TooBig
    <3> HIDE DEF items
    <3>8. Fits(required, items, Packed(required, items))
          /\ Longest(required, items, Packed(required, items))
      BY <3>6, <3>7, PackedWell
    <3> QED BY <2>0, <3>1, <3>4, <3>5, <3>8 DEF VerdictReachesModel, PromptPacked
  <2>1. TypeOK'
    BY <1>0, <1>4, <2>0, EngineSpeaks
       DEF TypeOK, Statuses, Pcs, Prompt, Observe, Leave, Go
  <2>2. Statuses' /\ Counters' /\ Counted'
    BY <1>0, <1>4
       DEF TypeOK, Statuses, Counters, Counted, Prompt, Observe, Leave,
           Exhausted, Go
  <2>3. Told' /\ Owed'
    BY <1>0, <1>4, EngineSpeaks, ObservationSpeaks, SummarySpeaks
       DEF Told, Owed, Statuses, Prompt, Observe, Leave, Exhausted, Go
  <2>4. Concluding'
    BY <1>0, <1>4
       DEF Concluding, Statuses, Prompt, Observe, Leave, Exhausted, Go
  <2>5. VerdictReachesModel' /\ PromptPacked'
    BY <1>0, <1>4, <2>0
       DEF VerdictReachesModel, PromptPacked, Prompt, Observe, Leave, Go
  <2> QED BY <2>1, <2>2, <2>3, <2>4, <2>5 DEF IInv
<1>5. CASE prompt' = NoPrompt /\ Rejected(Invalid, 0)
  <2>1. TypeOK'
    BY <1>0, <1>5, EngineSpeaks, ObservationSpeaks
       DEF TypeOK, Statuses, Counters, Pcs, Rejected, Observe, Go
  <2>2. Statuses' /\ Counters' /\ Counted'
    BY <1>0, <1>5
       DEF TypeOK, Statuses, Counters, Counted, Rejected, Observe, Go
  <2>3. Told' /\ Owed'
    BY <1>0, <1>5, EngineSpeaks, ObservationSpeaks, SummarySpeaks
       DEF Told, Owed, Statuses, Rejected, Observe, Go
  <2>4. Concluding'
    BY <1>0, <1>5 DEF Concluding, Statuses, Rejected, Observe, Go
  <2>5. VerdictReachesModel' /\ PromptPacked'
    BY <1>0, <1>5 DEF VerdictReachesModel, PromptPacked, Rejected, Observe, Go
  <2> QED BY <2>1, <2>2, <2>3, <2>4, <2>5 DEF IInv
<1>6. CASE prompt' = NoPrompt /\ Rejected(Blocked, 1)
  <2>1. TypeOK'
    BY <1>0, <1>6, EngineSpeaks, ObservationSpeaks
       DEF TypeOK, Statuses, Counters, Pcs, Rejected, Observe, Go
  <2>2. Statuses' /\ Counters' /\ Counted'
    BY <1>0, <1>6
       DEF TypeOK, Statuses, Counters, Counted, Rejected, Observe, Go
  <2>3. Told' /\ Owed'
    BY <1>0, <1>6, EngineSpeaks, ObservationSpeaks, SummarySpeaks
       DEF Told, Owed, Statuses, Rejected, Observe, Go
  <2>4. Concluding'
    BY <1>0, <1>6 DEF Concluding, Statuses, Rejected, Observe, Go
  <2>5. VerdictReachesModel' /\ PromptPacked'
    BY <1>0, <1>6 DEF VerdictReachesModel, PromptPacked, Rejected, Observe, Go
  <2> QED BY <2>1, <2>2, <2>3, <2>4, <2>5 DEF IInv
<1>7. CASE prompt' = NoPrompt /\ Look
  <2>1. TypeOK'
    BY <1>0, <1>7, EngineSpeaks, ObservationSpeaks
       DEF TypeOK, Statuses, Counters, Pcs, Look, Observe, Go
  <2>2. Statuses' /\ Counters' /\ Counted'
    BY <1>0, <1>7 DEF TypeOK, Statuses, Counters, Counted, Look, Observe, Go
  <2>3. Told' /\ Owed'
    BY <1>0, <1>7, EngineSpeaks, ObservationSpeaks, SummarySpeaks
       DEF Told, Owed, Statuses, Look, Observe, Go
  <2>4. Concluding' BY <1>0, <1>7 DEF Concluding, Statuses, Look, Observe, Go
  <2>5. VerdictReachesModel' /\ PromptPacked'
    BY <1>0, <1>7 DEF VerdictReachesModel, PromptPacked, Look, Observe, Go
  <2> QED BY <2>1, <2>2, <2>3, <2>4, <2>5 DEF IInv
<1>8. CASE prompt' = NoPrompt /\ ToolFails
  <2>1. TypeOK'
    BY <1>0, <1>8, EngineSpeaks, ObservationSpeaks
       DEF TypeOK, Statuses, Counters, Pcs, ToolFails, Observe, Leave, Go
  <2>2. Statuses' /\ Counters' /\ Counted'
    BY <1>0, <1>8
       DEF TypeOK, Statuses, Counters, Counted, ToolFails, Observe, Leave, Go
  <2>3. Told' /\ Owed'
    BY <1>0, <1>8, EngineSpeaks, ObservationSpeaks, SummarySpeaks
       DEF Told, Owed, Statuses, ToolFails, Observe, Leave, Go
  <2>4. Concluding'
    BY <1>0, <1>8 DEF Concluding, Statuses, ToolFails, Observe, Leave, Go
  <2>5. VerdictReachesModel' /\ PromptPacked'
    BY <1>0, <1>8
       DEF VerdictReachesModel, PromptPacked, ToolFails, Observe, Leave, Go
  <2> QED BY <2>1, <2>2, <2>3, <2>4, <2>5 DEF IInv
<1>9. CASE prompt' = NoPrompt /\ Edit
  <2>1. TypeOK'
    BY <1>0, <1>9, EngineSpeaks, ObservationSpeaks
       DEF TypeOK, Statuses, Counters, Pcs, Edit, Observe, Go
  <2>2. Statuses' /\ Counters' /\ Counted'
    BY <1>0, <1>9 DEF TypeOK, Statuses, Counters, Counted, Edit, Observe, Go
  <2>3. Told' /\ Owed'
    BY <1>0, <1>9, EngineSpeaks, ObservationSpeaks, SummarySpeaks
       DEF Told, Owed, Statuses, Edit, Observe, Go
  <2>4. Concluding' BY <1>0, <1>9 DEF Concluding, Statuses, Edit, Observe, Go
  <2>5. VerdictReachesModel' /\ PromptPacked'
    BY <1>0, <1>9 DEF VerdictReachesModel, PromptPacked, Edit, Observe, Go
  <2> QED BY <2>1, <2>2, <2>3, <2>4, <2>5 DEF IInv
<1>10. CASE prompt' = NoPrompt /\ Finish
  <2>1. TypeOK'
    BY <1>0, <1>10, EngineSpeaks, ObservationSpeaks
       DEF TypeOK, Statuses, Counters, Pcs, Finish, RunStage, Go
  <2>2. Statuses' /\ Counters' /\ Counted'
    BY <1>0, <1>10
       DEF TypeOK, Statuses, Counters, Counted, Finish, RunStage, Go
  <2>3. Told' /\ Owed'
    BY <1>0, <1>10, EngineSpeaks, ObservationSpeaks, SummarySpeaks
       DEF Told, Owed, Statuses, Finish, RunStage, Go
  <2>4. Concluding'
    BY <1>0, <1>10 DEF Concluding, Statuses, Finish, RunStage, Go
  <2>5. VerdictReachesModel' /\ PromptPacked'
    BY <1>0, <1>10 DEF VerdictReachesModel, PromptPacked, Finish, RunStage, Go
  <2> QED BY <2>1, <2>2, <2>3, <2>4, <2>5 DEF IInv
<1>11. CASE Validate
  <2>1. TypeOK'
    BY <1>0, <1>11, EngineSpeaks, ObservationSpeaks
       DEF TypeOK, Statuses, Counters, Pcs, Validate, RunStage, Go
  <2>2. Statuses' /\ Counters' /\ Counted'
    BY <1>0, <1>11
       DEF TypeOK, Statuses, Counters, Counted, Validate, RunStage, Go
  <2>3. Told' /\ Owed'
    BY <1>0, <1>11, EngineSpeaks, ObservationSpeaks, SummarySpeaks
       DEF Told, Owed, Statuses, Validate, RunStage, Go
  <2>4. Concluding'
    BY <1>0, <1>11 DEF Concluding, Statuses, Validate, RunStage, Go
  <2>5. VerdictReachesModel' /\ PromptPacked'
    BY <1>0, <1>11
       DEF VerdictReachesModel, PromptPacked, Validate, RunStage, Go
  <2> QED BY <2>1, <2>2, <2>3, <2>4, <2>5 DEF IInv
<1>12. CASE Count
  <2>1. TypeOK'
    BY <1>0, <1>12, EngineSpeaks, ObservationSpeaks
       DEF TypeOK, Statuses, Counters, Pcs, Count, Save, Go
  <2>2. Statuses' /\ Counters' /\ Counted'
    BY <1>0, <1>12 DEF TypeOK, Statuses, Counters, Counted, Count, Save, Go
  <2>3. Told' /\ Owed'
    BY <1>0, <1>12, EngineSpeaks, ObservationSpeaks, SummarySpeaks
       DEF Told, Owed, Statuses, Count, Save, Go
  <2>4. Concluding' BY <1>0, <1>12 DEF Concluding, Statuses, Count, Save, Go
  <2>5. VerdictReachesModel' /\ PromptPacked'
    BY <1>0, <1>12 DEF VerdictReachesModel, PromptPacked, Count, Save, Go
  <2> QED BY <2>1, <2>2, <2>3, <2>4, <2>5 DEF IInv
<1>13. CASE Report
  <2>1. TypeOK'
    BY <1>0, <1>13, EngineSpeaks, ObservationSpeaks
       DEF TypeOK, Statuses, Counters, Pcs, Report, Observe, Go
  <2>2. Statuses' /\ Counters' /\ Counted'
    BY <1>0, <1>13 DEF TypeOK, Statuses, Counters, Counted, Report, Observe, Go
  <2>3. Told' /\ Owed'
    BY <1>0, <1>13, EngineSpeaks, ObservationSpeaks, SummarySpeaks
       DEF Told, Owed, Statuses, Report, Observe, Go
  <2>4. Concluding'
    BY <1>0, <1>13 DEF Concluding, Statuses, Report, Observe, Go
  <2>5. VerdictReachesModel' /\ PromptPacked'
    BY <1>0, <1>13 DEF VerdictReachesModel, PromptPacked, Report, Observe, Go
  <2> QED BY <2>1, <2>2, <2>3, <2>4, <2>5 DEF IInv
<1>14. CASE Conclude
  <2>1. TypeOK'
    BY <1>0, <1>14, EngineSpeaks, ObservationSpeaks
       DEF TypeOK, Statuses, Counters, Pcs, Conclude, Observe, Leave, Go
  <2>2. Statuses' /\ Counters' /\ Counted'
    BY <1>0, <1>14
       DEF TypeOK, Statuses, Counters, Counted, Conclude, Observe, Leave, Go
  <2>3. Told' /\ Owed'
    BY <1>0, <1>14, EngineSpeaks, ObservationSpeaks, SummarySpeaks
       DEF Told, Owed, Statuses, Conclude, Observe, Leave, Go
  <2>4. Concluding'
    BY <1>0, <1>14 DEF Concluding, Statuses, Conclude, Observe, Leave, Go
  <2>5. VerdictReachesModel' /\ PromptPacked'
    BY <1>0, <1>14
       DEF VerdictReachesModel, PromptPacked, Conclude, Observe, Leave, Go
  <2> QED BY <2>1, <2>2, <2>3, <2>4, <2>5 DEF IInv
<1>15. CASE Kill
  <2>1. TypeOK'
    BY <1>0, <1>15, EngineSpeaks, ObservationSpeaks
       DEF TypeOK, Statuses, Counters, Pcs, Kill, Go
  <2>2. Statuses' /\ Counters' /\ Counted'
    BY <1>0, <1>15 DEF TypeOK, Statuses, Counters, Counted, Kill, Go
  <2>3. Told' /\ Owed'
    BY <1>0, <1>15, EngineSpeaks, ObservationSpeaks, SummarySpeaks
       DEF Told, Owed, Statuses, Kill, Go
  <2>4. Concluding' BY <1>0, <1>15 DEF Concluding, Statuses, Kill, Go
  <2>5. VerdictReachesModel' /\ PromptPacked'
    BY <1>0, <1>15 DEF VerdictReachesModel, PromptPacked, Kill, Go
  <2> QED BY <2>1, <2>2, <2>3, <2>4, <2>5 DEF IInv
<1>16. CASE UNCHANGED vars
  BY <1>0, <1>16
     DEF IInv, vars, TypeOK, Statuses, Counters, Told, Concluding, Counted,
         Owed, VerdictReachesModel, PromptPacked, RunStage
<1> QED
  BY <1>1, <1>2, <1>3, <1>4, <1>5, <1>6, <1>7, <1>8, <1>9, <1>10, <1>11,
     <1>12, <1>13, <1>14, <1>15, <1>16
     DEF Next, Ask

\* In every reachable state a verdict that is owed is still in reach, the
\* counters agree, and the prompt is packed: what the theorems below rest on.
THEOREM Invariant == Spec => []IInv
<1>1. Init => IInv BY InitInv
<1>2. IInv /\ [Next]_vars => IInv' BY StepInv
<1> QED BY <1>1, <1>2, PTL DEF Spec

\* A session succeeds only when every required validator of its final stage
\* passed and there is one, and where the ids differ the gate is never closed
\* on such results.
THEOREM GateIsExact == Spec => []GateExact
<1>1. IInv => GateExact
  <2> SUFFICES ASSUME IInv PROVE GateExact OBVIOUS
  <2>1. TypeOK /\ Concluding /\ cfg \in Configs BY DEF IInv, TypeOK
  <2>2. ASSUME status = "SUCCEEDED" PROVE RequiredPassed
    BY <2>1, <2>2, GateMeans DEF Concluding
  <2>3. ASSUME pc = "conclude", UniqueIds, RequiredPassed
        PROVE  GateOpen(cfg, results)
    BY <2>1, <2>3, GateMeans DEF Concluding
  <2> QED BY <2>1, <2>2, <2>3 DEF GateExact
<1> QED BY <1>1, Invariant, PTL

\* For any limits and any number of kills, the limit on consecutive failures is
\* exceeded by the number of kills at most.
THEOREM FailuresAreCounted == Spec => []FailuresCounted
<1>1. IInv => FailuresCounted
  <2> SUFFICES ASSUME IInv PROVE FailuresCounted OBVIOUS
  <2>1. TypeOK /\ Counters /\ Counted BY DEF IInv
  <2>2. streak \in Nat /\ fails \in Nat /\ faults \in Nat /\ MaxFailures \in Nat
    BY <2>1, BudgetAssumption DEF TypeOK
  <2>3. ASSUME pc = "ask" PROVE streak < MaxFailures + faults
    BY <2>1, <2>2, <2>3 DEF Counters, Counted
  <2> QED BY <2>1, <2>3 DEF Counted, FailuresCounted
<1> QED BY <1>1, Invariant, PTL

\* Whatever the validators, the verdict on an edit is in the next prompt.
THEOREM VerdictIsTold == Spec => []VerdictReachesModel
<1>1. IInv => VerdictReachesModel BY DEF IInv
<1> QED BY <1>1, Invariant, PTL

\* For any budget and any lists, a prompt stays within its budget and keeps of
\* each list all that there is room for.
THEOREM PromptIsPacked == Spec => []PromptPacked
<1>1. IInv => PromptPacked BY DEF IInv
<1> QED BY <1>1, Invariant, PTL
=============================================================================
