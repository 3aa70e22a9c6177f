-------------------------- MODULE Siteswap_proofs --------------------------
(***************************************************************************)
(* Theorems about what the query siteswap/14 finds, for any number of      *)
(* jugglers from two on: all passing patterns and no other, each in one    *)
(* rotation.                                                               *)
(*                                                                         *)
(* addObjects is a recursive function over beats, objects and passes, and  *)
(* sums are recursive over finite sets.  Induction is used as a fact about *)
(* a set: `SubsetInduction' and `UpTo' name the set of the good ones.      *)
(***************************************************************************)
EXTENDS Siteswap, FiniteSetTheorems, WellFoundedInduction, TLAPS

(***************************************************************************)
(* Induction, for sets: no operator is a parameter.                        *)
(***************************************************************************)

\* What holds of a finite set if it holds of its proper subsets.
LEMMA SubsetInduction ==
    ASSUME NEW F, IsFiniteSet(F), NEW Good,
           \A T \in SUBSET F : (\A U \in SUBSET T : U # T => U \in Good) => T \in Good
    PROVE  SUBSET F \subseteq Good
<1> DEFINE Bad == {T \in SUBSET F : T \notin Good}
           order == StrictSubsetOrdering(F)
<1> SUFFICES ASSUME Bad # {} PROVE FALSE
  OBVIOUS
<1>1. IsWellFoundedOn(order, FiniteSubsetsOf(F))
  BY FS_StrictSubsetOrderingWellFounded
<1>2. Bad \subseteq FiniteSubsetsOf(F)
  BY FS_Subset DEF FiniteSubsetsOf
<1>3. PICK T \in Bad : \A U \in Bad : <<U, T>> \notin order
  <2> HIDE DEF Bad, order
  <2> QED
    BY <1>1, <1>2, WFMin
<1>4. \A U \in SUBSET T : U # T => U \in Good
  BY <1>3 DEF StrictSubsetOrdering
<1> QED
  BY <1>3, <1>4

LEMMA LeastNumber ==
    ASSUME NEW S \in SUBSET Nat, S # {}
    PROVE  \E m \in S : \A k \in S : m <= k
<1> DEFINE Good == {T \in SUBSET Nat : T # {} => \E m \in T : \A k \in T : m <= k}
<1>1. PICK n \in S : TRUE
  OBVIOUS
<1> DEFINE F == 0 .. n
<1>2. IsFiniteSet(F)
  BY FS_Interval
<1>3. \A T \in SUBSET F : (\A U \in SUBSET T : U # T => U \in Good) => T \in Good
  <2> SUFFICES ASSUME NEW T \in SUBSET F, \A U \in SUBSET T : U # T => U \in Good, T # {}
               PROVE  \E m \in T : \A k \in T : m <= k
    OBVIOUS
  <2>1. PICK x \in T : TRUE
    OBVIOUS
  <2>2. CASE T = {x}
    BY <2>2
  <2>3. CASE T # {x}
    <3>1. T \ {x} \in Good /\ T \ {x} # {}
      <4>1. T \ {x} \in SUBSET T /\ T \ {x} # T /\ T \ {x} # {}
        BY <2>1, <2>3
      <4> HIDE DEF Good
      <4> QED
        BY <4>1
    <3>2. PICK m \in T \ {x} : \A k \in T \ {x} : m <= k
      BY <3>1
    <3>3. m \in Nat /\ x \in Nat /\ \A k \in T : k \in Nat
      BY <2>1
    <3> QED
      BY <2>1, <3>2, <3>3
  <2> QED
    BY <2>2, <2>3
<1>4. S \cap F \in Good
  <2> HIDE DEF Good, F
  <2>1. SUBSET F \subseteq Good
    BY <1>2, <1>3, SubsetInduction
  <2> QED
    BY <2>1
<1>5. n \in S \cap F
  BY <1>1
<1>6. PICK m \in S \cap F : \A k \in S \cap F : m <= k
  BY <1>4, <1>5
<1>7. \A k \in S : m <= k
  <2> SUFFICES ASSUME NEW k \in S, k \notin F PROVE m <= k
    BY <1>6
  <2> QED
    OBVIOUS
<1> QED
  BY <1>6, <1>7

LEMMA UpTo ==
    ASSUME NEW K \in Nat, NEW Good, 0 \in Good,
           \A n \in 0 .. K - 1 : n \in Good => n + 1 \in Good
    PROVE  0 .. K \subseteq Good
<1> DEFINE Bad == {n \in 0 .. K : n \notin Good}
<1> SUFFICES ASSUME Bad # {} PROVE FALSE
  OBVIOUS
<1>1. PICK m \in Bad : \A k \in Bad : m <= k
  <2>1. Bad \in SUBSET Nat
    OBVIOUS
  <2> HIDE DEF Bad
  <2> QED
    BY <2>1, LeastNumber
<1>2. m - 1 \in 0 .. K - 1 /\ (m - 1) + 1 = m
  BY <1>1
<1>3. m - 1 \notin Bad
  BY <1>1, <1>2
<1> QED
  BY <1>1, <1>2, <1>3

LEMMA Upwards ==
    ASSUME NEW Good, 0 \in Good, \A n \in Nat : n \in Good => n + 1 \in Good
    PROVE  Nat \subseteq Good
<1> SUFFICES ASSUME NEW K \in Nat PROVE K \in Good
  OBVIOUS
<1>1. 0 .. K \subseteq Good
  BY UpTo
<1> QED
  BY <1>1

\* h begins with v0 and takes one step after the other.
Follows(h, step, v0, V) ==
    h \in [Nat -> V] /\ h[0] = v0 /\ \A n \in Nat : h[n + 1] = step[n][h[n]]

\* A function that is defined step by step exists.
LEMMA Iterates ==
    ASSUME NEW V, NEW v0 \in V, NEW step \in [Nat -> [V -> V]]
    PROVE  \E h : Follows(h, step, v0, V)
<1> DEFINE Upto(n) == {h \in [0 .. n -> V] :
                         h[0] = v0 /\ \A k \in 0 .. n - 1 : h[k + 1] = step[k][h[k]]}
           Good == {n \in Nat : Upto(n) # {}}
<1>1. Nat \subseteq Good
  <2>1. 0 \in Good
    <3>1. [k \in 0 .. 0 |-> v0] \in Upto(0)
      OBVIOUS
    <3> QED
      BY <3>1
  <2>2. \A n \in Nat : n \in Good => n + 1 \in Good
    <3> SUFFICES ASSUME NEW n \in Nat, Upto(n) # {} PROVE Upto(n + 1) # {}
      <4> HIDE DEF Upto
      <4> QED
        OBVIOUS
    <3>1. PICK h \in Upto(n) : TRUE
      OBVIOUS
    <3> DEFINE g == [k \in 0 .. n + 1 |-> IF k = n + 1 THEN step[n][h[n]] ELSE h[k]]
    <3>2. g \in [0 .. n + 1 -> V] /\ g[0] = v0
      BY <3>1
    <3>3. \A k \in 0 .. (n + 1) - 1 : g[k + 1] = step[k][g[k]]
      <4> SUFFICES ASSUME NEW k \in 0 .. n PROVE g[k + 1] = step[k][g[k]]
        OBVIOUS
      <4>1. CASE k = n
        BY <4>1
      <4>2. CASE k # n
        BY <3>1, <4>2
      <4> QED
        BY <4>1, <4>2
    <3> QED
      BY <3>2, <3>3
  <2> HIDE DEF Good
  <2> QED
    BY <2>1, <2>2, Upwards
<1>2. \A n \in Nat : \A h \in Upto(n) : \A g \in Upto(n + 1) : \A k \in 0 .. n : h[k] = g[k]
  <2> SUFFICES ASSUME NEW n \in Nat, NEW h \in Upto(n), NEW g \in Upto(n + 1)
               PROVE  \A k \in 0 .. n : h[k] = g[k]
    OBVIOUS
  <2> DEFINE Same == {k \in 0 .. n : h[k] = g[k]}
  <2>1. 0 \in Same
    OBVIOUS
  <2>2. \A k \in 0 .. n - 1 : k \in Same => k + 1 \in Same
    OBVIOUS
  <2> HIDE DEF Same
  <2>3. 0 .. n \subseteq Same
    BY <2>1, <2>2, UpTo
  <2> QED
    BY <2>3 DEF Same
<1> DEFINE the(n) == CHOOSE h : h \in Upto(n)
           h == [n \in Nat |-> the(n)[n]]
<1>3. \A n \in Nat : the(n) \in Upto(n)
  BY <1>1
<1>4. h \in [Nat -> V] /\ h[0] = v0
  <2> SUFFICES ASSUME NEW n \in Nat PROVE the(n)[n] \in V /\ the(0)[0] = v0
    OBVIOUS
  <2> HIDE DEF the
  <2> QED
    BY <1>3
<1>5. \A n \in Nat : h[n + 1] = step[n][h[n]]
  <2> HIDE DEF the
  <2> SUFFICES ASSUME NEW n \in Nat PROVE the(n + 1)[n + 1] = step[n][the(n)[n]]
    OBVIOUS
  <2>1. the(n) \in Upto(n) /\ the(n + 1) \in Upto(n + 1)
    <3> HIDE DEF Upto
    <3> QED
      BY <1>3
  <2>2. the(n)[n] = the(n + 1)[n]
    <3> HIDE DEF Upto
    <3> QED
      BY <1>2, <2>1
  <2>3. the(n + 1)[n + 1] = step[n][the(n + 1)[n]]
    BY <2>1
  <2> QED
    BY <2>2, <2>3
<1> HIDE DEF h
<1>6. Follows(h, step, v0, V)
  BY <1>4, <1>5 DEF Follows
<1> QED
  BY <1>6

-----------------------------------------------------------------------------
(***************************************************************************)
(* Sums, of functions over finite sets.                                    *)
(***************************************************************************)

Sum(f, S) == MapThenSumSet(LAMBDA i : f[i], S)

Pick(s) == CHOOSE x \in s : TRUE

\* The function behind a sum over S.
Sums(g, f, S) ==
    g = [s \in SUBSET S |-> IF s = {} THEN 0 ELSE f[Pick(s)] + g[s \ {Pick(s)}]]

LEMMA PickIn == \A s : s # {} => Pick(s) \in s
BY DEF Pick

LEMMA SumsExist ==
    ASSUME NEW S, IsFiniteSet(S), NEW f, \A i \in S : f[i] \in Int
    PROVE  \E g : Sums(g, f, S)
<1> DEFINE V == [SUBSET S -> Int]
           next(v) == [s \in SUBSET S |-> IF s = {} THEN 0 ELSE f[Pick(s)] + v[s \ {Pick(s)}]]
           step == [n \in Nat |-> [v \in V |-> next(v)]]
           v0 == [s \in SUBSET S |-> 0]
<1>1. v0 \in V
  OBVIOUS
<1>2. \A v \in V : next(v) \in V
  BY PickIn
<1>3. step \in [Nat -> [V -> V]]
  <2> HIDE DEF V, next
  <2> QED
    BY <1>2
<1>h. PICK h : Follows(h, step, v0, V)
  <2> HIDE DEF V, next, step, v0
  <2> QED
    BY <1>1, <1>3, Iterates
<1>4. h \in [Nat -> V] /\ h[0] = v0 /\ \A n \in Nat : h[n + 1] = step[n][h[n]]
  <2> HIDE DEF V, next, step, v0
  <2> QED
    BY <1>h DEF Follows
<1>5. \A n \in Nat : h[n + 1] = next(h[n])
  <2> HIDE DEF V, next
  <2> QED
    BY <1>4
<1> DEFINE g == [s \in SUBSET S |-> IF s = {} THEN 0 ELSE h[Cardinality(s)][s]]
<1>6. \A s \in SUBSET S : g[s] = IF s = {} THEN 0 ELSE f[Pick(s)] + g[s \ {Pick(s)}]
  <2> SUFFICES ASSUME NEW s \in SUBSET S, s # {}
               PROVE  g[s] = f[Pick(s)] + g[s \ {Pick(s)}]
    OBVIOUS
  <2> DEFINE r == s \ {Pick(s)}
             n == Cardinality(r)
  <2>1. IsFiniteSet(s) /\ IsFiniteSet(r) /\ n \in Nat /\ Cardinality(s) = n + 1
    <3>1. IsFiniteSet(s) /\ Pick(s) \in s
      BY PickIn, FS_Subset
    <3>2. IsFiniteSet(r) /\ Cardinality(r) = Cardinality(s) - 1
      BY <3>1, FS_RemoveElement
    <3>3. Cardinality(s) \in Nat /\ Cardinality(r) \in Nat
      BY <3>1, <3>2, FS_CardinalityType
    <3> QED
      BY <3>1, <3>2, <3>3
  <2>2. g[s] = h[n + 1][s] /\ r \in SUBSET S
    BY <2>1
  <2>3. h[n + 1][s] = f[Pick(s)] + h[n][r]
    BY <1>5, <2>1
  <2>4. h[n][r] = g[r]
    <3>1. CASE r # {}
      BY <3>1, <2>2
    <3>2. CASE r = {}
      <4>1. n = 0
        BY <3>2, FS_EmptySet
      <4> QED
        BY <1>4, <4>1, <3>2
    <3> QED
      BY <3>1, <3>2
  <2> HIDE DEF g, r
  <2> QED
    BY <2>2, <2>3, <2>4 DEF r
<1>7. Sums(g, f, S)
  <2>1. g = [s \in SUBSET S |-> g[s]]
    OBVIOUS
  <2> HIDE DEF g
  <2> QED
    BY <1>6, <2>1 DEF Sums
<1> HIDE DEF g
<1> QED
  BY <1>7

\* Two sums over the same set of the same numbers are the same.
LEMMA SumsAgree ==
    ASSUME NEW S, IsFiniteSet(S), NEW f, NEW g, NEW R, NEW e, NEW h, NEW Q,
           Sums(g, f, R), Sums(h, e, Q), S \subseteq R, S \subseteq Q,
           \A i \in S : e[i] = f[i]
    PROVE  g[S] = h[S]
<1> DEFINE Good == {s \in SUBSET S : g[s] = h[s]}
<1>1. \A T \in SUBSET S : (\A U \in SUBSET T : U # T => U \in Good) => T \in Good
  <2> SUFFICES ASSUME NEW T \in SUBSET S, \A U \in SUBSET T : U # T => U \in Good
               PROVE  g[T] = h[T]
    OBVIOUS
  <2>1. T \in SUBSET R /\ T \in SUBSET Q
    OBVIOUS
  <2>2. CASE T = {}
    BY <2>1, <2>2 DEF Sums
  <2>3. CASE T # {}
    <3> DEFINE U == T \ {Pick(T)}
    <3>1. Pick(T) \in T
      BY <2>3, PickIn
    <3>2. U \in SUBSET T /\ U # T
      BY <3>1
    <3>3. g[U] = h[U]
      BY <3>2
    <3>4. g[T] = f[Pick(T)] + g[U] /\ h[T] = e[Pick(T)] + h[U]
      BY <2>1, <2>3 DEF Sums
    <3> QED
      BY <3>1, <3>3, <3>4
  <2> QED
    BY <2>2, <2>3
<1> HIDE DEF Good
<1>2. S \in Good
  BY <1>1, SubsetInduction
<1> QED
  BY <1>2 DEF Good

LEMMA SumIs ==
    ASSUME NEW S, IsFiniteSet(S), NEW f, \A i \in S : f[i] \in Int,
           NEW g, NEW e, NEW R, S \subseteq R, Sums(g, e, R), \A i \in S : e[i] = f[i]
    PROVE  Sum(f, S) = g[S]
<1>1. Sum(f, S) = (CHOOSE h : Sums(h, f, S))[S]
  BY DEF Sum, Sums, Pick, MapThenSumSet, MapThenFoldSet
<1>2. PICK h : h = (CHOOSE k : Sums(k, f, S)) /\ Sums(h, f, S)
  BY SumsExist
<1>3. h[S] = g[S]
  BY <1>2, SumsAgree
<1> QED
  BY <1>1, <1>2, <1>3

LEMMA SumEqual ==
    ASSUME NEW S, IsFiniteSet(S), NEW f, \A i \in S : f[i] \in Int,
           NEW e, \A i \in S : e[i] = f[i]
    PROVE  Sum(f, S) = Sum(e, S)
<1>1. \A i \in S : e[i] \in Int /\ f[i] = e[i]
  OBVIOUS
<1>2. PICK h : Sums(h, e, S)
  BY <1>1, SumsExist
<1>3. Sum(f, S) = h[S]
  BY <1>2, SumIs
<1>4. Sum(e, S) = h[S]
  BY <1>1, <1>2, SumIs
<1> QED
  BY <1>3, <1>4

LEMMA SumEmpty == ASSUME NEW f PROVE Sum(f, {}) = 0
<1>1. PICK h : Sums(h, f, {})
  BY SumsExist, FS_EmptySet
<1>2. Sum(f, {}) = h[{}]
  BY <1>1, SumIs, FS_EmptySet
<1> QED
  BY <1>1, <1>2 DEF Sums

\* The sum takes its numbers in the order of Pick.
LEMMA SumPick ==
    ASSUME NEW S, IsFiniteSet(S), NEW f, \A i \in S : f[i] \in Int, S # {}
    PROVE  Sum(f, S) = f[Pick(S)] + Sum(f, S \ {Pick(S)})
<1> DEFINE R == S \ {Pick(S)}
<1>1. PICK h : Sums(h, f, S)
  BY SumsExist
<1>2. Sum(f, S) = h[S]
  BY <1>1, SumIs
<1>3. IsFiniteSet(R) /\ R \subseteq S /\ \A i \in R : f[i] \in Int
  BY FS_Subset
<1>4. Sum(f, R) = h[R]
  <2> HIDE DEF R
  <2> QED
    BY <1>1, <1>3, SumIs
<1> QED
  BY <1>1, <1>2, <1>4 DEF Sums

LEMMA SumInt ==
    ASSUME NEW S, IsFiniteSet(S), NEW f, \A i \in S : f[i] \in Int
    PROVE  Sum(f, S) \in Int
<1> DEFINE Good == {T \in SUBSET S : Sum(f, T) \in Int}
<1>1. \A T \in SUBSET S : (\A U \in SUBSET T : U # T => U \in Good) => T \in Good
  <2>3. \A T \in SUBSET S : T = {} => Sum(f, T) \in Int
    BY SumEmpty
  <2> SUFFICES ASSUME NEW T \in SUBSET S, \A U \in SUBSET T : U # T => U \in Good, T # {}
               PROVE  Sum(f, T) \in Int
    BY <2>3
  <2>1. Pick(T) \in T /\ T \ {Pick(T)} \in SUBSET T /\ T \ {Pick(T)} # T
    BY PickIn
  <2>2. Sum(f, T) = f[Pick(T)] + Sum(f, T \ {Pick(T)})
    BY SumPick, FS_Subset
  <2> QED
    BY <2>1, <2>2
<1> HIDE DEF Good
<1>2. S \in Good
  BY <1>1, SubsetInduction
<1> QED
  BY <1>2 DEF Good

\* Any of the numbers may be taken first.
LEMMA SumTake ==
    ASSUME NEW S, IsFiniteSet(S), NEW f, \A i \in S : f[i] \in Int, NEW x \in S
    PROVE  Sum(f, S) = f[x] + Sum(f, S \ {x})
<1> DEFINE Good == {T \in SUBSET S : \A y \in T : Sum(f, T) = f[y] + Sum(f, T \ {y})}
<1>1. \A T \in SUBSET S : (\A U \in SUBSET T : U # T => U \in Good) => T \in Good
  <2> SUFFICES ASSUME NEW T \in SUBSET S, \A U \in SUBSET T : U # T => U \in Good, NEW y \in T
               PROVE  Sum(f, T) = f[y] + Sum(f, T \ {y})
    OBVIOUS
  <2> DEFINE p == Pick(T)
  <2>1. p \in T /\ T \ {p} \in SUBSET T /\ T \ {p} # T /\ T \ {y} \in SUBSET T /\ T \ {y} # T
    BY PickIn
  <2>2. Sum(f, T) = f[p] + Sum(f, T \ {p})
    BY SumPick, FS_Subset
  <2>3. CASE y = p
    BY <2>2, <2>3
  <2>4. CASE y # p
    <3>1. y \in T \ {p} /\ p \in T \ {y}
      BY <2>1, <2>4
    <3>2. Sum(f, T \ {p}) = f[y] + Sum(f, (T \ {p}) \ {y})
      BY <2>1, <3>1
    <3>3. Sum(f, T \ {y}) = f[p] + Sum(f, (T \ {y}) \ {p})
      BY <2>1, <3>1
    <3>4. (T \ {y}) \ {p} = (T \ {p}) \ {y}
      OBVIOUS
    <3>5. Sum(f, (T \ {p}) \ {y}) \in Int /\ f[p] \in Int /\ f[y] \in Int
      <4>1. (T \ {p}) \ {y} \in SUBSET S
        OBVIOUS
      <4>2. IsFiniteSet((T \ {p}) \ {y})
        BY <4>1, FS_Subset
      <4> QED
        BY <2>1, <4>1, <4>2, SumInt
    <3>6. \A a, b, c \in Int : a + (b + c) = b + (a + c)
      OBVIOUS
    <3> HIDE DEF p
    <3>7. f[p] + (f[y] + Sum(f, (T \ {p}) \ {y})) = f[y] + (f[p] + Sum(f, (T \ {p}) \ {y}))
      BY <3>5, <3>6
    <3> QED
      BY <2>2, <3>2, <3>3, <3>4, <3>7
  <2> QED
    BY <2>3, <2>4
<1> HIDE DEF Good
<1>2. S \in Good
  BY <1>1, SubsetInduction
<1> QED
  BY <1>2 DEF Good

LEMMA SumAdd ==
    ASSUME NEW S, IsFiniteSet(S), NEW x, x \notin S, NEW f, \A i \in S \cup {x} : f[i] \in Int
    PROVE  Sum(f, S \cup {x}) = f[x] + Sum(f, S)
<1>1. IsFiniteSet(S \cup {x}) /\ (S \cup {x}) \ {x} = S
  BY FS_AddElement
<1> QED
  BY <1>1, SumTake

LEMMA SumPlus ==
    ASSUME NEW S, IsFiniteSet(S), NEW f, NEW g, NEW h,
           \A i \in S : f[i] \in Int /\ g[i] \in Int /\ h[i] = f[i] + g[i]
    PROVE  Sum(h, S) = Sum(f, S) + Sum(g, S)
<1> DEFINE Good == {T \in SUBSET S : Sum(h, T) = Sum(f, T) + Sum(g, T)}
<1>1. \A T \in SUBSET S : (\A U \in SUBSET T : U # T => U \in Good) => T \in Good
  <2> SUFFICES ASSUME NEW T \in SUBSET S, \A U \in SUBSET T : U # T => U \in Good
               PROVE  Sum(h, T) = Sum(f, T) + Sum(g, T)
    OBVIOUS
  <2>1. CASE T = {}
    <3>1. Sum(f, {}) = 0 /\ Sum(g, {}) = 0 /\ Sum(h, {}) = 0
      BY SumEmpty
    <3> QED
      BY <2>1, <3>1
  <2>2. CASE T # {}
    <3>1. PICK x \in T : TRUE
      BY <2>2
    <3> DEFINE R == T \ {x}
    <3>2. R \in SUBSET T /\ R # T /\ IsFiniteSet(T) /\ IsFiniteSet(R)
      BY <3>1, FS_Subset
    <3>3. \A i \in T : h[i] \in Int /\ f[i] \in Int /\ g[i] \in Int
      OBVIOUS
    <3>4. /\ Sum(h, T) = h[x] + Sum(h, R) /\ Sum(f, T) = f[x] + Sum(f, R)
          /\ Sum(g, T) = g[x] + Sum(g, R)
      BY <3>1, <3>2, <3>3, SumTake
    <3>5. Sum(f, R) \in Int /\ Sum(g, R) \in Int
      BY <3>2, <3>3, SumInt
    <3>6. Sum(h, R) = Sum(f, R) + Sum(g, R)
      BY <3>2
    <3>7. h[x] = f[x] + g[x] /\ f[x] \in Int /\ g[x] \in Int
      BY <3>1
    <3>8. \A a, b, c, d \in Int : (a + b) + (c + d) = (a + c) + (b + d)
      OBVIOUS
    <3> HIDE DEF R
    <3> QED
      BY <3>4, <3>5, <3>6, <3>7, <3>8
  <2> QED
    BY <2>1, <2>2
<1> HIDE DEF Good
<1>2. S \in Good
  BY <1>1, SubsetInduction
<1> QED
  BY <1>2 DEF Good

LEMMA SumTimes ==
    ASSUME NEW S, IsFiniteSet(S), NEW k \in Int, NEW f, NEW h,
           \A i \in S : f[i] \in Int /\ h[i] = k * f[i]
    PROVE  Sum(h, S) = k * Sum(f, S)
<1> DEFINE Good == {T \in SUBSET S : Sum(h, T) = k * Sum(f, T)}
<1>1. \A T \in SUBSET S : (\A U \in SUBSET T : U # T => U \in Good) => T \in Good
  <2> SUFFICES ASSUME NEW T \in SUBSET S, \A U \in SUBSET T : U # T => U \in Good
               PROVE  Sum(h, T) = k * Sum(f, T)
    OBVIOUS
  <2>1. CASE T = {}
    <3>1. Sum(f, {}) = 0 /\ Sum(h, {}) = 0 /\ k * 0 = 0
      BY SumEmpty
    <3> QED
      BY <2>1, <3>1
  <2>2. CASE T # {}
    <3>1. PICK x \in T : TRUE
      BY <2>2
    <3> DEFINE R == T \ {x}
    <3>2. R \in SUBSET T /\ R # T /\ IsFiniteSet(T) /\ IsFiniteSet(R)
      BY <3>1, FS_Subset
    <3>3. \A i \in T : h[i] \in Int /\ f[i] \in Int
      OBVIOUS
    <3>4. Sum(h, T) = h[x] + Sum(h, R) /\ Sum(f, T) = f[x] + Sum(f, R)
      BY <3>1, <3>2, <3>3, SumTake
    <3>5. Sum(f, R) \in Int
      BY <3>2, <3>3, SumInt
    <3>6. Sum(h, R) = k * Sum(f, R)
      BY <3>2
    <3>7. h[x] = k * f[x] /\ f[x] \in Int
      BY <3>1
    <3>8. \A a, b \in Int : k * a + k * b = k * (a + b)
      OBVIOUS
    <3> HIDE DEF R
    <3> QED
      BY <3>4, <3>5, <3>6, <3>7, <3>8
  <2> QED
    BY <2>1, <2>2
<1> HIDE DEF Good
<1>2. S \in Good
  BY <1>1, SubsetInduction
<1> QED
  BY <1>2 DEF Good

\* Numbers that are at most k add up to at most k times as many.
LEMMA SumBound ==
    ASSUME NEW S, IsFiniteSet(S), NEW k \in Int, NEW f, \A i \in S : f[i] \in Int /\ f[i] <= k
    PROVE  Sum(f, S) <= k * Cardinality(S)
<1> DEFINE Good == {T \in SUBSET S : Sum(f, T) <= k * Cardinality(T)}
<1>1. \A T \in SUBSET S : (\A U \in SUBSET T : U # T => U \in Good) => T \in Good
  <2> SUFFICES ASSUME NEW T \in SUBSET S, \A U \in SUBSET T : U # T => U \in Good
               PROVE  Sum(f, T) <= k * Cardinality(T)
    OBVIOUS
  <2>1. CASE T = {}
    <3>1. Sum(f, {}) = 0 /\ Cardinality({}) = 0 /\ k * 0 = 0
      BY SumEmpty, FS_EmptySet
    <3> QED
      BY <2>1, <3>1
  <2>2. CASE T # {}
    <3>1. PICK x \in T : TRUE
      BY <2>2
    <3> DEFINE R == T \ {x}
    <3>2. R \in SUBSET T /\ R # T /\ IsFiniteSet(T) /\ IsFiniteSet(R)
      BY <3>1, FS_Subset
    <3>3. \A i \in T : f[i] \in Int
      OBVIOUS
    <3>4. Sum(f, T) = f[x] + Sum(f, R)
      BY <3>1, <3>2, <3>3, SumTake
    <3>5. Sum(f, R) \in Int
      BY <3>2, <3>3, SumInt
    <3>6. Sum(f, R) <= k * Cardinality(R)
      BY <3>2
    <3>7. f[x] \in Int /\ f[x] <= k
      BY <3>1
    <3>8. /\ Cardinality(T) \in Nat /\ Cardinality(R) \in Nat
          /\ Cardinality(T) = Cardinality(R) + 1
      BY <3>1, <3>2, FS_RemoveElement, FS_CardinalityType
    <3>9. \A n \in Nat : k * (n + 1) = k * n + k /\ k * n \in Int
      OBVIOUS
    <3> HIDE DEF R
    <3> QED
      BY <3>4, <3>5, <3>6, <3>7, <3>8, <3>9
  <2> QED
    BY <2>1, <2>2
<1> HIDE DEF Good
<1>2. S \in Good
  BY <1>1, SubsetInduction
<1> QED
  BY <1>2 DEF Good

LEMMA SumNat ==
    ASSUME NEW S, IsFiniteSet(S), NEW f, \A i \in S : f[i] \in Nat
    PROVE  Sum(f, S) \in Nat
<1> DEFINE Good == {T \in SUBSET S : Sum(f, T) \in Nat}
<1>1. \A T \in SUBSET S : (\A U \in SUBSET T : U # T => U \in Good) => T \in Good
  <2>3. \A T \in SUBSET S : T = {} => Sum(f, T) \in Nat
    BY SumEmpty
  <2> SUFFICES ASSUME NEW T \in SUBSET S, \A U \in SUBSET T : U # T => U \in Good, T # {}
               PROVE  Sum(f, T) \in Nat
    BY <2>3
  <2>1. Pick(T) \in T /\ T \ {Pick(T)} \in SUBSET T /\ T \ {Pick(T)} # T
    BY PickIn
  <2>2. IsFiniteSet(T) /\ \A i \in T : f[i] \in Int
    BY FS_Subset
  <2>4. Sum(f, T) = f[Pick(T)] + Sum(f, T \ {Pick(T)})
    BY <2>2, SumPick
  <2>5. f[Pick(T)] \in Nat /\ Sum(f, T \ {Pick(T)}) \in Nat
    BY <2>1
  <2> QED
    BY <2>4, <2>5
<1> HIDE DEF Good
<1>2. S \in Good
  BY <1>1, SubsetInduction
<1> QED
  BY <1>2 DEF Good

\* b matches the elements of S with those of Q, and e has there what f has here.
Matches(b, S, e, Q, f) ==
    /\ \A i, j \in S : b[i] = b[j] => i = j
    /\ \A i \in S : b[i] \in Q /\ f[b[i]] \in Int /\ e[i] = f[b[i]]
    /\ \A y \in Q : \E i \in S : b[i] = y

\* A sum over the values of an injective function.
LEMMA SumImage ==
    ASSUME NEW S, IsFiniteSet(S), NEW b, NEW e, NEW Q, NEW f, Matches(b, S, e, Q, f)
    PROVE  IsFiniteSet(Q) /\ Sum(f, Q) = Sum(e, S)
<1> USE DEF Matches
<1> DEFINE image(T) == {b[i] : i \in T}
           Good == {T \in SUBSET S : IsFiniteSet(image(T)) /\ Sum(f, image(T)) = Sum(e, T)}
<1>1. \A T \in SUBSET S : (\A U \in SUBSET T : U # T => U \in Good) => T \in Good
  <2> SUFFICES ASSUME NEW T \in SUBSET S, \A U \in SUBSET T : U # T => U \in Good
               PROVE  IsFiniteSet(image(T)) /\ Sum(f, image(T)) = Sum(e, T)
    OBVIOUS
  <2>1. CASE T = {}
    <3>1. Sum(f, {}) = 0 /\ Sum(e, {}) = 0 /\ image({}) = {}
      BY SumEmpty
    <3> QED
      BY <2>1, <3>1, FS_EmptySet
  <2>2. CASE T # {}
    <3>1. PICK x \in T : TRUE
      BY <2>2
    <3> DEFINE R == T \ {x}
    <3>2. R \in SUBSET T /\ R # T /\ IsFiniteSet(T)
      BY <3>1, FS_Subset
    <3>3. IsFiniteSet(image(R)) /\ Sum(f, image(R)) = Sum(e, R)
      BY <3>2
    <3>4. image(T) = image(R) \cup {b[x]} /\ b[x] \notin image(R)
      BY <3>1
    <3>5. \A i \in image(R) \cup {b[x]} : f[i] \in Int
      BY <3>1
    <3>6. Sum(e, T) = e[x] + Sum(e, R)
      <4>1. \A i \in T : e[i] \in Int
        OBVIOUS
      <4> QED
        BY <3>1, <3>2, <4>1, SumTake
    <3>7. e[x] = f[b[x]]
      BY <3>1
    <3> HIDE DEF image, R
    <3>8. Sum(f, image(R) \cup {b[x]}) = f[b[x]] + Sum(f, image(R))
      <4>1. PICK y : y = b[x]
        OBVIOUS
      <4>2. y \notin image(R) /\ \A i \in image(R) \cup {y} : f[i] \in Int
        BY <3>4, <3>5, <4>1
      <4>3. Sum(f, image(R) \cup {y}) = f[y] + Sum(f, image(R))
        BY <3>3, <4>2, SumAdd
      <4> QED
        BY <4>1, <4>3
    <3>9. IsFiniteSet(image(R) \cup {b[x]})
      BY <3>3, FS_AddElement
    <3> QED
      BY <3>3, <3>4, <3>6, <3>7, <3>8, <3>9
  <2> QED
    BY <2>1, <2>2
<1>2. S \in Good
  <2> HIDE DEF Good
  <2> QED
    BY <1>1, SubsetInduction
<1>3. image(S) = Q
  OBVIOUS
<1> QED
  BY <1>2, <1>3

LEMMA SumUnion ==
    ASSUME NEW S, IsFiniteSet(S), NEW T \in SUBSET S, NEW f, \A i \in S : f[i] \in Int
    PROVE  Sum(f, S) = Sum(f, T) + Sum(f, S \ T)
<1> DEFINE Good == {U \in SUBSET T : Sum(f, S) = Sum(f, U) + Sum(f, S \ U)}
<1>1. IsFiniteSet(T)
  BY FS_Subset
<1>2. \A U \in SUBSET T : (\A W \in SUBSET U : W # U => W \in Good) => U \in Good
  <2> SUFFICES ASSUME NEW U \in SUBSET T, \A W \in SUBSET U : W # U => W \in Good
               PROVE  Sum(f, S) = Sum(f, U) + Sum(f, S \ U)
    OBVIOUS
  <2>1. CASE U = {}
    <3>1. Sum(f, {}) = 0 /\ S \ {} = S /\ Sum(f, S) \in Int
      BY SumEmpty, SumInt
    <3> QED
      BY <2>1, <3>1
  <2>2. CASE U # {}
    <3>1. PICK x \in U : TRUE
      BY <2>2
    <3> DEFINE W == U \ {x}
    <3>2. W \in SUBSET U /\ W # U /\ (S \ W) \ {x} = S \ U /\ x \in S \ W
      BY <3>1
    <3>3. U \in SUBSET S /\ S \ W \in SUBSET S /\ S \ U \in SUBSET S /\ W \in SUBSET S
      OBVIOUS
    <3>4. IsFiniteSet(U) /\ IsFiniteSet(S \ W) /\ IsFiniteSet(S \ U) /\ IsFiniteSet(W)
      BY <3>3, FS_Subset
    <3>5. Sum(f, S) = Sum(f, W) + Sum(f, S \ W)
      BY <3>2
    <3>6. Sum(f, U) = f[x] + Sum(f, W)
      BY <3>1, <3>3, <3>4, SumTake
    <3>7. Sum(f, S \ W) = f[x] + Sum(f, S \ U)
      <4>1. \A i \in S \ W : f[i] \in Int
        OBVIOUS
      <4>2. Sum(f, S \ W) = f[x] + Sum(f, (S \ W) \ {x})
        BY <3>2, <3>4, <4>1, SumTake
      <4> QED
        BY <3>2, <4>2
    <3>8. Sum(f, W) \in Int /\ Sum(f, S \ U) \in Int /\ f[x] \in Int
      BY <3>1, <3>3, <3>4, SumInt
    <3>9. \A a, b, c \in Int : a + (b + c) = (b + a) + c
      OBVIOUS
    <3> HIDE DEF W
    <3> QED
      BY <3>5, <3>6, <3>7, <3>8, <3>9
  <2> QED
    BY <2>1, <2>2
<1>3. T \in Good
  <2> HIDE DEF Good
  <2> QED
    BY <1>1, <1>2, SubsetInduction
<1> QED
  BY <1>3

-----------------------------------------------------------------------------
(***************************************************************************)
(* Division.                                                               *)
(***************************************************************************)

LEMMA DivMod ==
    ASSUME NEW a \in Int, NEW b \in Nat \ {0}
    PROVE  /\ a = b * (a \div b) + (a % b)
           /\ a \div b \in Int /\ a % b \in 0 .. b - 1
OBVIOUS

LEMMA DivModUnique ==
    ASSUME NEW a \in Int, NEW b \in Nat \ {0}, NEW k \in Int, NEW r \in 0 .. b - 1, a = b * k + r
    PROVE  a % b = r /\ a \div b = k
OBVIOUS

LEMMA Products ==
    ASSUME NEW b \in Nat \ {0}, NEW x \in Int, NEW y \in Int
    PROVE  /\ b * x \in Int
           /\ b * (x + y) = b * x + b * y
           /\ b * (x - y) = b * x - b * y
           /\ b * x = b * y => x = y
           /\ x < y => b * x < b * y
           /\ x <= y => b * x <= b * y
           /\ b * x < b * y => x < y
           /\ b * x <= b * y => x <= y
OBVIOUS

\* Numbers that differ by a multiple of b are the same modulo b.
LEMMA SameModulo ==
    ASSUME NEW a \in Int, NEW b \in Nat \ {0}, NEW k \in Int
    PROVE  (a + b * k) % b = a % b /\ (a + b * k) \div b = (a \div b) + k
<1>1. PICK d \in Int, r \in 0 .. b - 1 : d = a \div b /\ r = a % b /\ a = b * d + r
  BY DivMod
<1>2. b * (d + k) = b * d + b * k /\ b * k \in Int /\ b * d \in Int /\ d + k \in Int
  BY <1>1, Products
<1>3. a + b * k = b * (d + k) + r /\ a + b * k \in Int
  BY <1>1, <1>2
<1>4. (a + b * k) % b = r /\ (a + b * k) \div b = d + k
  <2> DEFINE x == a + b * k
             y == d + k
  <2>1. x \in Int /\ y \in Int /\ x = b * y + r
    BY <1>2, <1>3
  <2> HIDE DEF x, y
  <2>2. x % b = r /\ x \div b = y
    BY <2>1, DivModUnique
  <2> QED
    BY <2>2 DEF x, y
<1> QED
  BY <1>1, <1>4

LEMMA ModuloSame ==
    ASSUME NEW a \in Int, NEW c \in Int, NEW b \in Nat \ {0}, a % b = c % b
    PROVE  \E k \in Int : a = c + b * k
<1>1. PICK d \in Int, r \in 0 .. b - 1 : d = a \div b /\ r = a % b /\ a = b * d + r
  BY DivMod
<1>2. PICK e \in Int, s \in 0 .. b - 1 : e = c \div b /\ s = c % b /\ c = b * e + s
  BY DivMod
<1>3. b * (d - e) = b * d - b * e /\ b * d \in Int /\ b * e \in Int /\ d - e \in Int
  BY Products
<1>4. a = c + b * (d - e)
  BY <1>1, <1>2, <1>3
<1> QED
  BY <1>3, <1>4

-----------------------------------------------------------------------------
(***************************************************************************)
(* What addObjects finds.                                                  *)
(***************************************************************************)

\* The queries of the form, the parameters of which are natural numbers.
GoodQuery(q) ==
    /\ q.period \in Nat \ {0} /\ q.minPasses \in Nat /\ q.maxPasses \in Nat
    /\ q.others.jugglers \in Nat \ {0, 1}
    /\ q.others.objects \in Nat /\ q.others.maxHeight \in Nat

\* The throw that is n Prechators above the lowest one, and whether it is high
\* enough and not too high.
Lift(q, lowest, n) ==
    LET j == Jugglers(q)
        index == n % j
        height == lowest * j + n * q.period
        original == height + IF index = 0 THEN 0 ELSE (j - index) * q.period
    IN  Toss(height, index, original \div j)

CanLift(q, lowest, n) ==
    LET j == Jugglers(q)
        height == lowest * j + n * q.period
    IN  ((height = 0 /\ n % j = 0) \/ height >= j) /\ height <= q.others.maxHeight * j

LEMMA RaisedIs ==
    ASSUME NEW q, NEW lowest, NEW n, NEW pp
    PROVE  Raised(q, lowest, n, pp) =
             IF (pp = 0 => n % Jugglers(q) = 0) /\ CanLift(q, lowest, n)
             THEN {Lift(q, lowest, n)} ELSE {}
BY DEF Raised, Lift, CanLift

\* The beats from i on can be raised by nn, which is m in all, with pp passes.
Fits(q, base, i, nn, m, pp) ==
    /\ Sum(nn, i .. q.period) = m
    /\ \A k \in i .. q.period : CanLift(q, base[k], nn[k])
    /\ Cardinality({k \in i .. q.period : nn[k] % Jugglers(q) > 0}) <= pp

Tail0(q, base, i, nn) ==
    [x \in 1 .. q.period + 1 - i |-> Lift(q, base[x + i - 1], nn[x + i - 1])]

Tails(q, base, i, m, pp) ==
    {Tail0(q, base, i, nn) :
        nn \in {nn \in [i .. q.period -> Nat] : Fits(q, base, i, nn, m, pp)}}

LEMMA FitsSplit ==
    ASSUME NEW q, GoodQuery(q), NEW base, NEW i \in 1 .. q.period,
           NEW nn \in [i .. q.period -> Nat], NEW mm \in [i + 1 .. q.period -> Nat],
           \A k \in i + 1 .. q.period : mm[k] = nn[k], NEW m \in Nat, NEW pp \in Nat
    PROVE  Fits(q, base, i, nn, m, pp) <=>
             /\ nn[i] \in 0 .. m /\ CanLift(q, base[i], nn[i])
             /\ pp = 0 => nn[i] % Jugglers(q) = 0
             /\ Fits(q, base, i + 1, mm, m - nn[i],
                     IF nn[i] % Jugglers(q) > 0 THEN pp - 1 ELSE pp)
<1> DEFINE P == q.period
           S == i .. P
           T == i + 1 .. P
           j == Jugglers(q)
<1>1. P \in Nat \ {0} /\ j \in Nat \ {0} /\ i \in Nat /\ P \in Int /\ i + 1 \in Int
  BY DEF GoodQuery, Jugglers
<1>2. IsFiniteSet(S) /\ IsFiniteSet(T)
  <2>1. i \in Int /\ i + 1 \in Int /\ P \in Int
    BY <1>1
  <2> QED
    BY <2>1, FS_Interval
<1>3. S = T \cup {i} /\ i \notin T
  BY <1>1
<1>4. Sum(nn, S) = nn[i] + Sum(nn, T)
  <2>1. \A k \in T \cup {i} : nn[k] \in Int
    BY <1>3
  <2> HIDE DEF S, T
  <2> QED
    BY <1>2, <1>3, <2>1, SumAdd
<1>5. Sum(nn, T) = Sum(mm, T) /\ Sum(mm, T) \in Nat
  <2>1. \A k \in T : mm[k] \in Int /\ mm[k] \in Nat /\ nn[k] \in Int
    BY <1>3
  <2>2. \A k \in T : mm[k] = nn[k]
    OBVIOUS
  <2> HIDE DEF S, T
  <2> QED
    BY <1>2, <2>1, <2>2, SumEqual, SumNat
<1>6. Sum(nn, S) = m <=> nn[i] \in 0 .. m /\ Sum(mm, T) = m - nn[i]
  <2>1. nn[i] \in Nat
    BY <1>1
  <2> HIDE DEF S, T
  <2> QED
    BY <1>4, <1>5, <2>1
<1>7. (\A k \in S : CanLift(q, base[k], nn[k])) <=>
        CanLift(q, base[i], nn[i]) /\ \A k \in T : CanLift(q, base[k], mm[k])
  BY <1>3
<1> DEFINE A == {k \in S : nn[k] % j > 0}
           B == {k \in T : mm[k] % j > 0}
<1>8. IsFiniteSet(B) /\ Cardinality(B) \in Nat /\ i \notin B
  <2>1. IsFiniteSet(B)
    BY <1>2, FS_Subset
  <2> QED
    BY <1>3, <2>1, FS_CardinalityType
<1>9. nn[i] % j \in Nat
  BY <1>1
<1>10. CASE nn[i] % j = 0
  <2>1. A = B
    BY <1>3, <1>10
  <2>2. Fits(q, base, i + 1, mm, m - nn[i], IF nn[i] % j > 0 THEN pp - 1 ELSE pp) <=>
          /\ Sum(mm, T) = m - nn[i] /\ \A k \in T : CanLift(q, base[k], mm[k])
          /\ Cardinality(B) <= pp
    BY <1>10 DEF Fits
  <2>3. Fits(q, base, i, nn, m, pp) <=>
          /\ Sum(nn, S) = m /\ \A k \in S : CanLift(q, base[k], nn[k])
          /\ Cardinality(A) <= pp
    BY DEF Fits
  <2> HIDE DEF S, T, A, B
  <2> QED
    BY <1>6, <1>7, <1>10, <2>1, <2>2, <2>3 DEF j
<1>11. CASE nn[i] % j > 0
  <2>1. A = B \cup {i}
    BY <1>3, <1>11
  <2>2. Cardinality(A) = Cardinality(B) + 1
    <3> HIDE DEF A, B
    <3> QED
      BY <1>8, <2>1, FS_AddElement
  <2>3. Fits(q, base, i + 1, mm, m - nn[i], IF nn[i] % j > 0 THEN pp - 1 ELSE pp) <=>
          /\ Sum(mm, T) = m - nn[i] /\ \A k \in T : CanLift(q, base[k], mm[k])
          /\ Cardinality(B) <= pp - 1
    BY <1>11 DEF Fits
  <2>4. Fits(q, base, i, nn, m, pp) <=>
          /\ Sum(nn, S) = m /\ \A k \in S : CanLift(q, base[k], nn[k])
          /\ Cardinality(A) <= pp
    BY DEF Fits
  <2>5. Cardinality(A) <= pp <=> (pp = 0 => nn[i] % j = 0) /\ Cardinality(B) <= pp - 1
    <3> HIDE DEF A, B
    <3> QED
      BY <1>8, <1>9, <1>11, <2>2
  <2> HIDE DEF S, T, A, B
  <2> QED
    BY <1>6, <1>7, <1>11, <2>3, <2>4, <2>5 DEF j
<1> QED
  BY <1>9, <1>10, <1>11

LEMMA TailCons ==
    ASSUME NEW q, GoodQuery(q), NEW base, NEW i \in 1 .. q.period,
           NEW nn \in [i .. q.period -> Nat], NEW mm \in [i + 1 .. q.period -> Nat],
           \A k \in i + 1 .. q.period : mm[k] = nn[k]
    PROVE  Tail0(q, base, i, nn) = <<Lift(q, base[i], nn[i])>> \o Tail0(q, base, i + 1, mm)
<1> DEFINE P == q.period
           toss == Lift(q, base[i], nn[i])
           rest == Tail0(q, base, i + 1, mm)
           n == P + 1 - (i + 1)
<1>1. P \in Nat /\ i \in Nat /\ n \in Nat /\ P + 1 - i = n + 1
  BY DEF GoodQuery
<1>2. rest = [x \in 1 .. n |-> Lift(q, base[x + (i + 1) - 1], mm[x + (i + 1) - 1])]
  BY DEF Tail0
<1>3. <<toss>> \o rest = [x \in 1 .. n + 1 |-> IF x = 1 THEN toss ELSE rest[x - 1]]
  <2> DEFINE r(x) == Lift(q, base[x + (i + 1) - 1], mm[x + (i + 1) - 1])
  <2>1. rest = [x \in 1 .. n |-> r(x)]
    BY <1>2
  <2> HIDE DEF rest, r, toss, n
  <2> QED
    BY <1>1, <2>1
<1>4. \A x \in 1 .. n + 1 : Lift(q, base[x + i - 1], nn[x + i - 1])
                              = IF x = 1 THEN toss ELSE rest[x - 1]
  <2> SUFFICES ASSUME NEW x \in 1 .. n + 1
               PROVE  Lift(q, base[x + i - 1], nn[x + i - 1])
                        = IF x = 1 THEN toss ELSE rest[x - 1]
    OBVIOUS
  <2>1. CASE x = 1
    <3>1. x + i - 1 = i
      BY <1>1, <2>1
    <3> QED
      BY <2>1, <3>1
  <2>2. CASE x # 1
    <3>1. x - 1 \in 1 .. n /\ (x - 1) + (i + 1) - 1 = x + i - 1 /\ x + i - 1 \in i + 1 .. P
      BY <1>1, <2>2
    <3>2. rest[x - 1] = Lift(q, base[x + i - 1], mm[x + i - 1])
      <4> HIDE DEF rest, n, P
      <4> QED
        BY <1>2, <3>1
    <3>3. mm[x + i - 1] = nn[x + i - 1]
      BY <3>1
    <3> HIDE DEF rest, toss
    <3> QED
      BY <2>2, <3>2, <3>3
  <2> QED
    BY <2>1, <2>2
<1>5. Tail0(q, base, i, nn) = [x \in 1 .. n + 1 |-> Lift(q, base[x + i - 1], nn[x + i - 1])]
  BY <1>1 DEF Tail0
<1> HIDE DEF rest, toss, n
<1> QED
  BY <1>3, <1>4, <1>5 DEF rest, toss

\* The endings from i on are a throw at i and an ending from i + 1 on.
TailsFrom(q, base, i, m, pp) ==
    UNION {UNION {{<<toss>> \o rest :
                     rest \in Tails(q, base, i + 1, m - n, IF toss.pass > 0 THEN pp - 1 ELSE pp)} :
                  toss \in Raised(q, base[i], n, pp)} :
           n \in 0 .. m}

LEMMA TailsStep ==
    ASSUME NEW q, GoodQuery(q), NEW base, NEW i \in 1 .. q.period, NEW m \in Nat, NEW pp \in Nat
    PROVE  Tails(q, base, i, m, pp) = TailsFrom(q, base, i, m, pp)
<1> DEFINE P == q.period
           j == Jugglers(q)
           left(n) == IF n % j > 0 THEN pp - 1 ELSE pp
           tails(n) == Tails(q, base, i + 1, m - n, left(n))
           tossAt(n) == Lift(q, base[i], n)
           all == TailsFrom(q, base, i, m, pp)
           one(n) == {<<tossAt(n)>> \o rest : rest \in tails(n)}
           can(n) == (pp = 0 => n % j = 0) /\ CanLift(q, base[i], n)
<1>1. P \in Nat \ {0} /\ i \in 1 .. P
  BY DEF GoodQuery
<1>2. \A n : tossAt(n).pass = n % j
  BY DEF Lift, Toss
<1>3. \A f : f \in all <=> \E n \in 0 .. m : can(n) /\ f \in one(n)
  <2> DEFINE rests(n, toss) == Tails(q, base, i + 1, m - n, IF toss.pass > 0 THEN pp - 1 ELSE pp)
             with(n, toss) == {<<toss>> \o rest : rest \in rests(n, toss)}
             raised(n) == Raised(q, base[i], n, pp)
             some(n) == UNION {with(n, toss) : toss \in raised(n)}
  <2>1. all = UNION {some(n) : n \in 0 .. m}
    BY DEF TailsFrom
  <2>2. \A n : raised(n) = IF can(n) THEN {tossAt(n)} ELSE {}
    BY RaisedIs
  <2>3. \A n : rests(n, tossAt(n)) = tails(n)
    BY <1>2
  <2>4. \A n : with(n, tossAt(n)) = one(n)
    BY <2>3
  <2>5. \A n : some(n) = IF can(n) THEN one(n) ELSE {}
    <3> HIDE DEF with, raised, can, tossAt, one
    <3> SUFFICES ASSUME NEW n PROVE some(n) = IF can(n) THEN one(n) ELSE {}
      OBVIOUS
    <3>1. raised(n) = (IF can(n) THEN {tossAt(n)} ELSE {}) /\ with(n, tossAt(n)) = one(n)
      BY <2>2, <2>4
    <3> QED
      BY <3>1
  <2> HIDE DEF some, all, one, can
  <2> QED
    BY <2>1, <2>5
<1>4. ASSUME NEW n \in 0 .. m, can(n), NEW f \in one(n) PROVE f \in Tails(q, base, i, m, pp)
  <2>1. PICK mm \in [i + 1 .. P -> Nat] :
            Fits(q, base, i + 1, mm, m - n, left(n)) /\ f = <<tossAt(n)>> \o Tail0(q, base, i + 1, mm)
    BY <1>4 DEF Tails
  <2> DEFINE nn == [k \in i .. P |-> IF k = i THEN n ELSE mm[k]]
  <2>2. nn \in [i .. P -> Nat] /\ nn[i] = n
    BY <1>1
  <2>3. \A k \in i + 1 .. P : mm[k] = nn[k]
    BY <1>1
  <2> HIDE DEF nn
  <2>4. Fits(q, base, i, nn, m, pp)
    BY <1>4, <2>1, <2>2, <2>3, FitsSplit
  <2>5. Tail0(q, base, i, nn) = f
    BY <2>1, <2>2, <2>3, TailCons
  <2> QED
    BY <2>2, <2>4, <2>5 DEF Tails
<1>5. ASSUME NEW f \in Tails(q, base, i, m, pp) PROVE \E n \in 0 .. m : can(n) /\ f \in one(n)
  <2>1. PICK nn \in [i .. P -> Nat] : Fits(q, base, i, nn, m, pp) /\ f = Tail0(q, base, i, nn)
    BY <1>5 DEF Tails
  <2> DEFINE mm == [k \in i + 1 .. P |-> nn[k]]
  <2>2. mm \in [i + 1 .. P -> Nat] /\ \A k \in i + 1 .. P : mm[k] = nn[k]
    BY <1>1
  <2> HIDE DEF mm
  <2>3. nn[i] \in 0 .. m /\ can(nn[i]) /\ Fits(q, base, i + 1, mm, m - nn[i], left(nn[i]))
    <3>1. /\ nn[i] \in 0 .. m /\ CanLift(q, base[i], nn[i])
          /\ pp = 0 => nn[i] % Jugglers(q) = 0
          /\ Fits(q, base, i + 1, mm, m - nn[i],
                  IF nn[i] % Jugglers(q) > 0 THEN pp - 1 ELSE pp)
      BY <2>1, <2>2, FitsSplit
    <3> QED
      BY <3>1
  <2>4. f = <<tossAt(nn[i])>> \o Tail0(q, base, i + 1, mm)
    BY <2>1, <2>2, TailCons
  <2>5. f \in one(nn[i])
    BY <2>2, <2>3, <2>4 DEF Tails
  <2> QED
    BY <2>3, <2>5
<1> HIDE DEF all, one, can
<1>6. Tails(q, base, i, m, pp) = all
  BY <1>3, <1>4, <1>5
<1> QED
  BY <1>6 DEF all

LEMMA TailsEnd ==
    ASSUME NEW q, GoodQuery(q), NEW base, NEW m \in Nat, NEW pp \in Nat
    PROVE  Tails(q, base, q.period + 1, m, pp) = IF m = 0 THEN {<<>>} ELSE {}
<1> DEFINE i == q.period + 1
<1>1. q.period \in Nat
  BY DEF GoodQuery
<1>2. i .. q.period = {} /\ 1 .. q.period + 1 - i = {}
  BY <1>1
<1>3. \A nn : Tail0(q, base, i, nn) = <<>>
  BY <1>2 DEF Tail0
<1>4. \A nn : Fits(q, base, i, nn, m, pp) <=> m = 0
  <2>1. \A nn : Sum(nn, i .. q.period) = 0
    BY <1>2, SumEmpty
  <2>2. \A nn : {k \in i .. q.period : nn[k] % Jugglers(q) > 0} = {}
    BY <1>2
  <2> QED
    BY <1>2, <2>1, <2>2, FS_EmptySet DEF Fits
<1>5. \E nn : nn \in [i .. q.period -> Nat]
  <2>1. [k \in i .. q.period |-> 0] \in [i .. q.period -> Nat]
    OBVIOUS
  <2> QED
    BY <2>1
<1> HIDE DEF i
<1>6. Tails(q, base, i, m, pp) = IF m = 0 THEN {<<>>} ELSE {}
  BY <1>3, <1>4, <1>5 DEF Tails
<1> QED
  BY <1>6 DEF i

\* What addObjects computes from the endings that start a beat later.
Added(g, q, base, i, m, pp) ==
    IF i > q.period THEN IF m = 0 THEN {<<>>} ELSE {}
    ELSE UNION {UNION {{<<toss>> \o rest :
                          rest \in g[i + 1][m - n][IF toss.pass > 0 THEN pp - 1 ELSE pp]} :
                       toss \in Raised(q, base[i], n, pp)} :
                n \in 0 .. m}

AddEq(g, q, base, missing) ==
    g = [i \in 1 .. q.period + 1 |-> [m \in 0 .. missing |-> [passes \in 0 .. q.maxPasses |->
            IF i > q.period THEN IF m = 0 THEN {<<>>} ELSE {}
            ELSE UNION {UNION {{<<toss>> \o rest :
                                  rest \in g[i + 1][m - n]
                                              [IF toss.pass > 0 THEN passes - 1 ELSE passes]} :
                               toss \in Raised(q, base[i], n, passes)} :
                        n \in 0 .. m}]]]

LEMMA AddDef ==
    ASSUME NEW q, NEW base
    PROVE  AddObjects(q, base) =
             (CHOOSE g : AddEq(g, q, base, q.others.objects - Objects(q, base)))
                [1][q.others.objects - Objects(q, base)][q.maxPasses]
BY DEF AddObjects, AddEq

LEMMA AddedIs ==
    ASSUME NEW q, NEW base, NEW missing, NEW g
    PROVE  AddEq(g, q, base, missing) <=>
             g = [i \in 1 .. q.period + 1 |-> [m \in 0 .. missing |->
                    [pp \in 0 .. q.maxPasses |-> Added(g, q, base, i, m, pp)]]]
BY DEF AddEq, Added

SameTails(g, q, base, missing, i) ==
    \A m \in 0 .. missing, pp \in 0 .. q.maxPasses : g[i][m][pp] = Tails(q, base, i, m, pp)

\* One step down from the last beat.
LEMMA AddedEnd ==
    ASSUME NEW q, GoodQuery(q), NEW base, NEW g, NEW m \in Nat, NEW pp \in Nat
    PROVE  Added(g, q, base, q.period + 1, m, pp) = Tails(q, base, q.period + 1, m, pp)
<1>1. q.period + 1 > q.period
  BY DEF GoodQuery
<1> QED
  BY <1>1, TailsEnd DEF Added

LEMMA AddedStep ==
    ASSUME NEW q, GoodQuery(q), NEW base, NEW missing \in Nat, NEW g,
           NEW i \in 1 .. q.period, NEW m \in 0 .. missing, NEW pp \in 0 .. q.maxPasses,
           SameTails(g, q, base, missing, i + 1)
    PROVE  Added(g, q, base, i, m, pp) = Tails(q, base, i, m, pp)
<1>1. q.period \in Nat /\ m \in Nat /\ pp \in Nat /\ q.maxPasses \in Nat
  BY DEF GoodQuery
<1>2. ~(i > q.period)
  BY <1>1
<1> DEFINE left(toss) == IF toss.pass > 0 THEN pp - 1 ELSE pp
           one(n, toss) == {<<toss>> \o rest : rest \in g[i + 1][m - n][left(toss)]}
           two(n, toss) == {<<toss>> \o rest : rest \in Tails(q, base, i + 1, m - n, left(toss))}
           raised(n) == Raised(q, base[i], n, pp)
<1>3. \A n \in 0 .. m : \A toss \in raised(n) : left(toss) \in 0 .. q.maxPasses
  <2> SUFFICES ASSUME NEW n \in 0 .. m, NEW toss \in raised(n)
               PROVE  left(toss) \in 0 .. q.maxPasses
    OBVIOUS
  <2>1. (pp = 0 => n % Jugglers(q) = 0) /\ toss = Lift(q, base[i], n)
    BY RaisedIs
  <2>2. toss.pass = n % Jugglers(q)
    BY <2>1 DEF Lift, Toss
  <2>3. toss.pass > 0 => pp # 0
    BY <2>1, <2>2
  <2> QED
    BY <1>1, <2>3
<1>4. \A n \in 0 .. m : m - n \in 0 .. missing
  BY <1>1
<1>5. \A n \in 0 .. m : \A toss \in raised(n) : one(n, toss) = two(n, toss)
  <2> SUFFICES ASSUME NEW n \in 0 .. m, NEW toss \in raised(n)
               PROVE  one(n, toss) = two(n, toss)
    OBVIOUS
  <2>1. g[i + 1][m - n][left(toss)] = Tails(q, base, i + 1, m - n, left(toss))
    <3> HIDE DEF left, raised
    <3> QED
      BY <1>3, <1>4 DEF SameTails
  <2> QED
    BY <2>1
<1>6. Added(g, q, base, i, m, pp) = UNION {UNION {one(n, toss) : toss \in raised(n)} : n \in 0 .. m}
  BY <1>2 DEF Added
<1>7. Tails(q, base, i, m, pp) = UNION {UNION {two(n, toss) : toss \in raised(n)} : n \in 0 .. m}
  <2>1. Tails(q, base, i, m, pp) = TailsFrom(q, base, i, m, pp)
    BY <1>1, TailsStep
  <2>2. TailsFrom(q, base, i, m, pp) = UNION {UNION {two(n, toss) : toss \in raised(n)} : n \in 0 .. m}
    BY Zenon DEF TailsFrom
  <2> QED
    BY <2>1, <2>2
<1>8. \A n \in 0 .. m : UNION {one(n, toss) : toss \in raised(n)}
                          = UNION {two(n, toss) : toss \in raised(n)}
  <2> HIDE DEF one, two, raised
  <2> SUFFICES ASSUME NEW n \in 0 .. m
               PROVE  UNION {one(n, toss) : toss \in raised(n)}
                        = UNION {two(n, toss) : toss \in raised(n)}
    OBVIOUS
  <2>1. \A toss \in raised(n) : one(n, toss) = two(n, toss)
    BY <1>5
  <2> QED
    BY <2>1
<1> DEFINE ones(n) == UNION {one(n, toss) : toss \in raised(n)}
           twos(n) == UNION {two(n, toss) : toss \in raised(n)}
<1>9. UNION {ones(n) : n \in 0 .. m} = UNION {twos(n) : n \in 0 .. m}
  <2>1. \A n \in 0 .. m : ones(n) = twos(n)
    BY <1>8
  <2> HIDE DEF ones, twos
  <2> QED
    BY <2>1
<1> QED
  BY <1>6, <1>7, <1>9

\* addObjects finds all ways to raise the throws by what is missing, with no more
\* passes than asked for.
LEMMA AddObjectsIs ==
    ASSUME NEW q, GoodQuery(q), NEW base, q.others.objects - Objects(q, base) \in Nat
    PROVE  AddObjects(q, base)
             = Tails(q, base, 1, q.others.objects - Objects(q, base), q.maxPasses)
<1> DEFINE P == q.period
           missing == q.others.objects - Objects(q, base)
           M == 0 .. missing
           Q == 0 .. q.maxPasses
           ref == [i \in 1 .. P + 1 |-> [m \in M |-> [pp \in Q |-> Tails(q, base, i, m, pp)]]]
           step(g) == [i \in 1 .. P + 1 |-> [m \in M |-> [pp \in Q |-> Added(g, q, base, i, m, pp)]]]
<1>1. P \in Nat \ {0} /\ missing \in Nat /\ q.maxPasses \in Nat
  BY DEF GoodQuery
<1> HIDE DEF missing
<1>2. AddEq(ref, q, base, missing)
  <2>1. ASSUME NEW i \in 1 .. P + 1, NEW m \in M, NEW pp \in Q
        PROVE  Added(ref, q, base, i, m, pp) = Tails(q, base, i, m, pp)
    <3>1. CASE i = P + 1
      <4>1. m \in Nat /\ pp \in Nat
        BY <1>1
      <4>2. Added(ref, q, base, P + 1, m, pp) = Tails(q, base, P + 1, m, pp)
        <5> HIDE DEF ref
        <5> QED
          BY <4>1, AddedEnd
      <4> HIDE DEF ref
      <4> QED
        BY <3>1, <4>2
    <3>2. CASE i # P + 1
      <4>1. i \in 1 .. P /\ i + 1 \in 1 .. P + 1
        BY <1>1, <3>2
      <4>2. SameTails(ref, q, base, missing, i + 1)
        BY <4>1 DEF SameTails
      <4> HIDE DEF ref
      <4> QED
        BY <1>1, <4>1, <4>2, AddedStep
    <3> QED
      BY <3>1, <3>2
  <2>2. step(ref) = ref
    BY <2>1
  <2> HIDE DEF ref
  <2> QED
    BY <2>2, AddedIs
<1>3. PICK g : g = (CHOOSE h : AddEq(h, q, base, missing)) /\ AddEq(g, q, base, missing)
  <2> HIDE DEF ref
  <2> QED
    BY <1>2
<1>4. \A i \in 1 .. P + 1, m \in M, pp \in Q : g[i][m][pp] = Added(g, q, base, i, m, pp)
  <2>1. g = step(g)
    BY <1>3, AddedIs
  <2> SUFFICES ASSUME NEW i \in 1 .. P + 1, NEW m \in M, NEW pp \in Q
               PROVE  g[i][m][pp] = Added(g, q, base, i, m, pp)
    OBVIOUS
  <2>2. step(g)[i][m][pp] = Added(g, q, base, i, m, pp)
    OBVIOUS
  <2> HIDE DEF step
  <2> QED
    BY <2>1, <2>2
<1> DEFINE Same(i) == SameTails(g, q, base, missing, i)
           Good == {n \in 0 .. P : Same(P + 1 - n)}
<1>5. 0 \in Good
  <2>1. P + 1 \in 1 .. P + 1 /\ P + 1 - 0 = P + 1
    BY <1>1
  <2>2. ASSUME NEW m \in M, NEW pp \in Q PROVE g[P + 1][m][pp] = Tails(q, base, P + 1, m, pp)
    <3>1. Added(g, q, base, P + 1, m, pp) = Tails(q, base, P + 1, m, pp)
      <4>1. m \in Nat /\ pp \in Nat
        BY <1>1
      <4> QED
        BY <4>1, AddedEnd
    <3> QED
      BY <1>4, <2>1, <3>1
  <2>3. Same(P + 1)
    BY <2>2 DEF SameTails
  <2> QED
    BY <1>1, <2>1, <2>3
<1>6. \A n \in 0 .. P - 1 : n \in Good => n + 1 \in Good
  <2> SUFFICES ASSUME NEW n \in 0 .. P - 1, Same(P + 1 - n) PROVE Same(P + 1 - (n + 1)) /\ n + 1 \in 0 .. P
    OBVIOUS
  <2> DEFINE i == P + 1 - (n + 1)
  <2>1. i \in 1 .. P /\ i \in 1 .. P + 1 /\ i + 1 = P + 1 - n
    BY <1>1
  <2> HIDE DEF i
  <2>2. ASSUME NEW m \in M, NEW pp \in Q PROVE g[i][m][pp] = Tails(q, base, i, m, pp)
    <3>1. SameTails(g, q, base, missing, i + 1)
      BY <2>1
    <3>2. Added(g, q, base, i, m, pp) = Tails(q, base, i, m, pp)
      BY <1>1, <2>1, <3>1, AddedStep
    <3> QED
      BY <1>4, <2>1, <3>2
  <2>3. Same(i)
    BY <2>2 DEF SameTails
  <2> QED
    BY <1>1, <2>3 DEF i
<1>7. P \in Good
  <2> HIDE DEF Good
  <2>1. 0 .. P \subseteq Good
    BY <1>1, <1>5, <1>6, UpTo
  <2> QED
    BY <1>1, <2>1
<1>8. g[1][missing][q.maxPasses] = Tails(q, base, 1, missing, q.maxPasses)
  <2>1. P + 1 - P = 1 /\ missing \in M /\ q.maxPasses \in Q
    BY <1>1
  <2> QED
    BY <1>7, <2>1 DEF SameTails
<1> QED
  BY <1>3, <1>8, AddDef DEF missing

-----------------------------------------------------------------------------
(***************************************************************************)
(* The lowest throws.                                                      *)
(***************************************************************************)

\* An injective function of a finite set into itself reaches all of it.
LEMMA InjectiveIsBijective ==
    ASSUME NEW S, IsFiniteSet(S), NEW f \in [S -> S], \A x, y \in S : f[x] = f[y] => x = y
    PROVE  f \in Bijection(S, S) /\ \A y \in S : \E x \in S : f[x] = y
<1>1. f \in Injection(S, S)
  BY DEF Injection, IsInjective
<1>2. f \in Surjection(S, S)
  BY <1>1, FS_Injection
<1> QED
  BY <1>1, <1>2 DEF Bijection, Surjection

LEMMA BijectionIs ==
    ASSUME NEW S, NEW f \in Bijection(S, S)
    PROVE  /\ f \in [S -> S] /\ \A x, y \in S : f[x] = f[y] => x = y
           /\ \A y \in S : \E x \in S : f[x] = y
BY DEF Bijection, Injection, Surjection, IsInjective

LEMMA LowestThrow ==
    ASSUME NEW P \in Nat \ {0}, NEW m \in Int, m < P, -P < m
    PROVE  \E c \in {0, 1} : /\ SubtractUntilNonPositive(m, P) = m - P * c
                             /\ SubtractUntilNonPositive(m, P) \in Int
                             /\ -P < SubtractUntilNonPositive(m, P)
                             /\ SubtractUntilNonPositive(m, P) <= 0
<1>1. CASE m <= 0
  <2>1. SubtractUntilNonPositive(m, P) = m /\ P * 0 = 0
    BY <1>1 DEF SubtractUntilNonPositive
  <2> QED
    BY <1>1, <2>1
<1>2. CASE ~(m <= 0)
  <2>1. m + P - 1 = P * 1 + (m - 1) /\ m - 1 \in 0 .. P - 1 /\ m + P - 1 \in Int
    BY <1>2
  <2>2. (m + P - 1) \div P = 1
    BY <2>1, DivModUnique
  <2>3. SubtractUntilNonPositive(m, P) = m - P /\ P * 1 = P
    BY <1>2, <2>2 DEF SubtractUntilNonPositive
  <2> QED
    BY <1>2, <2>3
<1> QED
  BY <1>1, <1>2

\* base is below the landing sites by c periods; c is 0 or 1 at every beat.
Below(q, sites, base, c) ==
    /\ base \in [Beats(q) -> Int] /\ c \in [Beats(q) -> {0, 1}]
    /\ \A i \in Beats(q) : /\ base[i] = sites[i] - i - q.period * c[i]
                           /\ -q.period < base[i] /\ base[i] <= 0

LEMMA BeatsAre ==
    ASSUME NEW q, GoodQuery(q)
    PROVE  /\ Beats(q) = 1 .. q.period /\ IsFiniteSet(Beats(q)) /\ q.period \in Nat \ {0}
           /\ Cardinality(Beats(q)) = q.period
           /\ Jugglers(q) \in Nat \ {0, 1} /\ q.period \in Int /\ Beats(q) \subseteq Nat
<1>1. q.period \in Nat \ {0} /\ Jugglers(q) \in Nat \ {0, 1}
  BY DEF GoodQuery, Jugglers
<1>2. IsFiniteSet(1 .. q.period) /\ Cardinality(1 .. q.period) = q.period
  <2>1. 1 \in Int /\ q.period \in Int
    BY <1>1
  <2>2. IsFiniteSet(1 .. q.period) /\ Cardinality(1 .. q.period) = IF 1 > q.period THEN 0 ELSE q.period - 1 + 1
    BY <2>1, FS_Interval
  <2> QED
    BY <1>1, <2>2
<1> QED
  BY <1>1, <1>2 DEF Beats

LEMMA LowestThrows ==
    ASSUME NEW q, GoodQuery(q), NEW sites \in Bijection(Beats(q), Beats(q))
    PROVE  \E c : Below(q, sites, LandingSites2Pattern(q, sites), c)
<1> DEFINE B == Beats(q)
           P == q.period
           base == LandingSites2Pattern(q, sites)
           Is(i, c) == base[i] = sites[i] - i - P * c /\ base[i] \in Int
                       /\ -P < base[i] /\ base[i] <= 0
           c == [i \in B |-> CHOOSE c \in {0, 1} : Is(i, c)]
<1>1. B = 1 .. P /\ P \in Nat \ {0}
  BY BeatsAre
<1>2. sites \in [B -> B]
  BY BijectionIs
<1>3. base = [i \in B |-> SubtractUntilNonPositive(sites[i] - i, P)]
  BY DEF LandingSites2Pattern
<1>4. ASSUME NEW i \in B PROVE \E d \in {0, 1} : Is(i, d)
  <2>1. sites[i] - i \in Int /\ sites[i] - i < P /\ -P < sites[i] - i
    <3>1. sites[i] \in 1 .. P /\ i \in 1 .. P
      BY <1>1, <1>2
    <3> QED
      BY <1>1, <3>1
  <2>2. base[i] = SubtractUntilNonPositive(sites[i] - i, P)
    BY <1>3
  <2> HIDE DEF base
  <2> QED
    BY <1>1, <2>1, <2>2, LowestThrow
<1>5. \A i \in B : c[i] \in {0, 1} /\ Is(i, c[i])
  <2> HIDE DEF Is, base
  <2> QED
    BY <1>4
<1> HIDE DEF base
<1>6. base \in [B -> Int]
  <2>1. base = [i \in B |-> base[i]]
    BY <1>3
  <2> HIDE DEF c
  <2> QED
    BY <1>5, <2>1
<1>7. c \in [B -> {0, 1}]
  BY <1>5
<1> HIDE DEF c
<1>8. Below(q, sites, base, c)
  BY <1>5, <1>6, <1>7 DEF Below
<1> QED
  BY <1>8 DEF base

\* The lowest throws hold as many objects less than none as they are below their
\* landing sites, in jugglers times the period.
LEMMA ObjectsBelow ==
    ASSUME NEW q, GoodQuery(q), NEW sites \in Bijection(Beats(q), Beats(q)),
           NEW base, NEW c, Below(q, sites, base, c)
    PROVE  /\ Sum(c, Beats(q)) \in Nat
           /\ Sum(base, Beats(q)) = -(q.period * Sum(c, Beats(q)))
           /\ Objects(q, base) = -(Jugglers(q) * Sum(c, Beats(q)))
<1> DEFINE B == Beats(q)
           P == q.period
           j == Jugglers(q)
           id == [i \in B |-> i]
           d == [i \in B |-> sites[i] - i]
           pc == [i \in B |-> P * c[i]]
<1>1. B \subseteq Nat /\ IsFiniteSet(B) /\ P \in Nat \ {0} /\ j \in Nat \ {0, 1}
  BY BeatsAre
<1> HIDE DEF B
<1>2. /\ sites \in [B -> B] /\ \A x, y \in B : sites[x] = sites[y] => x = y
      /\ \A y \in B : \E x \in B : sites[x] = y
  BY BijectionIs DEF B
<1>3. /\ base \in [B -> Int] /\ c \in [B -> {0, 1}]
      /\ \A i \in B : base[i] = sites[i] - i - P * c[i]
  BY DEF Below, B
<1>0. \A i \in B : i \in Nat /\ i \in Int /\ sites[i] \in B /\ sites[i] \in Int
  <2>1. \A i \in B : sites[i] \in B
    BY <1>2
  <2>2. \A i \in B : i \in Nat /\ i \in Int
    BY <1>1
  <2> QED
    BY <2>1, <2>2
<1>4. Sum(id, B) = Sum(sites, B)
  <2>1. \A i \in B : sites[i] \in B
    BY <1>2
  <2>2. \A i \in B : id[sites[i]] \in Int /\ sites[i] = id[sites[i]]
    BY <1>0, <1>2
  <2> HIDE DEF id
  <2> QED
    <3>1. IsFiniteSet(B)
      BY <1>1
    <3>2. \A x, y \in B : sites[x] = sites[y] => x = y
      BY <1>2
    <3>3. \A y \in B : \E x \in B : sites[x] = y
      BY <1>2
    <3>4. \A i \in B : id[sites[i]] \in Int
      BY <2>2
    <3>5. \A i \in B : sites[i] = id[sites[i]]
      BY <2>2
    <3> HIDE DEF B
    <3>6. Matches(sites, B, sites, B, id)
      BY <3>2, <3>3, <3>4, <3>5, <2>1 DEF Matches
    <3> QED
      BY <3>1, <3>6, SumImage
<1>5. Sum(sites, B) = Sum(d, B) + Sum(id, B)
  <2>1. \A i \in B : d[i] \in Int /\ id[i] \in Int /\ sites[i] = d[i] + id[i]
    BY <1>0, <1>2
  <2> HIDE DEF d, id
  <2> QED
    BY <1>1, <2>1, SumPlus
<1>6. Sum(d, B) = 0
  <2>1. \A i \in B : d[i] \in Int /\ id[i] \in Int
    BY <1>0, <1>2
  <2> HIDE DEF d, id
  <2>2. Sum(d, B) \in Int /\ Sum(id, B) \in Int
    BY <1>1, <2>1, SumInt
  <2> QED
    BY <1>4, <1>5, <2>2
<1>7. \A i \in B : base[i] \in Int /\ pc[i] \in Int /\ c[i] \in Int /\ c[i] \in Nat /\ d[i] = base[i] + pc[i]
  <2>1. \A i \in B : base[i] \in Int /\ c[i] \in {0, 1}
    BY <1>3
  <2> QED
    BY <1>0, <1>1, <1>3, <2>1
<1>8. Sum(d, B) = Sum(base, B) + Sum(pc, B)
  <2> HIDE DEF d, pc
  <2> QED
    BY <1>1, <1>7, SumPlus
<1>9. Sum(pc, B) = P * Sum(c, B)
  <2>1. \A i \in B : c[i] \in Int /\ pc[i] = P * c[i]
    BY <1>7
  <2>2. P \in Int
    BY <1>1
  <2> HIDE DEF pc, P
  <2> QED
    BY <1>1, <2>1, <2>2, SumTimes
<1>10. Sum(c, B) \in Nat /\ Sum(base, B) \in Int
  BY <1>1, <1>7, SumNat, SumInt
<1>11. Sum(base, B) = -(P * Sum(c, B))
  <2>1. P * Sum(c, B) \in Int
    BY <1>1, <1>10
  <2> QED
    BY <1>6, <1>8, <1>9, <1>10, <2>1
<1>12. Objects(q, base) = (j * Sum(base, B)) \div P
  BY DEF Objects, Sum, B
<1>13. (j * Sum(base, B)) \div P = -(j * Sum(c, B))
  <2>1. PICK C \in Nat : C = Sum(c, B)
    BY <1>10
  <2>2. j * (-(P * C)) = P * (-(j * C)) + 0 /\ j * (-(P * C)) \in Int /\ -(j * C) \in Int
        /\ 0 \in 0 .. P - 1
    BY <1>1
  <2>3. PICK a \in Int, k \in Int : a = j * (-(P * C)) /\ k = -(j * C) /\ a = P * k + 0
    BY <2>2
  <2>4. a \div P = k
    BY <1>1, <2>2, <2>3, DivModUnique
  <2> QED
    BY <1>11, <2>1, <2>3, <2>4
<1> QED
  BY <1>10, <1>11, <1>12, <1>13 DEF B

-----------------------------------------------------------------------------
(***************************************************************************)
(* The throws.                                                             *)
(***************************************************************************)

\* A throw that lands L beats later, but for what the pass is shifted.
LandsAfter(q, t, L) ==
    /\ t.height = Jugglers(q) * L + q.period * t.pass
    /\ t.siteswap = IF t.pass = 0 THEN L ELSE L + q.period

AllowedHeight(q, height, pass) ==
    ((height = 0 /\ pass = 0) \/ height >= Jugglers(q)) /\ height <= q.others.maxHeight * Jugglers(q)

GoodTosses(q) ==
    {t \in [height : Int, pass : 0 .. Jugglers(q) - 1, siteswap : Int] :
        AllowedHeight(q, t.height, t.pass) /\ \E L \in Int : LandsAfter(q, t, L)}

LEMMA LiftIs ==
    ASSUME NEW q, GoodQuery(q), NEW lowest \in Int, NEW n \in Nat
    PROVE  /\ Lift(q, lowest, n).pass = n % Jugglers(q)
           /\ Lift(q, lowest, n).height = lowest * Jugglers(q) + n * q.period
           /\ LandsAfter(q, Lift(q, lowest, n), lowest + q.period * (n \div Jugglers(q)))
           /\ Lift(q, lowest, n) \in [height : Int, pass : 0 .. Jugglers(q) - 1, siteswap : Int]
           /\ CanLift(q, lowest, n) <=>
                AllowedHeight(q, Lift(q, lowest, n).height, n % Jugglers(q))
<1> DEFINE jj == Jugglers(q)
           PP == q.period
<1>0. PICK j \in Nat \ {0, 1}, P \in Nat \ {0} : j = jj /\ P = PP
  BY BeatsAre
<1>2. PICK k \in Nat, pass \in 0 .. j - 1 : k = n \div j /\ pass = n % j /\ n = j * k + pass
  <2>1. n \div j \in Nat
    OBVIOUS
  <2>2. n \in Int
    OBVIOUS
  <2> QED
    BY <2>1, <2>2, DivMod
<1>1. PICK L \in Int : L = lowest + P * k
  OBVIOUS
<1>3. PICK h \in Int : h = lowest * j + n * P /\ h = j * L + P * pass
  <2>1. n = j * k + pass /\ pass \in Int
    BY <1>2
  <2>2. (j * k) * P = j * (P * k)
    OBVIOUS
  <2>3. n * P = (j * k) * P + pass * P
    BY <2>1
  <2>4. j * L = j * lowest + j * (P * k)
    BY <1>1
  <2>5. lowest * j = j * lowest /\ pass * P = P * pass /\ lowest * j \in Int /\ pass * P \in Int
        /\ j * (P * k) \in Int /\ j * L \in Int
    BY <2>1
  <2> QED
    BY <2>2, <2>3, <2>4, <2>5
<1>4. PICK o : o = h + IF pass = 0 THEN 0 ELSE (j - pass) * P
  OBVIOUS
<1>5. o \div j = IF pass = 0 THEN L ELSE L + P
  <2>0. pass \in 0 .. j - 1 /\ pass \in Int
    OBVIOUS
  <2>1. CASE pass = 0
    <3>1. P * 0 = 0 /\ j * L \in Int
      OBVIOUS
    <3>2. o = j * L + 0 /\ 0 \in 0 .. j - 1 /\ o \in Int
      BY <1>3, <1>4, <2>1, <3>1
    <3> QED
      BY <2>1, <3>2, DivModUnique
  <2>2. CASE pass # 0
    <3>1. (j - pass) * P = j * P - P * pass /\ j * (L + P) = j * L + j * P
          /\ j * P \in Int /\ P * pass \in Int /\ j * L \in Int
      BY <2>0
    <3>2. o = j * (L + P) + 0 /\ 0 \in 0 .. j - 1 /\ o \in Int /\ L + P \in Int
      BY <1>3, <1>4, <2>2, <3>1
    <3>3. o \div j = L + P
      BY <3>2, DivModUnique
    <3> QED
      BY <2>2, <3>3
  <2> QED
    BY <2>1, <2>2
<1>6. Lift(q, lowest, n) = Toss(h, pass, o \div j)
  BY <1>0, <1>2, <1>3, <1>4 DEF Lift
<1>7. /\ Lift(q, lowest, n).height = h /\ Lift(q, lowest, n).pass = pass
      /\ Lift(q, lowest, n).siteswap = o \div j
  BY <1>6 DEF Toss
<1>8. LandsAfter(q, Lift(q, lowest, n), L)
  BY <1>0, <1>3, <1>5, <1>7 DEF LandsAfter
<1>9. CanLift(q, lowest, n) <=> AllowedHeight(q, h, pass)
  BY <1>0, <1>2, <1>3 DEF CanLift, AllowedHeight
<1>10. Lift(q, lowest, n) \in [height : Int, pass : 0 .. jj - 1, siteswap : Int]
  <2>1. o \div j \in Int
    BY <1>5
  <2>2. Lift(q, lowest, n) = [height |-> h, pass |-> pass, siteswap |-> o \div j]
    BY <1>6 DEF Toss
  <2>3. pass \in 0 .. jj - 1
    BY <1>0
  <2> QED
    BY <2>1, <2>2, <2>3
<1> QED
  BY <1>0, <1>1, <1>2, <1>3, <1>7, <1>8, <1>9, <1>10

LEMMA LandsAtIs ==
    ASSUME NEW q, GoodQuery(q), NEW i \in Int, NEW t, t.pass \in Int, NEW L \in Int,
           t.height = Jugglers(q) * L + q.period * t.pass
    PROVE  LandsAt(q, i, t) = (i + L) % q.period /\ (t.height - t.pass * q.period) \div Jugglers(q) = L
           /\ (t.height - t.pass * q.period) % Jugglers(q) = 0
<1>0. PICK j \in Nat \ {0, 1}, P \in Nat \ {0} : j = Jugglers(q) /\ P = q.period
  BY BeatsAre
<1>1. PICK p \in Int : p = t.pass
  OBVIOUS
<1>2. t.height - t.pass * q.period = j * L
  <2>1. P * p = p * P /\ P * p \in Int /\ j * L \in Int
    OBVIOUS
  <2> QED
    BY <1>0, <1>1, <2>1
<1>3. PICK x \in Int : x = j * L + 0 /\ x = j * L
  OBVIOUS
<1>4. 0 \in 0 .. j - 1
  OBVIOUS
<1>5. x \div j = L /\ x % j = 0
  BY <1>3, <1>4, DivModUnique
<1> QED
  BY <1>0, <1>2, <1>3, <1>5 DEF LandsAt

-----------------------------------------------------------------------------
(***************************************************************************)
(* What the search finds, before it is rotated.                            *)
(***************************************************************************)

Heights(f) == [i \in DOMAIN f |-> f[i].height]

\* The passing patterns, with the siteswaps that the program reports.
Patterns(q) ==
    {f \in [Beats(q) -> GoodTosses(q)] :
        /\ Sum(Heights(f), Beats(q)) = q.others.objects * q.period
        /\ \A i, k \in Beats(q) : LandsAt(q, i, f[i]) = LandsAt(q, k, f[k]) => i = k}

LEMMA SameBeat ==
    ASSUME NEW P \in Nat \ {0}, NEW x \in 1 .. P, NEW y \in 1 .. P, x % P = y % P
    PROVE  x = y
<1>0. x \in Int /\ y \in Int
  OBVIOUS
<1>1. PICK k \in Int : x = y + P * k
  BY <1>0, ModuloSame
<1>2. P * k < P * 1 /\ P * (-1) < P * k
  <2>1. P * k = x - y /\ P * 1 = P /\ P * (-1) = -P
    BY <1>1
  <2> QED
    BY <2>1
<1>3. k < 1 /\ -1 < k
  <2>1. k \in Int /\ 1 \in Int /\ -1 \in Int
    OBVIOUS
  <2> QED
    BY <1>2, <2>1, Products
<1>4. k = 0
  BY <1>3
<1>5. P * 0 = 0
  OBVIOUS
<1> QED
  BY <1>1, <1>4, <1>5

\* What the beats are raised by, in all, is what gives the pattern its objects.
LEMMA HeightsRaised ==
    ASSUME NEW q, GoodQuery(q), NEW sites \in Bijection(Beats(q), Beats(q)), NEW base, NEW c,
           Below(q, sites, base, c), NEW nn \in [Beats(q) -> Nat], NEW h,
           \A i \in Beats(q) : h[i] = base[i] * Jugglers(q) + nn[i] * q.period
    PROVE  /\ q.others.objects - Objects(q, base) \in Nat
           /\ Sum(h, Beats(q)) = q.others.objects * q.period
                <=> Sum(nn, Beats(q)) = q.others.objects - Objects(q, base)
<1>0. PICK j \in Nat \ {0, 1}, P \in Nat \ {0} :
          j = Jugglers(q) /\ P = q.period /\ j \in Int /\ P \in Int
  BY BeatsAre
<1> DEFINE B == Beats(q)
           hb == [i \in B |-> j * base[i]]
           hn == [i \in B |-> P * nn[i]]
<1>1. IsFiniteSet(B)
  BY BeatsAre
<1>2. /\ Sum(c, B) \in Nat
      /\ Sum(base, B) = -(P * Sum(c, B))
      /\ Objects(q, base) = -(j * Sum(c, B))
  BY <1>0, ObjectsBelow
<1>3. PICK C \in Nat, o \in Nat : C = Sum(c, B) /\ o = q.others.objects
  BY <1>2 DEF GoodQuery
<1> HIDE DEF B
<1>4. \A i \in B : base[i] \in Int /\ nn[i] \in Nat /\ nn[i] \in Int
  BY DEF Below, B
<1>5. \A i \in B : /\ hb[i] \in Int /\ hn[i] \in Int /\ h[i] = hb[i] + hn[i]
                   /\ hb[i] = j * base[i] /\ hn[i] = P * nn[i]
  BY <1>0, <1>4 DEF B
<1> HIDE DEF hb, hn
<1>6. Sum(h, B) = Sum(hb, B) + Sum(hn, B)
  BY <1>1, <1>5, SumPlus
<1>7. Sum(hb, B) = j * Sum(base, B)
  BY <1>0, <1>1, <1>4, <1>5, SumTimes
<1>8. Sum(hn, B) = P * Sum(nn, B)
  BY <1>0, <1>1, <1>4, <1>5, SumTimes
<1>9. PICK N \in Nat : N = Sum(nn, B)
  BY <1>1, <1>4, SumNat
<1>10. Objects(q, base) = -(j * C) /\ j * C \in Nat
  BY <1>2, <1>3
<1>11. Sum(h, B) = P * N - P * (j * C)
  <2>1. Sum(h, B) = j * (-(P * C)) + P * N
    BY <1>2, <1>3, <1>6, <1>7, <1>8, <1>9
  <2>2. j * (-(P * C)) = -(P * (j * C)) /\ P * N \in Int /\ P * (j * C) \in Int
    OBVIOUS
  <2> QED
    BY <2>1, <2>2
<1>12. PICK m \in Int : m = j * C
  BY <1>10
<1>13. o * P = P * N - P * m <=> N = o + m
  <2>1. P * (N - m) = P * N - P * m /\ N - m \in Int /\ o \in Int /\ o * P = P * o
    OBVIOUS
  <2>2. P * (N - m) = P * o <=> N - m = o
    BY <2>1, Products
  <2> QED
    BY <2>1, <2>2
<1> QED
  BY <1>0, <1>3, <1>9, <1>10, <1>11, <1>12, <1>13 DEF B

LEMMA TailFromOne ==
    ASSUME NEW q, GoodQuery(q), NEW base, NEW nn
    PROVE  Tail0(q, base, 1, nn) = [i \in Beats(q) |-> Lift(q, base[i], nn[i])]
<1>1. q.period \in Nat /\ q.period + 1 - 1 = q.period
  BY DEF GoodQuery
<1>2. \A x \in 1 .. q.period : x + 1 - 1 = x
  BY <1>1
<1> QED
  BY <1>1, <1>2 DEF Tail0, Beats

LEMMA FoundSound ==
    ASSUME NEW q, GoodQuery(q), NEW sites \in Bijection(Beats(q), Beats(q)),
           NEW f \in AddObjects(q, LandingSites2Pattern(q, sites))
    PROVE  f \in Patterns(q) /\ AmountOfPasses(f) <= q.maxPasses
<1>0. PICK j \in Nat \ {0, 1}, P \in Nat \ {0} :
          j = Jugglers(q) /\ P = q.period /\ j \in Int /\ P \in Int
  BY BeatsAre
<1> DEFINE B == Beats(q)
           base == LandingSites2Pattern(q, sites)
           missing == q.others.objects - Objects(q, base)
<1>1. B = 1 .. P
  BY <1>0, BeatsAre
<1>2. PICK c : Below(q, sites, base, c)
  BY LowestThrows
<1> HIDE DEF base
<1>3. missing \in Nat
  <2> DEFINE nn == [i \in B |-> 0]
             h == [i \in B |-> base[i] * Jugglers(q) + nn[i] * q.period]
  <2>1. nn \in [B -> Nat] /\ \A i \in B : h[i] = base[i] * Jugglers(q) + nn[i] * q.period
    OBVIOUS
  <2> HIDE DEF nn, h
  <2> QED
    BY <1>2, <2>1, HeightsRaised
<1>4. PICK nn \in [B -> Nat] : Fits(q, base, 1, nn, missing, q.maxPasses) /\ f = Tail0(q, base, 1, nn)
  <2>1. f \in Tails(q, base, 1, missing, q.maxPasses)
    BY <1>3, AddObjectsIs DEF base
  <2>2. B = 1 .. q.period
    BY <1>0, <1>1
  <2> HIDE DEF missing, B
  <2> QED
    BY <2>1, <2>2 DEF Tails
<1>5. f = [i \in B |-> Lift(q, base[i], nn[i])]
  BY <1>4, TailFromOne
<1>6. \A i \in B : CanLift(q, base[i], nn[i])
  BY <1>0, <1>1, <1>4 DEF Fits
<1>7. ASSUME NEW i \in B
      PROVE  /\ f[i].pass = nn[i] % j /\ f[i].pass \in Int
             /\ f[i].height = base[i] * j + nn[i] * P
             /\ f[i] \in GoodTosses(q)
             /\ LandsAt(q, i, f[i]) = sites[i] % P
  <2>1. i \in Int /\ base[i] \in Int /\ c[i] \in Int /\ sites[i] \in Int
        /\ base[i] = sites[i] - i - P * c[i]
    <3>1. i \in 1 .. P /\ sites[i] \in 1 .. P
      BY <1>1, BijectionIs
    <3>2. base[i] \in Int /\ c[i] \in {0, 1} /\ base[i] = sites[i] - i - P * c[i]
      BY <1>0, <1>2 DEF Below
    <3> QED
      BY <3>1, <3>2
  <2>2. PICK k \in Nat, pass \in 0 .. j - 1 : k = nn[i] \div j /\ pass = nn[i] % j
    <3>1. nn[i] \in Nat /\ nn[i] \in Int
      BY <1>4
    <3>2. nn[i] \div j \in Nat
      BY <3>1
    <3> QED
      BY <3>1, <3>2, DivMod
  <2>3. PICK t : t = Lift(q, base[i], nn[i]) /\ t = f[i]
    BY <1>5
  <2>4. /\ nn[i] % j = pass /\ t.pass = pass
        /\ t.height = base[i] * j + nn[i] * P
        /\ LandsAfter(q, t, base[i] + P * k)
        /\ t \in [height : Int, pass : 0 .. j - 1, siteswap : Int]
        /\ AllowedHeight(q, t.height, pass)
    <3>1. PICK b \in Int, n \in Nat : b = base[i] /\ n = nn[i]
      BY <1>4, <2>1
    <3>2. /\ Lift(q, b, n).pass = n % Jugglers(q)
          /\ Lift(q, b, n).height = b * Jugglers(q) + n * q.period
          /\ LandsAfter(q, Lift(q, b, n), b + q.period * (n \div Jugglers(q)))
          /\ Lift(q, b, n) \in [height : Int, pass : 0 .. Jugglers(q) - 1, siteswap : Int]
          /\ CanLift(q, b, n) <=> AllowedHeight(q, Lift(q, b, n).height, n % Jugglers(q))
      BY LiftIs
    <3> QED
      BY <1>0, <1>6, <2>2, <2>3, <3>1, <3>2
  <2>5. PICK L \in Int : L = base[i] + P * k
    BY <2>1
  <2>6. t \in GoodTosses(q)
    BY <1>0, <2>4, <2>5 DEF GoodTosses
  <2>7. LandsAt(q, i, t) = (i + L) % P
    <3>1. t.height = Jugglers(q) * L + q.period * t.pass /\ t.pass \in Int
      BY <2>4, <2>5 DEF LandsAfter
    <3> QED
      BY <1>0, <2>1, <3>1, LandsAtIs
  <2>8. (i + L) % P = sites[i] % P
    <3>1. PICK s \in Int, d \in Int, x \in Int : s = sites[i] /\ d = c[i] /\ x = i
      BY <2>1
    <3>2. PICK e \in Int : e = k - d
      OBVIOUS
    <3>3. x + L = s + P * e
      <4>1. P * (k - d) = P * k - P * d /\ P * k \in Int /\ P * d \in Int
        OBVIOUS
      <4> QED
        BY <2>1, <2>5, <3>1, <3>2, <4>1
    <3>4. (s + P * e) % P = s % P
      BY SameModulo
    <3> QED
      BY <3>1, <3>3, <3>4
  <2> QED
    BY <2>3, <2>4, <2>6, <2>7, <2>8
<1>8. f \in [B -> GoodTosses(q)]
  BY <1>5, <1>7
<1>9. Sum(Heights(f), B) = q.others.objects * q.period
  <2>1. DOMAIN f = B
    BY <1>8
  <2>2. \A i \in B : Heights(f)[i] = base[i] * Jugglers(q) + nn[i] * q.period
    BY <1>0, <1>7, <2>1 DEF Heights
  <2>3. Sum(nn, B) = missing
    BY <1>0, <1>1, <1>4 DEF Fits
  <2> QED
    BY <1>2, <2>2, <2>3, HeightsRaised
<1>10. ASSUME NEW i \in B, NEW k \in B, LandsAt(q, i, f[i]) = LandsAt(q, k, f[k]) PROVE i = k
  <2>1. sites[i] % P = sites[k] % P
    BY <1>7, <1>10
  <2>2. sites[i] \in 1 .. P /\ sites[k] \in 1 .. P
    <3>1. sites \in [B -> B]
      BY BijectionIs
    <3> QED
      BY <1>1, <1>10, <3>1
  <2>3. sites[i] = sites[k]
    BY <2>1, <2>2, SameBeat
  <2> QED
    BY <1>10, <2>3, BijectionIs
<1>11. AmountOfPasses(f) <= q.maxPasses
  <2>1. {i \in DOMAIN f : f[i].pass > 0} = {k \in 1 .. q.period : nn[k] % Jugglers(q) > 0}
    BY <1>0, <1>1, <1>7, <1>8
  <2> QED
    BY <1>4, <2>1 DEF AmountOfPasses, Fits
<1> QED
  BY <1>8, <1>9, <1>10, <1>11 DEF Patterns

LEMMA LowEnough ==
    ASSUME NEW P \in Nat \ {0}, NEW j \in Nat \ {0}, NEW h \in Nat, NEW pass \in 0 .. j - 1,
           NEW L \in Int, h = j * L + P * pass
    PROVE  -P < L
<1>1. PICK p \in Int, J \in Int : p = pass /\ J = j /\ p < J
  OBVIOUS
<1>2. P * p < P * J
  BY <1>1, Products
<1>3. P * J = -(j * (-P)) /\ j * (-P) \in Int /\ j * L \in Int /\ P * p \in Int
  BY <1>1
<1>4. j * (-P) < j * L
  BY <1>1, <1>2, <1>3
<1>5. -P \in Int
  OBVIOUS
<1> QED
  BY <1>4, <1>5, Products

LEMMA NotLowered ==
    ASSUME NEW P \in Nat \ {0}, NEW L \in Int, NEW b \in Int, b <= 0, -P < L, NEW k \in Int,
           L = b + P * k
    PROVE  k \in Nat
<1>1. P * (-1) < P * k
  <2>1. P * k \in Int /\ P * (-1) = -P
    OBVIOUS
  <2> QED
    BY <2>1
<1>2. -1 < k
  <2>1. -1 \in Int
    OBVIOUS
  <2> QED
    BY <1>1, <2>1, Products
<1> QED
  BY <1>2

LEMMA FoundComplete ==
    ASSUME NEW q, GoodQuery(q), NEW f \in Patterns(q), AmountOfPasses(f) <= q.maxPasses
    PROVE  \E sites \in Bijection(Beats(q), Beats(q)) :
               f \in AddObjects(q, LandingSites2Pattern(q, sites))
<1>0. PICK j \in Nat \ {0, 1}, P \in Nat \ {0} :
          j = Jugglers(q) /\ P = q.period /\ j \in Int /\ P \in Int
  BY BeatsAre
<1> DEFINE B == Beats(q)
           Ls == [i \in B |-> (f[i].height - f[i].pass * q.period) \div Jugglers(q)]
           site(r) == IF r = 0 THEN P ELSE r
           sites == [i \in B |-> site((i + Ls[i]) % P)]
           base == LandingSites2Pattern(q, sites)
           missing == q.others.objects - Objects(q, base)
<1>1. B = 1 .. P /\ IsFiniteSet(B) /\ \A i \in B : i \in Int
  <2>1. B = 1 .. P /\ IsFiniteSet(B)
    BY <1>0, BeatsAre
  <2> QED
    BY <2>1
<1>2. f \in [B -> GoodTosses(q)] /\ DOMAIN f = B
  BY DEF Patterns
<1>3. ASSUME NEW i \in B
      PROVE  /\ f[i] \in [height : Int, pass : 0 .. j - 1, siteswap : Int]
             /\ AllowedHeight(q, f[i].height, f[i].pass)
             /\ Ls[i] \in Int /\ LandsAfter(q, f[i], Ls[i])
             /\ LandsAt(q, i, f[i]) = (i + Ls[i]) % P
  <2>1. PICK t : t = f[i] /\ t \in GoodTosses(q)
    BY <1>2
  <2>2. PICK L \in Int : LandsAfter(q, t, L)
    BY <2>1 DEF GoodTosses
  <2>3. t.pass \in Int /\ t \in [height : Int, pass : 0 .. j - 1, siteswap : Int]
        /\ AllowedHeight(q, t.height, t.pass)
    BY <1>0, <2>1 DEF GoodTosses
  <2>4. PICK x \in Int : x = i
    BY <1>1
  <2>5. LandsAt(q, x, t) = (x + L) % q.period /\ (t.height - t.pass * q.period) \div Jugglers(q) = L
    BY <2>2, <2>3, LandsAtIs DEF LandsAfter
  <2>6. Ls[i] = L
    BY <2>1, <2>5
  <2> QED
    BY <1>0, <2>1, <2>2, <2>3, <2>4, <2>5, <2>6
<1> HIDE DEF Ls
<1>4. ASSUME NEW i \in B
      PROVE  sites[i] \in B /\ sites[i] \in Int /\ sites[i] % P = (i + Ls[i]) % P
  <2>1. PICK a \in Int : a = i + Ls[i]
    BY <1>1, <1>3
  <2>2. PICK r \in 0 .. P - 1 : r = a % P
    OBVIOUS
  <2>3. sites[i] = IF r = 0 THEN P ELSE r
    BY <2>1, <2>2
  <2>4. P % P = 0
    <3>1. P = P * 1 + 0 /\ 0 \in 0 .. P - 1 /\ P \in Int
      OBVIOUS
    <3> QED
      BY <3>1, DivModUnique
  <2>5. r # 0 => r % P = r
    <3>1. r = P * 0 + r /\ r \in Int
      OBVIOUS
    <3> QED
      BY <3>1, DivModUnique
  <2>6. sites[i] \in 1 .. P
    BY <2>3
  <2>7. sites[i] % P = r
    BY <2>3, <2>4, <2>5
  <2> QED
    BY <1>1, <2>1, <2>2, <2>6, <2>7
<1>5. sites \in Bijection(B, B)
  <2>1. sites \in [B -> B]
    <3>1. sites = [i \in B |-> sites[i]]
      OBVIOUS
    <3> HIDE DEF sites
    <3> QED
      BY <1>4, <3>1
  <2>2. ASSUME NEW x \in B, NEW y \in B, sites[x] = sites[y] PROVE x = y
    <3>1. LandsAt(q, x, f[x]) = LandsAt(q, y, f[y])
      <4> HIDE DEF sites
      <4> QED
        BY <1>3, <1>4, <2>2
    <3> QED
      BY <3>1, <2>2 DEF Patterns
  <2> HIDE DEF sites
  <2> QED
    BY <1>1, <2>1, <2>2, InjectiveIsBijective
<1> HIDE DEF sites
<1>6. PICK c : Below(q, sites, base, c)
  BY <1>5, LowestThrows
<1> HIDE DEF base
<1>7. ASSUME NEW i \in B PROVE \E k \in Nat : Ls[i] = base[i] + P * k
  <2>1. PICK b \in Int, s \in Int, d \in Int :
            b = base[i] /\ s = sites[i] /\ d = c[i] /\ b <= 0 /\ b = s - i - P * d
    <3>1. /\ base[i] \in Int /\ c[i] \in {0, 1} /\ base[i] <= 0
          /\ base[i] = sites[i] - i - P * c[i]
      BY <1>0, <1>6 DEF Below
    <3>2. c[i] \in Int
      BY <3>1
    <3> QED
      BY <1>4, <3>1, <3>2
  <2>2. PICK L \in Int, h \in Int, pass \in 0 .. j - 1 :
            L = Ls[i] /\ h = f[i].height /\ pass = f[i].pass /\ h = j * L + P * pass
    <3>1. f[i].height \in Int /\ f[i].pass \in 0 .. j - 1
          /\ f[i].height = j * Ls[i] + P * f[i].pass
      BY <1>0, <1>3 DEF LandsAfter
    <3> QED
      BY <1>3, <3>1
  <2>9. PICK x \in Int : x = i
    BY <1>1
  <2>3. -P < L
    <3>1. h = 0 \/ h >= j
      BY <1>0, <1>3, <2>2 DEF AllowedHeight
    <3>2. h \in Nat
      BY <3>1
    <3> QED
      BY <2>2, <3>2, LowEnough
  <2>4. PICK y \in Int : y = x + L
    OBVIOUS
  <2>5. PICK e \in Int : y = s + P * e
    <3>1. s % P = y % P
      BY <1>4, <2>1, <2>2, <2>4, <2>9
    <3> QED
      BY <3>1, ModuloSame
  <2>6. PICK k \in Int : k = d + e
    OBVIOUS
  <2>7. L = b + P * k
    <3>1. P * k = P * d + P * e /\ P * d \in Int /\ P * e \in Int
      BY <2>6
    <3>2. b = s - x - P * d
      BY <2>1, <2>9
    <3> QED
      BY <2>4, <2>5, <3>1, <3>2
  <2>8. k \in Nat
    BY <2>1, <2>3, <2>7, NotLowered
  <2> QED
    BY <2>1, <2>2, <2>7, <2>8
<1> DEFINE up == [i \in B |-> CHOOSE k \in Nat : Ls[i] = base[i] + P * k]
           nn == [i \in B |-> j * up[i] + f[i].pass]
<1>8. \A i \in B : up[i] \in Nat /\ Ls[i] = base[i] + P * up[i]
  BY <1>7
<1> HIDE DEF up
<1>9. ASSUME NEW i \in B
      PROVE  /\ nn[i] \in Nat /\ nn[i] % j = f[i].pass
             /\ CanLift(q, base[i], nn[i]) /\ Lift(q, base[i], nn[i]) = f[i]
             /\ f[i].height = base[i] * Jugglers(q) + nn[i] * q.period
  <2>1. PICK k \in Nat, pass \in 0 .. j - 1, b \in Int, L \in Int :
            k = up[i] /\ pass = f[i].pass /\ b = base[i] /\ L = Ls[i] /\ L = b + P * k
    <3>1. base[i] \in Int
      BY <1>6 DEF Below
    <3> QED
      BY <1>3, <1>8, <3>1
  <2>2. PICK n \in Int : n = nn[i] /\ n = j * k + pass
    BY <2>1
  <2>3. n \in Nat
    BY <2>2
  <2>4. n % j = pass /\ n \div j = k
    <3>1. k \in Int
      OBVIOUS
    <3> QED
      BY <2>2, <3>1, DivModUnique
  <2>5. PICK t : t = Lift(q, b, n)
    OBVIOUS
  <2>6. /\ t.pass = pass
        /\ t.height = b * Jugglers(q) + n * q.period
        /\ LandsAfter(q, t, b + q.period * k)
        /\ t \in [height : Int, pass : 0 .. Jugglers(q) - 1, siteswap : Int]
        /\ CanLift(q, b, n) <=> AllowedHeight(q, t.height, pass)
    <3>1. /\ Lift(q, b, n).pass = n % Jugglers(q)
          /\ Lift(q, b, n).height = b * Jugglers(q) + n * q.period
          /\ LandsAfter(q, Lift(q, b, n), b + q.period * (n \div Jugglers(q)))
          /\ Lift(q, b, n) \in [height : Int, pass : 0 .. Jugglers(q) - 1, siteswap : Int]
          /\ CanLift(q, b, n) <=> AllowedHeight(q, Lift(q, b, n).height, n % Jugglers(q))
      BY <2>3, LiftIs
    <3> QED
      BY <1>0, <2>4, <2>5, <3>1
  <2>7. LandsAfter(q, t, L) /\ LandsAfter(q, f[i], L)
    BY <1>0, <1>3, <2>1, <2>6
  <2>8. t.height = f[i].height /\ t.pass = f[i].pass /\ t.siteswap = f[i].siteswap
    BY <2>1, <2>6, <2>7 DEF LandsAfter
  <2>9. t = f[i]
    <3>1. f[i] \in [height : Int, pass : 0 .. j - 1, siteswap : Int]
      BY <1>3
    <3>2. t \in [height : Int, pass : 0 .. j - 1, siteswap : Int]
      BY <1>0, <2>6
    <3> QED
      BY <2>8, <3>1, <3>2
  <2> QED
    BY <1>3, <2>1, <2>2, <2>3, <2>4, <2>5, <2>6, <2>8, <2>9
<1>10. nn \in [B -> Nat]
  BY <1>9
<1> HIDE DEF nn
<1>11. missing \in Nat /\ Sum(nn, B) = missing
  <2>1. \A i \in B : Heights(f)[i] = base[i] * Jugglers(q) + nn[i] * q.period
    BY <1>2, <1>9 DEF Heights
  <2>2. Sum(Heights(f), B) = q.others.objects * q.period
    BY DEF Patterns
  <2> HIDE DEF B
  <2> QED
    BY <1>5, <1>6, <1>10, <2>1, <2>2, HeightsRaised DEF B
<1>12. Fits(q, base, 1, nn, missing, q.maxPasses)
  <2>1. {i \in DOMAIN f : f[i].pass > 0} = {k \in 1 .. q.period : nn[k] % Jugglers(q) > 0}
    BY <1>0, <1>1, <1>2, <1>9
  <2>2. Cardinality({k \in 1 .. q.period : nn[k] % Jugglers(q) > 0}) <= q.maxPasses
    BY <2>1 DEF AmountOfPasses
  <2>3. \A k \in 1 .. q.period : CanLift(q, base[k], nn[k])
    BY <1>0, <1>1, <1>9
  <2>4. Sum(nn, 1 .. q.period) = missing
    BY <1>0, <1>1, <1>11
  <2> QED
    BY <2>2, <2>3, <2>4 DEF Fits
<1>13. f = Tail0(q, base, 1, nn)
  <2>1. Tail0(q, base, 1, nn) = [i \in B |-> Lift(q, base[i], nn[i])]
    BY TailFromOne
  <2> QED
    BY <1>2, <1>9, <2>1
<1>14. f \in Tails(q, base, 1, missing, q.maxPasses)
  <2>1. nn \in [1 .. q.period -> Nat]
    BY <1>0, <1>1, <1>10
  <2> QED
    BY <1>12, <1>13, <2>1 DEF Tails
<1>15. f \in AddObjects(q, base)
  BY <1>11, <1>14, AddObjectsIs
<1> QED
  BY <1>5, <1>15 DEF base

-----------------------------------------------------------------------------
(***************************************************************************)
(* Rotations.                                                              *)
(***************************************************************************)

\* The beat that is d beats after beat i of P.
Turn(P, i, d) == ((i - 1 + d) % P) + 1

LEMMA TurnRange ==
    ASSUME NEW P \in Nat, P > 0, NEW i \in Int, NEW d \in Int
    PROVE  Turn(P, i, d) \in 1 .. P
<1>1. PICK a \in Int : a = i - 1 + d
  OBVIOUS
<1>2. P \in Nat \ {0}
  OBVIOUS
<1>3. a % P \in 0 .. P - 1
  BY <1>2, DivMod
<1> QED
  BY <1>1, <1>3 DEF Turn

LEMMA TurnFar ==
    ASSUME NEW P \in Nat, P > 0, NEW i \in Int, NEW d \in Int
    PROVE  \E m \in Int : Turn(P, i, d) = i + d + P * m
<1>1. PICK a \in Int : a = i - 1 + d
  OBVIOUS
<1>0. P \in Nat \ {0}
  OBVIOUS
<1>2. PICK k \in Int, r \in 0 .. P - 1 : a = P * k + r /\ r = a % P
  BY <1>0, DivMod
<1>3. Turn(P, i, d) = r + 1
  BY <1>1, <1>2 DEF Turn
<1>4. PICK m \in Int : m = -k
  OBVIOUS
<1>5. r + 1 = i + d + P * m
  <2>1. P * (-k) = -(P * k) /\ P * k \in Int
    OBVIOUS
  <2> QED
    BY <1>1, <1>2, <1>4, <2>1
<1> QED
  BY <1>3, <1>5

LEMMA TurnUnique ==
    ASSUME NEW P \in Nat, P > 0, NEW i \in Int, NEW d \in Int, NEW x \in Int, x \in 1 .. P,
           NEW m \in Int, x = i + d + P * m
    PROVE  Turn(P, i, d) = x
<1>0. P \in Nat \ {0}
  OBVIOUS
<1>1. PICK k \in Int : Turn(P, i, d) = i + d + P * k
  BY TurnFar
<1>2. PICK y \in Int : y = Turn(P, i, d) /\ y \in 1 .. P
  <2>1. Turn(P, i, d) \in 1 .. P
    BY TurnRange
  <2> QED
    BY <2>1
<1>3. PICK e \in Int : e = m - k
  OBVIOUS
<1>4. x = y + P * e
  <2>1. P * (m - k) = P * m - P * k /\ P * m \in Int /\ P * k \in Int
    OBVIOUS
  <2> QED
    BY <1>1, <1>2, <1>3, <2>1
<1>5. x % P = y % P
  <2>1. (y + P * e) % P = y % P
    BY <1>0, SameModulo
  <2> QED
    BY <1>4, <2>1
<1>6. x = y
  BY <1>0, <1>2, <1>5, SameBeat
<1> QED
  BY <1>2, <1>6

LEMMA TurnTwice ==
    ASSUME NEW P \in Nat, P > 0, NEW i \in Int, NEW d \in Int, NEW e \in Int
    PROVE  Turn(P, Turn(P, i, d), e) = Turn(P, i, d + e)
<1>1. PICK x \in Int : x = Turn(P, i, d)
  BY TurnRange
<1>2. PICK m \in Int : x = i + d + P * m
  BY <1>1, TurnFar
<1>3. PICK y \in Int : y = Turn(P, x, e) /\ y \in 1 .. P
  BY TurnRange
<1>4. PICK k \in Int : y = x + e + P * k
  <2>1. PICK k \in Int : Turn(P, x, e) = x + e + P * k
    BY TurnFar
  <2> QED
    BY <1>3, <2>1
<1>5. PICK n \in Int, c \in Int : n = m + k /\ c = d + e
  OBVIOUS
<1>6. y = i + c + P * n
  <2>1. P * (m + k) = P * m + P * k /\ P * m \in Int /\ P * k \in Int
    OBVIOUS
  <2> QED
    BY <1>2, <1>4, <1>5, <2>1
<1>7. Turn(P, i, c) = y
  BY <1>3, <1>6, TurnUnique
<1> QED
  BY <1>1, <1>3, <1>5, <1>7

LEMMA TurnNone ==
    ASSUME NEW P \in Nat, P > 0, NEW i \in Int, i \in 1 .. P
    PROVE  Turn(P, i, 0) = i
<1>1. 0 \in Int /\ i = i + 0 + P * 0
  OBVIOUS
<1> QED
  BY <1>1, TurnUnique

LEMMA TurnBack ==
    ASSUME NEW P \in Nat, P > 0, NEW i \in Int, i \in 1 .. P, NEW d \in Int
    PROVE  Turn(P, Turn(P, i, d), -d) = i /\ Turn(P, Turn(P, i, -d), d) = i
<1>1. PICK e \in Int : e = -d /\ d + e = 0 /\ e + d = 0
  OBVIOUS
<1>2. Turn(P, Turn(P, i, d), e) = Turn(P, i, d + e) /\ Turn(P, Turn(P, i, e), d) = Turn(P, i, e + d)
  BY TurnTwice
<1> QED
  BY <1>1, <1>2, TurnNone

\* A turn takes no two beats to one.
LEMMA TurnInjective ==
    ASSUME NEW P \in Nat, P > 0, NEW d \in Int, NEW i \in Int, NEW k \in Int,
           i \in 1 .. P, k \in 1 .. P, Turn(P, i, d) = Turn(P, k, d)
    PROVE  i = k
<1>1. Turn(P, Turn(P, i, d), -d) = i /\ Turn(P, Turn(P, k, d), -d) = k
  BY TurnBack
<1> QED
  BY <1>1

\* A turn by d and one by d modulo P are the same.
LEMMA TurnModulo ==
    ASSUME NEW P \in Nat, P > 0, NEW i \in Int, NEW e \in Int, NEW k \in Int
    PROVE  Turn(P, i, P * k + e) = Turn(P, i, e)
<1>0. PICK d \in Int : d = P * k + e
  OBVIOUS
<1>1. PICK y \in Int : y = Turn(P, i, e) /\ y \in 1 .. P
  BY TurnRange
<1>2. PICK m \in Int : y = i + e + P * m
  BY <1>1, TurnFar
<1>3. PICK n \in Int : n = m - k
  OBVIOUS
<1>4. y = i + d + P * n
  <2>1. P * (m - k) = P * m - P * k /\ P * m \in Int /\ P * k \in Int
    OBVIOUS
  <2> QED
    BY <1>0, <1>2, <1>3, <2>1
<1>5. Turn(P, i, d) = y
  BY <1>1, <1>4, TurnUnique
<1> QED
  BY <1>0, <1>1, <1>5

-----------------------------------------------------------------------------
\* A sequence of P elements, at least one.
Cycle(f, P) ==
    /\ P \in Nat /\ P > 0 /\ Len(f) = P /\ DOMAIN f = 1 .. P
    /\ f = [i \in 1 .. P |-> f[i]]

LEMMA CycleOf ==
    ASSUME NEW P \in Nat \ {0}, NEW X, NEW f \in [1 .. P -> X]
    PROVE  Cycle(f, P)
<1>1. f \in Seq(X)
  OBVIOUS
<1>2. Len(f) \in Nat /\ DOMAIN f = 1 .. Len(f) /\ DOMAIN f = 1 .. P
  BY <1>1
<1>3. Len(f) = P
  BY <1>2
<1> QED
  BY <1>2, <1>3 DEF Cycle

LEMMA CycleIs ==
    ASSUME NEW P, NEW f, Cycle(f, P)
    PROVE  P \in Nat /\ P > 0 /\ Len(f) = P /\ DOMAIN f = 1 .. P
BY DEF Cycle

LEMMA SameCycle ==
    ASSUME NEW P, NEW f, NEW g, Cycle(f, P), Cycle(g, P), \A i \in 1 .. P : f[i] = g[i]
    PROVE  f = g
BY DEF Cycle

LEMMA RotateAt ==
    ASSUME NEW P, NEW f, Cycle(f, P), NEW d \in Int, NEW i, i \in 1 .. P
    PROVE  Rotate(f, d)[i] = f[Turn(P, i, d)]
BY DEF Cycle, Rotate, Turn

LEMMA RotateCycle ==
    ASSUME NEW P, NEW f, Cycle(f, P), NEW d \in Int
    PROVE  Cycle(Rotate(f, d), P)
<1> DEFINE g == Rotate(f, d)
           V == {g[i] : i \in 1 .. P}
<1>1. P \in Nat \ {0} /\ DOMAIN f = 1 .. P
  BY DEF Cycle
<1>2. g = [i \in 1 .. P |-> g[i]]
  BY <1>1 DEF Rotate
<1> HIDE DEF g
<1>3. g \in [1 .. P -> V]
  BY <1>2
<1> HIDE DEF V
<1>4. Cycle(g, P)
  BY <1>1, <1>3, CycleOf
<1> QED
  BY <1>4 DEF g

LEMMA RotateTwice ==
    ASSUME NEW P, NEW f, Cycle(f, P), NEW d \in Int, NEW e \in Int
    PROVE  Rotate(Rotate(f, d), e) = Rotate(f, d + e)
<1>1. PICK n \in Nat : n = P /\ n > 0
  BY DEF Cycle
<1>2. PICK c \in Int : c = d + e /\ c = e + d
  OBVIOUS
<1>3. PICK g : g = Rotate(f, d) /\ Cycle(g, n)
  BY <1>1, RotateCycle
<1>4. Cycle(Rotate(g, e), n) /\ Cycle(Rotate(f, c), n)
  BY <1>1, <1>3, RotateCycle
<1>5. ASSUME NEW i \in Int, i \in 1 .. n PROVE Rotate(g, e)[i] = Rotate(f, c)[i]
  <2>1. Rotate(g, e)[i] = g[Turn(n, i, e)]
    BY <1>3, <1>5, RotateAt
  <2>2. PICK x \in Int : x = Turn(n, i, e) /\ x \in 1 .. n
    BY <1>1, TurnRange
  <2>3. g[x] = f[Turn(n, x, d)]
    BY <1>1, <1>3, <2>2, RotateAt
  <2>4. Turn(n, x, d) = Turn(n, i, e + d)
    BY <1>1, <2>2, TurnTwice
  <2>5. Rotate(f, c)[i] = f[Turn(n, i, c)]
    BY <1>1, <1>5, RotateAt
  <2> QED
    BY <1>2, <2>1, <2>2, <2>3, <2>4, <2>5
<1>6. \A i \in 1 .. n : Rotate(g, e)[i] = Rotate(f, c)[i]
  BY <1>5
<1>7. Rotate(g, e) = Rotate(f, c)
  BY <1>4, <1>6, SameCycle
<1> QED
  BY <1>2, <1>3, <1>7

LEMMA RotateNone ==
    ASSUME NEW P, NEW f, Cycle(f, P)
    PROVE  Rotate(f, 0) = f
<1>1. PICK n \in Nat : n = P /\ n > 0
  BY DEF Cycle
<1>2. 0 \in Int /\ Cycle(f, n)
  BY <1>1
<1>3. Cycle(Rotate(f, 0), n)
  BY <1>2, RotateCycle
<1>4. ASSUME NEW i \in Int, i \in 1 .. n PROVE Rotate(f, 0)[i] = f[i]
  BY <1>1, <1>2, <1>4, RotateAt, TurnNone
<1>5. \A i \in 1 .. n : Rotate(f, 0)[i] = f[i]
  BY <1>4
<1> QED
  BY <1>2, <1>3, <1>5, SameCycle

LEMMA RotatedBy ==
    ASSUME NEW P, NEW f, Cycle(f, P), NEW g \in Rotations(f)
    PROVE  \E d \in Int : g = Rotate(f, d)
<1>1. Len(f) = P /\ P \in Nat
  BY DEF Cycle
<1>2. PICK e \in 0 .. Len(f) - 1 : g = Rotate(f, e)
  BY DEF Rotations
<1>3. e \in Int
  BY <1>1
<1> QED
  BY <1>2, <1>3

\* Whatever the number of beats, a rotation is one of the Rotations.
LEMMA RotationOf ==
    ASSUME NEW P, NEW f, Cycle(f, P), NEW d \in Int
    PROVE  Rotate(f, d) \in Rotations(f)
<1>1. PICK n \in Nat : n = P /\ n > 0 /\ Cycle(f, n) /\ n \in Nat \ {0}
  BY DEF Cycle
<1>2. PICK e \in Int, k \in Int : e \in 0 .. n - 1 /\ d = n * k + e
  <2>1. /\ d = n * (d \div n) + (d % n) /\ d \div n \in Int /\ d % n \in 0 .. n - 1
    BY <1>1, DivMod
  <2>2. PICK e \in Int, k \in Int : e = d % n /\ k = d \div n
    BY <2>1
  <2> QED
    BY <2>1, <2>2
<1>3. Cycle(Rotate(f, e), n) /\ Cycle(Rotate(f, d), n)
  BY <1>1, RotateCycle
<1>4. ASSUME NEW i \in Int, i \in 1 .. n PROVE Rotate(f, e)[i] = Rotate(f, d)[i]
  <2>1. Rotate(f, e)[i] = f[Turn(n, i, e)] /\ Rotate(f, d)[i] = f[Turn(n, i, d)]
    BY <1>1, <1>4, RotateAt
  <2>2. Turn(n, i, d) = Turn(n, i, e)
    <3>1. Turn(n, i, n * k + e) = Turn(n, i, e)
      BY <1>1, TurnModulo
    <3> QED
      BY <1>2, <3>1
  <2> QED
    BY <2>1, <2>2
<1>5. \A i \in 1 .. n : Rotate(f, e)[i] = Rotate(f, d)[i]
  BY <1>4
<1>6. Rotate(f, e) = Rotate(f, d)
  BY <1>3, <1>5, SameCycle
<1>7. Len(f) = n
  BY <1>1 DEF Cycle
<1> QED
  BY <1>2, <1>6, <1>7 DEF Rotations

\* A pattern is a rotation of itself, and of each of its rotations, which all
\* have the same rotations.
LEMMA RotationsSame ==
    ASSUME NEW P, NEW f, Cycle(f, P), NEW g \in Rotations(f)
    PROVE  Cycle(g, P) /\ f \in Rotations(f) /\ f \in Rotations(g) /\ Rotations(g) = Rotations(f)
<1>1. PICK e \in Int : g = Rotate(f, e)
  BY RotatedBy
<1>2. Cycle(g, P)
  BY <1>1, RotateCycle
<1>3. \A c \in Int : Rotate(g, c) = Rotate(f, e + c)
  BY <1>1, RotateTwice
<1>4. ASSUME NEW h, h \in Rotations(g) PROVE h \in Rotations(f)
  <2>1. PICK c \in Int : h = Rotate(g, c)
    BY <1>2, <1>4, RotatedBy
  <2>2. PICK a \in Int : a = e + c
    OBVIOUS
  <2> QED
    BY <1>3, <2>1, <2>2, RotationOf
<1>5. ASSUME NEW h, h \in Rotations(f) PROVE h \in Rotations(g)
  <2>1. PICK c \in Int : h = Rotate(f, c)
    BY <1>5, RotatedBy
  <2>2. PICK a \in Int : a = c - e /\ e + a = c
    OBVIOUS
  <2>3. h = Rotate(g, a)
    BY <1>3, <2>1, <2>2
  <2> QED
    BY <1>2, <2>3, RotationOf
<1>6. f \in Rotations(f)
  <2>1. 0 \in Int
    OBVIOUS
  <2> QED
    BY <2>1, RotateNone, RotationOf
<1> QED
  BY <1>2, <1>4, <1>5, <1>6

-----------------------------------------------------------------------------
(***************************************************************************)
(* Patterns and their rotations.                                           *)
(***************************************************************************)

LEMMA SameSize ==
    ASSUME NEW S, IsFiniteSet(S), NEW T, NEW b \in [S -> T],
           \A x, y \in S : b[x] = b[y] => x = y, \A y \in T : \E x \in S : b[x] = y
    PROVE  IsFiniteSet(T) /\ Cardinality(T) = Cardinality(S)
<1>1. b \in Bijection(S, T)
  BY DEF Bijection, Injection, Surjection, IsInjective
<1>2. ExistsBijection(S, T)
  BY <1>1 DEF ExistsBijection
<1> QED
  BY <1>2, FS_Bijection

\* What a pattern has at its beats.
LEMMA PatternIs ==
    ASSUME NEW q, GoodQuery(q), NEW f \in Patterns(q)
    PROVE  /\ Cycle(f, q.period)
           /\ \A i \in 1 .. q.period :
                /\ f[i] \in GoodTosses(q) /\ f[i].height \in Nat /\ f[i].pass \in Nat
                /\ f[i].siteswap \in Int
                /\ \E L \in Int : LandsAfter(q, f[i], L)
<1>1. PICK P \in Nat \ {0} : P = q.period /\ Beats(q) = 1 .. P
  BY BeatsAre
<1>2. f \in [1 .. P -> GoodTosses(q)]
  BY <1>1 DEF Patterns
<1>3. Jugglers(q) \in Nat
  BY BeatsAre
<1>4. ASSUME NEW t \in GoodTosses(q)
      PROVE  /\ t.height \in Nat /\ t.pass \in Nat /\ t.siteswap \in Int
             /\ \E L \in Int : LandsAfter(q, t, L)
  BY <1>3 DEF GoodTosses, AllowedHeight
<1>5. \A i \in 1 .. P : f[i] \in GoodTosses(q)
  BY <1>2
<1> QED
  BY <1>1, <1>2, <1>4, <1>5, CycleOf

\* What f has at a beat its rotation has d beats before.
LEMMA RotatedAt ==
    ASSUME NEW P, NEW f, Cycle(f, P), NEW d \in Int, NEW i \in Int, i \in 1 .. P
    PROVE  /\ Turn(P, i, d) \in 1 .. P /\ Rotate(f, d)[i] = f[Turn(P, i, d)]
           /\ Turn(P, i, -d) \in 1 .. P /\ Rotate(f, d)[Turn(P, i, -d)] = f[i]
<1>1. PICK n \in Nat : n = P /\ n > 0
  BY DEF Cycle
<1>2. PICK e \in Int : e = -d
  OBVIOUS
<1>3. Turn(n, i, d) \in 1 .. n /\ Turn(n, i, e) \in 1 .. n
  BY <1>1, TurnRange
<1>4. PICK x \in Int : x = Turn(n, i, e) /\ x \in 1 .. n
  BY <1>3
<1>5. Rotate(f, d)[x] = f[Turn(n, x, d)]
  BY <1>1, <1>4, RotateAt
<1>6. Turn(n, x, d) = i
  BY <1>1, <1>2, <1>4, TurnBack
<1>7. Rotate(f, d)[i] = f[Turn(n, i, d)]
  BY <1>1, RotateAt
<1> QED
  BY <1>1, <1>2, <1>3, <1>4, <1>5, <1>6, <1>7

LEMMA RotatePasses ==
    ASSUME NEW P, NEW f, Cycle(f, P), NEW d \in Int
    PROVE  AmountOfPasses(Rotate(f, d)) = AmountOfPasses(f)
<1> DEFINE g == Rotate(f, d)
           A == {i \in 1 .. P : g[i].pass > 0}
           C == {i \in 1 .. P : f[i].pass > 0}
           b == [i \in A |-> Turn(P, i, d)]
<1>1. P \in Nat /\ P > 0
  BY DEF Cycle
<1>2. DOMAIN f = 1 .. P /\ DOMAIN g = 1 .. P
  BY RotateCycle, CycleIs
<1> HIDE DEF g
<1>3. \A i \in Int : i \in 1 .. P =>
          /\ Turn(P, i, d) \in 1 .. P /\ g[i] = f[Turn(P, i, d)]
          /\ Turn(P, i, -d) \in 1 .. P /\ g[Turn(P, i, -d)] = f[i]
  BY RotatedAt DEF g
<1>4. IsFiniteSet(A)
  <2>1. 1 \in Int /\ P \in Int
    BY <1>1
  <2>2. IsFiniteSet(1 .. P)
    BY <2>1, FS_Interval
  <2> QED
    BY <2>2, FS_Subset
<1>5. b \in [A -> C]
  <2> SUFFICES ASSUME NEW i \in A PROVE Turn(P, i, d) \in C
    OBVIOUS
  <2>1. i \in Int /\ i \in 1 .. P
    OBVIOUS
  <2> QED
    BY <1>3, <2>1
<1>6. ASSUME NEW x \in A, NEW y \in A, b[x] = b[y] PROVE x = y
  <2>1. x \in Int /\ x \in 1 .. P /\ y \in Int /\ y \in 1 .. P
    OBVIOUS
  <2>2. Turn(P, x, d) = Turn(P, y, d)
    BY <1>6
  <2> QED
    BY <1>1, <2>1, <2>2, TurnInjective
<1>7. ASSUME NEW y \in C PROVE \E x \in A : b[x] = y
  <2>1. y \in Int /\ y \in 1 .. P
    OBVIOUS
  <2>2. PICK x \in Int : x = Turn(P, y, -d) /\ x \in 1 .. P /\ g[x] = f[y]
    BY <1>3, <2>1
  <2>3. x \in A
    BY <2>2
  <2>4. Turn(P, x, d) = y
    BY <1>1, <2>1, <2>2, TurnBack
  <2> QED
    BY <2>3, <2>4
<1>8. IsFiniteSet(C) /\ Cardinality(C) = Cardinality(A)
  <2> HIDE DEF A, C, b
  <2> QED
    BY <1>4, <1>5, <1>6, <1>7, SameSize
<1> QED
  BY <1>2, <1>8 DEF AmountOfPasses, g

LEMMA RotateHeights ==
    ASSUME NEW q, GoodQuery(q), NEW f \in Patterns(q), NEW d \in Int
    PROVE  Sum(Heights(Rotate(f, d)), Beats(q)) = q.others.objects * q.period
<1> DEFINE g == Rotate(f, d)
           F == Heights(f)
           e == Heights(g)
<1>1. PICK P \in Nat : P = q.period /\ P > 0 /\ Beats(q) = 1 .. P /\ IsFiniteSet(1 .. P)
  BY BeatsAre
<1> DEFINE b == [i \in 1 .. P |-> Turn(P, i, d)]
<1>2. Cycle(f, P) /\ \A i \in 1 .. P : f[i].height \in Int
  BY <1>1, PatternIs
<1>3. DOMAIN f = 1 .. P /\ DOMAIN g = 1 .. P
  BY <1>1, <1>2, RotateCycle, CycleIs
<1> HIDE DEF g
<1>4. \A i \in 1 .. P : F[i] = f[i].height /\ e[i] = g[i].height
  BY <1>3 DEF Heights
<1> HIDE DEF F, e
<1>5. ASSUME NEW i \in 1 .. P
      PROVE  b[i] \in 1 .. P /\ F[b[i]] \in Int /\ e[i] = F[b[i]]
  <2>1. i \in Int /\ i \in 1 .. P
    OBVIOUS
  <2>2. Turn(P, i, d) \in 1 .. P /\ g[i] = f[Turn(P, i, d)]
    BY <1>2, <2>1, RotatedAt DEF g
  <2> QED
    BY <1>2, <1>4, <2>2
<1>6. ASSUME NEW x \in 1 .. P, NEW y \in 1 .. P, b[x] = b[y] PROVE x = y
  <2>1. x \in Int /\ x \in 1 .. P /\ y \in Int /\ y \in 1 .. P
    OBVIOUS
  <2>2. Turn(P, x, d) = Turn(P, y, d)
    BY <1>6
  <2> QED
    BY <1>1, <2>1, <2>2, TurnInjective
<1>7. ASSUME NEW y \in 1 .. P PROVE \E x \in 1 .. P : b[x] = y
  <2>1. y \in Int /\ y \in 1 .. P
    OBVIOUS
  <2>2. PICK x \in Int : x = Turn(P, y, -d) /\ x \in 1 .. P
    BY <1>2, <2>1, RotatedAt
  <2>3. Turn(P, x, d) = y
    BY <1>1, <2>1, <2>2, TurnBack
  <2> QED
    BY <2>2, <2>3
<1> HIDE DEF b
<1>8. Sum(F, 1 .. P) = Sum(e, 1 .. P)
  <2>1. PICK S : S = 1 .. P /\ IsFiniteSet(S)
    BY <1>1
  <2>2. \A i \in S : b[i] \in S
    BY <1>5, <2>1
  <2>3. \A i \in S : F[b[i]] \in Int
    BY <1>5, <2>1
  <2>4. \A i \in S : e[i] = F[b[i]]
    BY <1>5, <2>1
  <2>5. \A i, j \in S : b[i] = b[j] => i = j
    BY <1>6, <2>1
  <2>6. \A y \in S : \E i \in S : b[i] = y
    BY <1>7, <2>1
  <2>7. Matches(b, S, e, S, F)
    BY <2>2, <2>3, <2>4, <2>5, <2>6 DEF Matches
  <2>8. Sum(F, S) = Sum(e, S)
    BY <2>1, <2>7, SumImage
  <2> QED
    BY <2>1, <2>8
<1>9. Sum(F, 1 .. P) = q.others.objects * q.period
  BY <1>1 DEF Patterns, F
<1> QED
  BY <1>1, <1>8, <1>9 DEF e, g

\* Two throws of a pattern land together just if they do in its rotation.
LEMMA LandTogether ==
    ASSUME NEW q, GoodQuery(q), NEW d \in Int, NEW i \in Int, NEW k \in Int,
           NEW s, NEW t, s.pass \in Int, t.pass \in Int,
           \E L \in Int : LandsAfter(q, s, L), \E L \in Int : LandsAfter(q, t, L),
           LandsAt(q, i, s) = LandsAt(q, k, t)
    PROVE  LandsAt(q, Turn(q.period, i, d), s) = LandsAt(q, Turn(q.period, k, d), t)
<1>0. PICK P \in Nat \ {0} : P = q.period /\ P > 0 /\ P \in Int
  BY BeatsAre
<1>1. PICK L \in Int : LandsAfter(q, s, L)
  OBVIOUS
<1>2. PICK M \in Int : LandsAfter(q, t, M)
  OBVIOUS
<1>3. /\ s.height = Jugglers(q) * L + q.period * s.pass
      /\ t.height = Jugglers(q) * M + q.period * t.pass
  BY <1>1, <1>2 DEF LandsAfter
<1>4. \A x \in Int : LandsAt(q, x, s) = (x + L) % P
  BY <1>0, <1>3, LandsAtIs
<1>5. \A x \in Int : LandsAt(q, x, t) = (x + M) % P
  BY <1>0, <1>3, LandsAtIs
<1>6. PICK a \in Int, c \in Int : a = i + L /\ c = k + M
  OBVIOUS
<1>7. PICK n \in Int : a = c + P * n
  <2>1. a % P = c % P
    BY <1>4, <1>5, <1>6
  <2>2. \E n \in Int : a = c + P * n
    BY <2>1, ModuloSame
  <2> QED
    BY <2>2
<1>8. PICK x \in Int, y \in Int, m \in Int, l \in Int :
          /\ x = Turn(P, i, d) /\ x = i + d + P * m
          /\ y = Turn(P, k, d) /\ y = k + d + P * l
  <2>0. P \in Nat /\ P > 0
    BY <1>0
  <2>1. PICK m \in Int : Turn(P, i, d) = i + d + P * m
    BY <2>0, TurnFar
  <2>2. PICK l \in Int : Turn(P, k, d) = k + d + P * l
    BY <2>0, TurnFar
  <2>3. PICK x \in Int, y \in Int : x = i + d + P * m /\ y = k + d + P * l
    BY <1>0
  <2> QED
    BY <2>1, <2>2, <2>3
<1>9. PICK z \in Int, e \in Int : z = y + M /\ e = n + m - l
  OBVIOUS
<1>10. x + L = z + P * e
  <2>1. P * (n + m - l) = P * n + P * m - P * l /\ P * n \in Int /\ P * m \in Int /\ P * l \in Int
    BY <1>0
  <2> QED
    BY <1>6, <1>7, <1>8, <1>9, <2>1
<1>11. (z + P * e) % P = z % P
  BY SameModulo
<1> QED
  BY <1>0, <1>4, <1>5, <1>8, <1>9, <1>10, <1>11

LEMMA RotatedPattern ==
    ASSUME NEW q, GoodQuery(q), NEW f \in Patterns(q), NEW d \in Int
    PROVE  Rotate(f, d) \in Patterns(q)
<1> DEFINE g == Rotate(f, d)
<1>1. PICK P \in Nat \ {0} : P = q.period /\ P > 0 /\ Beats(q) = 1 .. P
  BY BeatsAre
<1>2. Cycle(f, P)
  BY <1>1, PatternIs
<1>3. Cycle(g, P)
  BY <1>2, RotateCycle
<1>4. Sum(Heights(g), Beats(q)) = q.others.objects * q.period
  BY RotateHeights
<1> HIDE DEF g
<1>5. \A i \in Int : i \in 1 .. P => Turn(P, i, d) \in 1 .. P /\ g[i] = f[Turn(P, i, d)]
  BY <1>2, RotatedAt DEF g
<1>6. ASSUME NEW i \in 1 .. P
      PROVE  g[i] \in GoodTosses(q) /\ g[i].pass \in Int /\ \E L \in Int : LandsAfter(q, g[i], L)
  <2>1. PICK x \in 1 .. P : g[i] = f[x]
    BY <1>5
  <2>2. f[x] \in GoodTosses(q) /\ f[x].pass \in Nat /\ \E L \in Int : LandsAfter(q, f[x], L)
    BY <1>1, PatternIs
  <2> QED
    BY <2>1, <2>2
<1>7. g \in [1 .. P -> GoodTosses(q)]
  <2>1. g = [i \in 1 .. P |-> g[i]]
    BY <1>3 DEF Cycle
  <2> QED
    BY <1>6, <2>1
<1>8. ASSUME NEW i \in 1 .. P, NEW k \in 1 .. P, LandsAt(q, i, g[i]) = LandsAt(q, k, g[k])
      PROVE  i = k
  <2>0. i \in Int /\ k \in Int
    OBVIOUS
  <2>1. LandsAt(q, Turn(P, i, d), g[i]) = LandsAt(q, Turn(P, k, d), g[k])
    BY <1>1, <1>6, <1>8, <2>0, LandTogether
  <2>2. PICK x \in 1 .. P, y \in 1 .. P :
            x = Turn(P, i, d) /\ y = Turn(P, k, d) /\ g[i] = f[x] /\ g[k] = f[y]
    BY <1>5, <2>0
  <2>3. x = y
    BY <1>1, <2>1, <2>2 DEF Patterns
  <2> QED
    BY <1>1, <2>0, <2>2, <2>3, TurnInjective
<1>9. g \in Patterns(q)
  BY <1>1, <1>4, <1>7, <1>8 DEF Patterns
<1> QED
  BY <1>9 DEF g

-----------------------------------------------------------------------------
(***************************************************************************)
(* The highest rotation.                                                   *)
(***************************************************************************)

LEMMA TossLessOrder ==
    ASSUME NEW r, NEW s, NEW t, TossLess(r, s), TossLess(s, t),
           r.height \in Int, r.pass \in Int, r.siteswap \in Int,
           s.height \in Int, s.pass \in Int, s.siteswap \in Int,
           t.height \in Int, t.pass \in Int, t.siteswap \in Int
    PROVE  TossLess(r, t)
BY DEF TossLess

LEMMA TossNotLess ==
    ASSUME NEW t, t.height \in Int, t.pass \in Int, t.siteswap \in Int
    PROVE  ~TossLess(t, t)
BY DEF TossLess

\* Sequences of P tosses of integers.
IntTosses(f, P) ==
    /\ Cycle(f, P)
    /\ \A i \in 1 .. P : f[i].height \in Int /\ f[i].pass \in Int /\ f[i].siteswap \in Int

LEMMA PatternLessOrder ==
    ASSUME NEW P, NEW a, NEW b, NEW c, IntTosses(a, P), IntTosses(b, P), IntTosses(c, P),
           PatternLess(a, b), PatternLess(b, c)
    PROVE  PatternLess(a, c)
<1>0. P \in Nat /\ DOMAIN a = 1 .. P /\ DOMAIN b = 1 .. P /\ DOMAIN c = 1 .. P
  BY CycleIs DEF IntTosses
<1>1. PICK i \in 1 .. P : (\A k \in 1 .. i - 1 : a[k] = b[k]) /\ TossLess(a[i], b[i])
  BY <1>0 DEF PatternLess
<1>2. PICK j \in 1 .. P : (\A k \in 1 .. j - 1 : b[k] = c[k]) /\ TossLess(b[j], c[j])
  BY <1>0 DEF PatternLess
<1>3. CASE i < j
  <2>1. b[i] = c[i]
    BY <1>0, <1>2, <1>3
  <2>2. \A k \in 1 .. i - 1 : a[k] = c[k]
    BY <1>0, <1>1, <1>2, <1>3
  <2> QED
    BY <1>0, <1>1, <2>1, <2>2 DEF PatternLess
<1>4. CASE j < i
  <2>1. a[j] = b[j]
    BY <1>0, <1>1, <1>4
  <2>2. \A k \in 1 .. j - 1 : a[k] = c[k]
    BY <1>0, <1>1, <1>2, <1>4
  <2> QED
    BY <1>0, <1>2, <2>1, <2>2 DEF PatternLess
<1>5. CASE i = j
  <2>1. TossLess(a[i], c[i])
    BY <1>1, <1>2, <1>5, TossLessOrder DEF IntTosses
  <2>2. \A k \in 1 .. i - 1 : a[k] = c[k]
    BY <1>0, <1>1, <1>2, <1>5
  <2> QED
    BY <1>0, <2>1, <2>2 DEF PatternLess
<1> QED
  BY <1>3, <1>4, <1>5

LEMMA PatternNotLess ==
    ASSUME NEW P, NEW a, IntTosses(a, P)
    PROVE  ~PatternLess(a, a)
<1>0. DOMAIN a = 1 .. P
  BY CycleIs DEF IntTosses
<1> QED
  BY <1>0, TossNotLess DEF PatternLess, IntTosses

Highest(r, S) == \A s \in S : ~PatternLess(r, s)

\* Of finitely many patterns one is the highest.
LEMMA HighestExists ==
    ASSUME NEW S, IsFiniteSet(S), S # {}, NEW P, \A f \in S : IntTosses(f, P)
    PROVE  \E r \in S : Highest(r, S)
<1> DEFINE Good == {T \in SUBSET S : T = {} \/ \E r \in T : Highest(r, T)}
<1>1. \A T \in SUBSET S : (\A U \in SUBSET T : U # T => U \in Good) => T \in Good
  <2> SUFFICES ASSUME NEW T \in SUBSET S, \A U \in SUBSET T : U # T => U \in Good, T # {}
               PROVE  \E r \in T : Highest(r, T)
    OBVIOUS
  <2>1. PICK x \in T : TRUE
    OBVIOUS
  <2>2. T \ {x} \in Good
    BY <2>1
  <2>3. ~PatternLess(x, x)
    BY <2>1, PatternNotLess
  <2>4. CASE T \ {x} = {}
    BY <2>1, <2>3, <2>4 DEF Highest
  <2>5. CASE T \ {x} # {}
    <3>1. PICK y \in T \ {x} : Highest(y, T \ {x})
      BY <2>2, <2>5
    <3>2. CASE PatternLess(y, x)
      <4>1. ASSUME NEW s \in T \ {x}, PatternLess(x, s) PROVE FALSE
        <5>1. IntTosses(x, P) /\ IntTosses(y, P) /\ IntTosses(s, P)
          BY <2>1, <3>1, <4>1
        <5>2. PatternLess(y, s)
          BY <3>2, <4>1, <5>1, PatternLessOrder
        <5> QED
          BY <3>1, <4>1, <5>2 DEF Highest
      <4> QED
        BY <2>1, <2>3, <4>1 DEF Highest
    <3>3. CASE ~PatternLess(y, x)
      BY <3>1, <3>3 DEF Highest
    <3> QED
      BY <3>2, <3>3
  <2> QED
    BY <2>4, <2>5
<1>2. S \in Good
  <2> HIDE DEF Good
  <2> QED
    BY <1>1, SubsetInduction
<1> QED
  BY <1>2

LEMMA RotationsFinite ==
    ASSUME NEW P, NEW f, Cycle(f, P)
    PROVE  IsFiniteSet(Rotations(f))
<1>1. P \in Nat /\ Len(f) = P
  BY CycleIs
<1> DEFINE D == 0 .. P - 1
           b == [d \in D |-> Rotate(f, d)]
<1>2. IsFiniteSet(D)
  <2>1. 0 \in Int /\ P - 1 \in Int
    BY <1>1
  <2> QED
    BY <2>1, FS_Interval
<1>3. b \in Surjection(D, Rotations(f))
  BY <1>1 DEF Surjection, Rotations
<1> QED
  BY <1>2, <1>3, FS_Surjection

HighestOf(R) == CHOOSE r \in R : Highest(r, R)

LEMMA HighestFirstIs == ASSUME NEW f PROVE RotateHighestFirst(f) = HighestOf(Rotations(f))
BY DEF RotateHighestFirst, HighestOf, Highest

LEMMA RotatedHighest ==
    ASSUME NEW q, GoodQuery(q), NEW f \in Patterns(q)
    PROVE  RotateHighestFirst(f) \in Rotations(f)
<1>1. Cycle(f, q.period)
  BY PatternIs
<1>2. IsFiniteSet(Rotations(f)) /\ Rotations(f) # {}
  BY <1>1, RotationsFinite, RotationOf
<1>3. \A g \in Rotations(f) : IntTosses(g, q.period)
  <2> SUFFICES ASSUME NEW g \in Rotations(f) PROVE IntTosses(g, q.period)
    OBVIOUS
  <2>1. PICK d \in Int : g = Rotate(f, d)
    BY <1>1, RotatedBy
  <2>2. g \in Patterns(q)
    BY <2>1, RotatedPattern
  <2> QED
    BY <2>2, PatternIs DEF IntTosses
<1>4. \E r \in Rotations(f) : Highest(r, Rotations(f))
  BY <1>2, <1>3, HighestExists
<1>5. HighestOf(Rotations(f)) \in Rotations(f)
  BY <1>4 DEF HighestOf
<1> QED
  BY <1>5, HighestFirstIs

-----------------------------------------------------------------------------
(***************************************************************************)
(* What the search finds.                                                  *)
(***************************************************************************)

HeightSums(g, v, S) ==
    g = [s \in SUBSET S |-> IF s = {} THEN 0 ELSE v[Pick(s)].height + g[s \ {Pick(s)}]]

LEMMA SumOfHeights ==
    ASSUME NEW S, IsFiniteSet(S), NEW v, NEW h,
           \A i \in S : h[i] \in Int /\ h[i] = v[i].height
    PROVE  MapThenSumSet(LAMBDA i : v[i].height, S) = Sum(h, S)
<1>1. MapThenSumSet(LAMBDA i : v[i].height, S) = (CHOOSE g : HeightSums(g, v, S))[S]
  BY DEF MapThenSumSet, MapThenFoldSet, HeightSums, Pick
<1>2. \A g : HeightSums(g, v, S) <=> Sums(g, h, S)
  <2> SUFFICES ASSUME NEW g PROVE HeightSums(g, v, S) <=> Sums(g, h, S)
    OBVIOUS
  <2>1. \A s \in SUBSET S : s # {} => h[Pick(s)] = v[Pick(s)].height
    BY PickIn
  <2>2. [s \in SUBSET S |-> IF s = {} THEN 0 ELSE v[Pick(s)].height + g[s \ {Pick(s)}]]
          = [s \in SUBSET S |-> IF s = {} THEN 0 ELSE h[Pick(s)] + g[s \ {Pick(s)}]]
    BY <2>1
  <2> QED
    BY <2>2 DEF HeightSums, Sums
<1>3. \E g : Sums(g, h, S)
  BY SumsExist
<1>4. PICK g : g = (CHOOSE k : HeightSums(k, v, S)) /\ HeightSums(g, v, S)
  BY <1>2, <1>3
<1>5. Sums(g, h, S)
  BY <1>2, <1>4
<1>6. Sum(h, S) = g[S]
  BY <1>5, SumIs
<1> QED
  BY <1>1, <1>4, <1>6

Chosen(q) ==
    {f \in Patterns(q) : AmountOfPasses(f) >= q.minPasses /\ AmountOfPasses(f) <= q.maxPasses}

LEMMA NotFillable ==
    ASSUME NEW q, GoodQuery(q), ~ConstraintFillable(q)
    PROVE  Patterns(q) = {}
<1> SUFFICES ASSUME NEW f \in Patterns(q) PROVE FALSE
  OBVIOUS
<1>1. PICK P \in Nat \ {0}, j \in Nat, o \in Nat, m \in Nat :
          /\ P = q.period /\ j = Jugglers(q) /\ o = q.others.objects /\ m = q.others.maxHeight
          /\ Beats(q) = 1 .. P /\ IsFiniteSet(Beats(q)) /\ Cardinality(Beats(q)) = P
  BY BeatsAre DEF GoodQuery
<1>2. PICK k \in Int : k = m * j /\ o > k
  <2>1. ~(o <= m * j)
    BY <1>1 DEF ConstraintFillable
  <2>2. PICK k \in Int : k = m * j
    OBVIOUS
  <2> QED
    BY <2>1, <2>2
<1>3. \A i \in Beats(q) : Heights(f)[i] \in Int /\ Heights(f)[i] <= k
  <2>1. DOMAIN f = Beats(q) /\ \A i \in Beats(q) : f[i] \in GoodTosses(q)
    BY DEF Patterns
  <2>2. \A t \in GoodTosses(q) : t.height \in Int /\ t.height <= k
    BY <1>1, <1>2 DEF GoodTosses, AllowedHeight
  <2> QED
    BY <2>1, <2>2 DEF Heights
<1>4. Sum(Heights(f), Beats(q)) <= k * P
  BY <1>1, <1>3, SumBound
<1>5. Sum(Heights(f), Beats(q)) = o * P
  BY <1>1 DEF Patterns
<1>6. k * P < o * P
  <2>1. P * k < P * o
    <3>1. o \in Int
      OBVIOUS
    <3> QED
      BY <1>2, <3>1, Products
  <2> QED
    BY <2>1
<1> QED
  BY <1>4, <1>5, <1>6

LEMMA SiteswapIs ==
    ASSUME NEW q, GoodQuery(q)
    PROVE  SiteswapOf(q) = {RotateHighestFirst(f) : f \in Chosen(q)}
<1> DEFINE B == Beats(q)
           found == UNION {AddObjects(q, LandingSites2Pattern(q, s)) : s \in Bijection(B, B)}
           kept == {f \in found : /\ \/ AmountOfPasses(f) >= q.minPasses
                                     \/ Jugglers(q) = 1
                                  /\ AmountOfPasses(f) <= q.maxPasses}
<1>1. Jugglers(q) # 1
  BY BeatsAre
<1>2. CASE ~ConstraintFillable(q)
  <2>1. SiteswapOf(q) = {}
    BY <1>2 DEF SiteswapOf
  <2> QED
    BY <1>2, <2>1, NotFillable DEF Chosen
<1>3. CASE ConstraintFillable(q)
  <2>1. SiteswapOf(q) = {RotateHighestFirst(f) : f \in kept}
    BY <1>3 DEF SiteswapOf
  <2>2. ASSUME NEW f \in found PROVE f \in Patterns(q)
    BY FoundSound
  <2>3. ASSUME NEW f \in Patterns(q), AmountOfPasses(f) <= q.maxPasses PROVE f \in found
    BY <2>3, FoundComplete
  <2> HIDE DEF found
  <2>4. kept = Chosen(q)
    BY <1>1, <2>2, <2>3 DEF Chosen
  <2> QED
    BY <2>1, <2>4
<1> QED
  BY <1>2, <1>3

\* What a search finds is one of the rotations of a pattern.
LEMMA FoundIsRotation ==
    ASSUME NEW q, GoodQuery(q), NEW r \in SiteswapOf(q)
    PROVE  /\ r \in Chosen(q)
           /\ \E f \in Chosen(q) : r = RotateHighestFirst(f) /\ r \in Rotations(f)
<1>1. PICK f \in Chosen(q) : r = RotateHighestFirst(f)
  BY SiteswapIs
<1>2. f \in Patterns(q)
  BY DEF Chosen
<1>3. r \in Rotations(f) /\ Cycle(f, q.period)
  BY <1>1, <1>2, RotatedHighest, PatternIs
<1>4. PICK d \in Int : r = Rotate(f, d)
  BY <1>3, RotatedBy
<1>5. r \in Patterns(q)
  BY <1>2, <1>4, RotatedPattern
<1>6. AmountOfPasses(r) = AmountOfPasses(f)
  BY <1>3, <1>4, RotatePasses
<1> QED
  BY <1>1, <1>3, <1>5, <1>6 DEF Chosen

\* No two patterns that are found are rotations of each other.
LEMMA FoundOnce ==
    ASSUME NEW q, GoodQuery(q), NEW r \in SiteswapOf(q), NEW s \in SiteswapOf(q), s \in Rotations(r)
    PROVE  r = s
<1>1. PICK f \in Chosen(q) : r = RotateHighestFirst(f) /\ r \in Rotations(f)
  BY FoundIsRotation
<1>2. PICK g \in Chosen(q) : s = RotateHighestFirst(g) /\ s \in Rotations(g)
  BY FoundIsRotation
<1>3. Cycle(f, q.period) /\ Cycle(g, q.period) /\ Cycle(r, q.period)
  BY FoundIsRotation, PatternIs DEF Chosen
<1>4. Rotations(r) = Rotations(f)
  BY <1>1, <1>3, RotationsSame
<1>5. Rotations(s) = Rotations(g)
  BY <1>2, <1>3, RotationsSame
<1>6. Rotations(s) = Rotations(r)
  BY <1>3, RotationsSame
<1> QED
  BY <1>1, <1>2, <1>4, <1>5, <1>6, HighestFirstIs

-----------------------------------------------------------------------------
(***************************************************************************)
(* The passing patterns of the reference, which have no siteswaps.         *)
(***************************************************************************)

Plain(t) == [height |-> t.height, pass |-> t.pass]
PlainTosses(f) == [i \in DOMAIN f |-> Plain(f[i])]

LEMMA PlainRotates ==
    ASSUME NEW P, NEW f, Cycle(f, P), NEW d \in Int
    PROVE  PlainTosses(Rotate(f, d)) = Rotate(PlainTosses(f), d)
<1> DEFINE g == Rotate(f, d)
           v == PlainTosses(f)
           w == Rotate(v, d)
<1>1. Cycle(g, P) /\ DOMAIN f = 1 .. P /\ DOMAIN g = 1 .. P /\ P \in Nat \ {0}
  BY RotateCycle, CycleIs
<1>2. v \in [1 .. P -> {Plain(f[i]) : i \in 1 .. P}]
  BY <1>1 DEF PlainTosses
<1>3. Cycle(v, P)
  <2> HIDE DEF v
  <2> QED
    BY <1>1, <1>2, CycleOf
<1>4. Cycle(w, P) /\ DOMAIN w = 1 .. P
  BY <1>3, RotateCycle, CycleIs
<1>5. ASSUME NEW i \in 1 .. P PROVE Plain(g[i]) = w[i]
  <2>1. i \in Int /\ i \in 1 .. P
    OBVIOUS
  <2>2. Turn(P, i, d) \in 1 .. P /\ g[i] = f[Turn(P, i, d)]
    BY <2>1, RotatedAt
  <2>3. w[i] = v[Turn(P, i, d)]
    BY <1>3, <2>1, RotatedAt
  <2> QED
    BY <1>1, <2>2, <2>3 DEF PlainTosses
<1>6. w = [i \in 1 .. P |-> w[i]]
  BY <1>4 DEF Cycle
<1> HIDE DEF g, w
<1>7. PlainTosses(g) = w
  BY <1>1, <1>5, <1>6 DEF PlainTosses
<1> QED
  BY <1>7 DEF g, w

\* The siteswap of a throw follows from its height and pass.
LEMMA SiteswapFollows ==
    ASSUME NEW q, GoodQuery(q), NEW s \in GoodTosses(q), NEW t \in GoodTosses(q), Plain(s) = Plain(t)
    PROVE  s = t
<1>0. PICK j \in Nat \ {0, 1}, P \in Nat \ {0} :
          j = Jugglers(q) /\ P = q.period /\ j \in Int /\ P \in Int
  BY BeatsAre
<1>1. s.height = t.height /\ s.pass = t.pass
  BY DEF Plain
<1>2. PICK L \in Int : LandsAfter(q, s, L)
  BY DEF GoodTosses
<1>3. PICK M \in Int : LandsAfter(q, t, M)
  BY DEF GoodTosses
<1>4. s.pass \in Int /\ t.pass \in Int
  BY <1>0 DEF GoodTosses
<1>5. PICK p \in Int : p = s.pass
  BY <1>4
<1>6. j * L = j * M
  <2>1. j * L + P * p = j * M + P * p
    BY <1>0, <1>1, <1>2, <1>3, <1>5 DEF LandsAfter
  <2>2. j * L \in Int /\ j * M \in Int /\ P * p \in Int
    OBVIOUS
  <2> QED
    BY <2>1, <2>2
<1>7. L = M
  BY <1>6, Products
<1>8. s.siteswap = t.siteswap
  BY <1>1, <1>2, <1>3, <1>7 DEF LandsAfter
<1> QED
  BY <1>1, <1>8 DEF GoodTosses

LEMMA PlainOnce ==
    ASSUME NEW q, GoodQuery(q), NEW f \in Patterns(q), NEW g \in Patterns(q),
           PlainTosses(f) = PlainTosses(g)
    PROVE  f = g
<1>1. Cycle(f, q.period) /\ Cycle(g, q.period) /\ DOMAIN f = 1 .. q.period /\ DOMAIN g = 1 .. q.period
  BY PatternIs, CycleIs
<1>2. ASSUME NEW i \in 1 .. q.period PROVE f[i] = g[i]
  <2>1. f[i] \in GoodTosses(q) /\ g[i] \in GoodTosses(q)
    BY PatternIs
  <2>2. PlainTosses(f)[i] = Plain(f[i]) /\ PlainTosses(g)[i] = Plain(g[i])
    BY <1>1 DEF PlainTosses
  <2> QED
    BY <2>1, <2>2, SiteswapFollows
<1> QED
  BY <1>1, <1>2, SameCycle

LEMMA PlainPasses ==
    ASSUME NEW f
    PROVE  AmountOfPasses(PlainTosses(f)) = AmountOfPasses(f)
<1>1. DOMAIN PlainTosses(f) = DOMAIN f /\ \A i \in DOMAIN f : PlainTosses(f)[i].pass = f[i].pass
  BY DEF PlainTosses, Plain
<1>2. {i \in DOMAIN PlainTosses(f) : PlainTosses(f)[i].pass > 0} = {i \in DOMAIN f : f[i].pass > 0}
  BY <1>1
<1> QED
  BY <1>2 DEF AmountOfPasses

\* A throw may be made, and lands at a beat, just if the program has it.
LEMMA PossibleIsGood ==
    ASSUME NEW q, GoodQuery(q)
    PROVE  /\ \A t \in GoodTosses(q) : Plain(t) \in PossibleTosses(q)
           /\ \A u \in PossibleTosses(q) : \E t \in GoodTosses(q) : Plain(t) = u
<1>0. PICK j \in Nat \ {0, 1}, P \in Nat \ {0} :
          j = Jugglers(q) /\ P = q.period /\ j \in Int /\ P \in Int
  BY BeatsAre
<1>1. PICK k \in Int : k = q.others.maxHeight * j /\ 0 <= k
  <2>1. PICK m \in Nat : m = q.others.maxHeight
    BY DEF GoodQuery
  <2>2. m * j \in Nat
    OBVIOUS
  <2> QED
    BY <2>1, <2>2
<1>2. ASSUME NEW t \in GoodTosses(q) PROVE Plain(t) \in PossibleTosses(q)
  <2>1. PICK L \in Int : LandsAfter(q, t, L)
    BY DEF GoodTosses
  <2>2. /\ t.height \in Int /\ t.pass \in 0 .. j - 1 /\ t.pass \in Int
        /\ ((t.height = 0 /\ t.pass = 0) \/ t.height >= j) /\ t.height <= k
    BY <1>0, <1>1 DEF GoodTosses, AllowedHeight
  <2>3. (t.height - t.pass * q.period) % Jugglers(q) = 0
    <3>1. t.height = Jugglers(q) * L + q.period * t.pass /\ 0 \in Int
      BY <2>1 DEF LandsAfter
    <3> QED
      BY <2>2, <3>1, LandsAtIs
  <2>4. t.height \in {0} \cup (j .. k) /\ (t.height = 0 => t.pass = 0)
    BY <2>2
  <2> QED
    BY <1>0, <1>1, <2>2, <2>3, <2>4 DEF PossibleTosses, Plain
<1>3. ASSUME NEW u \in PossibleTosses(q) PROVE \E t \in GoodTosses(q) : Plain(t) = u
  <2>1. /\ u \in [height : {0} \cup (j .. k), pass : 0 .. j - 1]
        /\ u.height = 0 => u.pass = 0
        /\ (u.height - u.pass * P) % j = 0
    BY <1>0, <1>1 DEF PossibleTosses
  <2>2. PICK h \in Int, p \in Int : h = u.height /\ p = u.pass
    BY <2>1
  <2>3. PICK a \in Int : a = h - p * P
    OBVIOUS
  <2>4. PICK L \in Int : a = j * L + 0
    <3>1. a = j * (a \div j) + (a % j) /\ a \div j \in Int
      BY DivMod
    <3>2. a % j = 0
      BY <2>1, <2>2, <2>3
    <3> QED
      BY <3>1, <3>2
  <2>5. h = j * L + P * p
    <3>1. p * P = P * p /\ P * p \in Int /\ j * L \in Int
      OBVIOUS
    <3> QED
      BY <2>3, <2>4, <3>1
  <2> DEFINE t == [height |-> h, pass |-> p, siteswap |-> IF p = 0 THEN L ELSE L + P]
  <2>6. LandsAfter(q, t, L)
    BY <1>0, <2>5 DEF LandsAfter
  <2>7. AllowedHeight(q, t.height, t.pass)
    <3>1. ((h = 0 /\ p = 0) \/ h >= j) /\ h <= k
      <4>1. u.height = 0 \/ u.height \in j .. k
        BY <2>1
      <4>2. CASE u.height = 0
        BY <1>1, <2>1, <2>2, <4>2
      <4>3. CASE u.height \in j .. k
        BY <2>2, <4>3
      <4> QED
        BY <4>1, <4>2, <4>3
    <3> QED
      BY <1>0, <1>1, <3>1 DEF AllowedHeight
  <2>8. t \in [height : Int, pass : 0 .. j - 1, siteswap : Int]
    BY <2>1, <2>2
  <2>9. t \in GoodTosses(q)
    <3> HIDE DEF t
    <3> QED
      BY <1>0, <2>6, <2>7, <2>8 DEF GoodTosses
  <2>10. Plain(t) = u
    BY <2>1, <2>2 DEF Plain
  <2> QED
    BY <2>9, <2>10
<1> QED
  BY <1>2, <1>3

\* A throw lands at the same beat, with or without its siteswap.
LEMMA PlainLands ==
    ASSUME NEW q, NEW i, NEW t
    PROVE  LandsAt(q, i, Plain(t)) = LandsAt(q, i, t)
BY DEF LandsAt, Plain

LEMMA PlainIsPassing ==
    ASSUME NEW q, GoodQuery(q), NEW f, Cycle(f, q.period),
           \A i \in 1 .. q.period : f[i] \in GoodTosses(q)
    PROVE  f \in Patterns(q) <=> PlainTosses(f) \in PassingPatterns(q)
<1> DEFINE v == PlainTosses(f)
           h == Heights(f)
<1>1. PICK P \in Nat \ {0} : P = q.period /\ Beats(q) = 1 .. P /\ IsFiniteSet(1 .. P)
  BY BeatsAre
<1>2. DOMAIN f = 1 .. P /\ f = [i \in 1 .. P |-> f[i]]
  BY <1>1 DEF Cycle
<1>3. \A i \in 1 .. P : f[i] \in GoodTosses(q)
  BY <1>1
<1>4. f \in [Beats(q) -> GoodTosses(q)]
  BY <1>1, <1>2, <1>3
<1>5. v = [i \in 1 .. P |-> Plain(f[i])]
  BY <1>2 DEF PlainTosses
<1>6. v \in [Beats(q) -> PossibleTosses(q)]
  BY <1>1, <1>3, <1>5, PossibleIsGood
<1>7. MapThenSumSet(LAMBDA i : v[i].height, Beats(q)) = Sum(h, Beats(q))
  <2>1. \A i \in 1 .. P : h[i] = f[i].height /\ v[i].height = f[i].height
    BY <1>2, <1>5 DEF Heights, Plain
  <2>2. \A i \in 1 .. P : f[i].height \in Int
    BY <1>3 DEF GoodTosses
  <2>3. \A i \in Beats(q) : h[i] \in Int /\ h[i] = v[i].height
    BY <1>1, <2>1, <2>2
  <2> HIDE DEF v, h
  <2> QED
    BY <1>1, <2>3, SumOfHeights
<1>8. \A i \in Beats(q) : LandsAt(q, i, v[i]) = LandsAt(q, i, f[i])
  BY <1>1, <1>5, PlainLands
<1> HIDE DEF v
<1>9. v \in PassingPatterns(q) <=> f \in Patterns(q)
  BY <1>4, <1>6, <1>7, <1>8 DEF PassingPatterns, Patterns
<1> QED
  BY <1>9 DEF v

LEMMA PatternIsPassing ==
    ASSUME NEW q, GoodQuery(q), NEW f \in Patterns(q)
    PROVE  PlainTosses(f) \in PassingPatterns(q)
<1>1. Cycle(f, q.period) /\ \A i \in 1 .. q.period : f[i] \in GoodTosses(q)
  BY PatternIs
<1> QED
  BY <1>1, PlainIsPassing

LEMMA PassingIsPattern ==
    ASSUME NEW q, GoodQuery(q), NEW v \in PassingPatterns(q)
    PROVE  \E f \in Patterns(q) : PlainTosses(f) = v
<1>1. PICK P \in Nat \ {0} : P = q.period /\ Beats(q) = 1 .. P
  BY BeatsAre
<1>2. v \in [1 .. P -> PossibleTosses(q)]
  BY <1>1 DEF PassingPatterns
<1> DEFINE f == [i \in 1 .. P |-> CHOOSE t \in GoodTosses(q) : Plain(t) = v[i]]
<1>3. ASSUME NEW i \in 1 .. P PROVE f[i] \in GoodTosses(q) /\ Plain(f[i]) = v[i]
  <2>1. v[i] \in PossibleTosses(q)
    BY <1>2
  <2>2. \E t \in GoodTosses(q) : Plain(t) = v[i]
    BY <2>1, PossibleIsGood
  <2> QED
    BY <2>2
<1>4. DOMAIN f = 1 .. P /\ f = [i \in 1 .. P |-> f[i]]
  OBVIOUS
<1> HIDE DEF f
<1>5. f \in [1 .. P -> GoodTosses(q)]
  BY <1>3, <1>4
<1>6. Cycle(f, P)
  BY <1>5, CycleOf
<1>7. PlainTosses(f) = v
  <2>1. v = [i \in 1 .. P |-> v[i]]
    BY <1>2
  <2> QED
    BY <1>3, <1>4, <2>1 DEF PlainTosses
<1>8. \A i \in 1 .. q.period : f[i] \in GoodTosses(q)
  BY <1>1, <1>3
<1>9. f \in Patterns(q)
  BY <1>1, <1>6, <1>7, <1>8, PlainIsPassing
<1> QED
  BY <1>7, <1>9

LEMMA ChosenPasses ==
    ASSUME NEW q, GoodQuery(q), NEW f \in Patterns(q)
    PROVE  f \in Chosen(q) <=> WithPasses(q, PlainTosses(f))
<1>1. PICK P \in Nat \ {0} : P = q.period /\ Beats(q) = 1 .. P /\ IsFiniteSet(1 .. P)
  BY BeatsAre
<1>2. DOMAIN f = 1 .. P
  BY <1>1, PatternIs, CycleIs
<1>3. AmountOfPasses(f) \in Nat
  <2>1. {i \in DOMAIN f : f[i].pass > 0} \in SUBSET (1 .. P)
    BY <1>2
  <2> HIDE DEF WithPasses
  <2>2. PICK A : A = {i \in DOMAIN f : f[i].pass > 0} /\ A \in SUBSET (1 .. P)
    BY <2>1
  <2>3. IsFiniteSet(A)
    BY <1>1, <2>2, FS_Subset
  <2>4. Cardinality(A) \in Nat
    BY <2>3, FS_CardinalityType
  <2> QED
    BY <2>2, <2>4 DEF AmountOfPasses
<1>4. q.minPasses \in Nat /\ q.maxPasses \in Nat
  BY DEF GoodQuery
<1>5. AmountOfPasses(PlainTosses(f)) = AmountOfPasses(f)
  BY PlainPasses
<1> QED
  BY <1>3, <1>4, <1>5 DEF Chosen, WithPasses

\* A throw lands as many beats later as its siteswap says.
LEMMA PatternLands ==
    ASSUME NEW q, GoodQuery(q), NEW r \in Patterns(q), NEW i \in 1 .. q.period
    PROVE  (i + r[i].siteswap) % q.period = LandsAt(q, i, r[i])
<1>0. PICK P \in Nat \ {0} : P = q.period /\ P \in Int
  BY BeatsAre
<1>1. PICK t : t = r[i] /\ t.pass \in Nat
  BY <1>0, PatternIs
<1>2. PICK L \in Int : LandsAfter(q, t, L)
  BY <1>0, <1>1, PatternIs
<1>3. PICK x \in Int : x = i
  BY <1>0
<1>4. LandsAt(q, x, t) = (x + L) % P
  BY <1>0, <1>1, <1>2, LandsAtIs DEF LandsAfter
<1>5. (x + t.siteswap) % P = (x + L) % P
  <2>1. CASE t.pass = 0
    BY <1>2, <2>1 DEF LandsAfter
  <2>2. CASE t.pass # 0
    <3>1. PICK a \in Int : a = x + L
      OBVIOUS
    <3>2. PICK k \in Int : k = 1 /\ P * k = P
      BY <1>0
    <3>3. x + t.siteswap = a + P * k
      BY <1>0, <1>2, <2>2, <3>1, <3>2 DEF LandsAfter
    <3>4. (a + P * k) % P = a % P
      BY SameModulo
    <3> QED
      BY <3>1, <3>3, <3>4
  <2> QED
    BY <2>1, <2>2
<1> QED
  BY <1>0, <1>1, <1>3, <1>4, <1>5

-----------------------------------------------------------------------------
\* For any numbers of jugglers and objects and any period, heights and passes, the
\* rotations of what siteswap/14 finds are exactly the passing patterns with as many
\* passes: no pattern is missed and nothing else is found.
THEOREM SearchComplete ==
    ASSUME NEW q, GoodQuery(q)
    PROVE  UNION {Rotations(f) : f \in {PlainTosses(r) : r \in SiteswapOf(q)}}
             = {v \in PassingPatterns(q) : WithPasses(q, v)}
<1> DEFINE found == {PlainTosses(r) : r \in SiteswapOf(q)}
<1>1. ASSUME NEW r \in SiteswapOf(q), NEW v \in Rotations(PlainTosses(r))
      PROVE  v \in PassingPatterns(q) /\ WithPasses(q, v)
  <2>1. r \in Chosen(q) /\ r \in Patterns(q)
    BY FoundIsRotation DEF Chosen
  <2>2. PICK P \in Nat \ {0} : P = q.period /\ Cycle(r, P) /\ DOMAIN r = 1 .. P
    BY <2>1, PatternIs, BeatsAre, CycleIs
  <2>3. PICK w : w = PlainTosses(r) /\ Cycle(w, P)
    <3>1. PlainTosses(r) \in [1 .. P -> {Plain(r[i]) : i \in 1 .. P}]
      BY <2>2 DEF PlainTosses
    <3> QED
      BY <3>1, CycleOf
  <2>4. PICK d \in Int : v = Rotate(w, d)
    BY <2>3, RotatedBy
  <2>5. v = PlainTosses(Rotate(r, d))
    BY <2>2, <2>3, <2>4, PlainRotates
  <2>6. Rotate(r, d) \in Patterns(q)
    BY <2>1, RotatedPattern
  <2>7. AmountOfPasses(Rotate(r, d)) = AmountOfPasses(r)
    BY <2>2, RotatePasses
  <2>8. Rotate(r, d) \in Chosen(q)
    BY <2>1, <2>6, <2>7 DEF Chosen
  <2> QED
    BY <2>5, <2>6, <2>8, PatternIsPassing, ChosenPasses
<1>2. ASSUME NEW v \in PassingPatterns(q), WithPasses(q, v)
      PROVE  \E r \in SiteswapOf(q) : v \in Rotations(PlainTosses(r))
  <2>1. PICK f \in Patterns(q) : PlainTosses(f) = v
    BY PassingIsPattern
  <2>2. f \in Chosen(q)
    BY <1>2, <2>1, ChosenPasses
  <2>3. PICK r : r = RotateHighestFirst(f) /\ r \in SiteswapOf(q) /\ r \in Rotations(f)
    BY <2>1, <2>2, SiteswapIs, RotatedHighest
  <2>4. PICK P \in Nat \ {0} : P = q.period /\ Cycle(f, P)
    BY <2>1, PatternIs, BeatsAre
  <2>5. Cycle(r, P) /\ f \in Rotations(r) /\ DOMAIN r = 1 .. P
    BY <2>3, <2>4, RotationsSame, CycleIs
  <2>6. PICK d \in Int : f = Rotate(r, d)
    BY <2>5, RotatedBy
  <2>7. v = Rotate(PlainTosses(r), d)
    BY <2>1, <2>5, <2>6, PlainRotates
  <2>8. PICK w : w = PlainTosses(r) /\ Cycle(w, P)
    <3>1. PlainTosses(r) \in [1 .. P -> {Plain(r[i]) : i \in 1 .. P}]
      BY <2>5 DEF PlainTosses
    <3> QED
      BY <3>1, CycleOf
  <2>9. v \in Rotations(w)
    BY <2>7, <2>8, RotationOf
  <2> QED
    BY <2>3, <2>8, <2>9
<1> QED
  BY <1>1, <1>2

\* siteswap/14 finds each pattern in one rotation only: no two solutions are
\* rotations of each other.
THEOREM SearchOnce ==
    ASSUME NEW q, GoodQuery(q), NEW r \in SiteswapOf(q), NEW s \in SiteswapOf(q),
           PlainTosses(s) \in Rotations(PlainTosses(r))
    PROVE  r = s
<1>1. r \in Patterns(q) /\ s \in Patterns(q)
  BY FoundIsRotation DEF Chosen
<1>2. PICK P \in Nat \ {0} : P = q.period /\ Cycle(r, P) /\ DOMAIN r = 1 .. P
  BY <1>1, PatternIs, BeatsAre, CycleIs
<1>3. PICK w : w = PlainTosses(r) /\ Cycle(w, P)
  <2>1. PlainTosses(r) \in [1 .. P -> {Plain(r[i]) : i \in 1 .. P}]
    BY <1>2 DEF PlainTosses
  <2> QED
    BY <2>1, CycleOf
<1>4. PICK d \in Int : PlainTosses(s) = Rotate(w, d)
  BY <1>3, RotatedBy
<1>5. PlainTosses(s) = PlainTosses(Rotate(r, d))
  BY <1>2, <1>3, <1>4, PlainRotates
<1>6. Rotate(r, d) \in Patterns(q)
  BY <1>1, RotatedPattern
<1>7. s = Rotate(r, d)
  BY <1>1, <1>5, <1>6, PlainOnce
<1>8. s \in Rotations(r)
  BY <1>2, <1>7, RotationOf
<1> QED
  BY <1>8, FoundOnce

\* The siteswap that siteswap/14 reports for a throw leads to the beat where a throw
\* of that height and pass lands, however often it was raised.
THEOREM SearchLands ==
    ASSUME NEW q, GoodQuery(q), NEW r \in SiteswapOf(q), NEW i \in DOMAIN r
    PROVE  (i + r[i].siteswap) % q.period = LandsAt(q, i, r[i])
<1>1. r \in Patterns(q)
  BY FoundIsRotation DEF Chosen
<1>2. i \in 1 .. q.period
  BY <1>1, PatternIs, CycleIs
<1> QED
  BY <1>1, <1>2, PatternLands
=============================================================================
