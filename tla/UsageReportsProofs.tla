-------------------------- MODULE UsageReportsProofs --------------------------
(***************************************************************************)
(* Theorems about UsageReports, for any settlements, health listings,      *)
(* cycles and lengths of lists: what the panel splits, groups and pages    *)
(* adds up, and its estimate bounds the quota; and about UsageRecords and  *)
(* UsageTabs, for any history of requests and any list of accounts: what   *)
(* the server groups by model, key, status and path has every request,     *)
(* failure, token and cost of the totals once, and so does what the tabs   *)
(* show of it.                                                             *)
(*                                                                         *)
(* A sum is a fold over a set, defined by a choice.  The first part shows  *)
(* how a sum changes with one element, by induction on the subsets of a    *)
(* finite set (a set that has {}, and a subset when it has its parts, has  *)
(* all of them), and from that what is needed of sums of sums: exchanging, *)
(* grouping, renumbering.                                                  *)
(***************************************************************************)
EXTENDS UsageTabs, FiniteSetTheorems, NaturalsInduction, TLAPS

-----------------------------------------------------------------------------
(* Whole numbers. *)

\* A quotient, rounded down.
LEMMA DivBounds ==
  ASSUME NEW x \in Int, NEW d \in Int, d > 0
  PROVE  /\ x \div d \in Int
         /\ (x \div d) * d <= x
         /\ x < (x \div d) * d + d
OBVIOUS

\* Multiples of a number are in the order of their factors.
LEMMA Multiples ==
  ASSUME NEW a \in Int, NEW b \in Int, NEW d \in Nat \ {0}
  PROVE  /\ a * d \in Int /\ (a + 1) * d = a * d + d /\ (a - 1) * d = a * d - d
         /\ a <= b <=> a * d <= b * d
<1>1. a * d \in Int /\ b * d \in Int /\ (a + 1) * d = a * d + d /\ (a - 1) * d = a * d - d
  OBVIOUS
<1>2. ASSUME a <= b PROVE a * d <= b * d
  <2>1. b - a \in Nat /\ (b - a) * d \in Nat
    BY <1>2
  <2>2. (b - a) * d = b * d - a * d
    OBVIOUS
  <2> QED BY <1>1, <2>1, <2>2
<1>3. ASSUME b < a PROVE b * d < a * d
  <2>1. a - b - 1 \in Nat /\ (a - b - 1) * d \in Nat
    BY <1>3
  <2>2. (a - b - 1) * d = a * d - b * d - d
    OBVIOUS
  <2> QED BY <1>1, <2>1, <2>2
<1> QED BY <1>1, <1>2, <1>3

\* What divides a number, divides it without a remainder.
LEMMA Divides ==
  ASSUME NEW w, w \in Nat, NEW t, t \in Nat, t > 0, w % t = 0
  PROVE  w \div t \in Nat /\ t * (w \div t) = w
OBVIOUS

\* A part of a whole of w is divided by w again.
LEMMA DivideBack ==
  ASSUME NEW s, s \in Nat, NEW q, q \in Nat, NEW w, w \in Nat, w > 0
  PROVE  (s * (w * q)) \div w = s * q
OBVIOUS

-----------------------------------------------------------------------------
(* Finite sets and sums over them. *)

\* The order of the natural numbers, which is well-founded.
Before == {p \in Nat \X Nat : p[1] < p[2]}

\* A set with 0, and with n + 1 whenever it has n, has every natural number.
LEMMA Upwards ==
  ASSUME NEW P, 0 \in P, \A n \in Nat : n \in P => n + 1 \in P
  PROVE  Nat \subseteq P
<1> DEFINE Out == Nat \ P
<1>1. ASSUME Out # {} PROVE FALSE
  <2>1. IsWellFoundedOn(Before, Nat)
    BY NatLessThanWellFounded DEF OpToRel, Before
  <2>2. PICK x \in Out : \A y \in Out : ~(<<y, x>> \in Before)
    BY <1>1, <2>1, WFMin
  <2>3. x \in Nat /\ \A y \in Out : ~(y < x)
    BY <2>2 DEF Before
  <2>4. x # 0 /\ x - 1 \in Nat /\ x - 1 \notin Out
    BY <2>3
  <2> QED BY <2>3, <2>4
<1> QED BY <1>1

\* A set of parts of S that has {}, and a part when it has that part without any one
\* element, has all parts of S.
LEMMA Smaller ==
  ASSUME NEW S, IsFiniteSet(S), NEW P, {} \in P,
         \A s \in SUBSET S : s # {} /\ (\A x \in s : s \ {x} \in P) => s \in P
  PROVE  SUBSET S \subseteq P
<1> DEFINE Sized == {n \in Nat : \A s \in SUBSET S : Cardinality(s) = n => s \in P}
<1>1. 0 \in Sized
  BY FS_Subset, FS_EmptySet
<1>2. \A n \in Nat : n \in Sized => n + 1 \in Sized
  <2> SUFFICES ASSUME NEW n \in Sized, NEW s \in SUBSET S, Cardinality(s) = n + 1 PROVE s \in P
    OBVIOUS
  <2>1. IsFiniteSet(s)
    BY FS_Subset
  <2>2. s # {}
    BY FS_EmptySet
  <2>3. ASSUME NEW x \in s PROVE Cardinality(s \ {x}) = n
    <3>1. Cardinality(s \ {x}) = Cardinality(s) - 1
      BY <2>1, FS_RemoveElement
    <3> QED BY <3>1
  <2> QED BY <2>2, <2>3
<1>3. Nat \subseteq Sized
  <2> HIDE DEF Sized
  <2> QED BY <1>1, <1>2, Upwards
<1> QED
  <2> SUFFICES ASSUME NEW s \in SUBSET S PROVE s \in P
    OBVIOUS
  <2>1. Cardinality(s) \in Nat
    BY FS_Subset, FS_CardinalityType
  <2> QED BY <1>3, <2>1

\* The same, the other way: with a part, it has every part with one element more.
LEMMA Growing ==
  ASSUME NEW S, IsFiniteSet(S), NEW P, {} \in P,
         \A s \in SUBSET S : \A x \in S \ s : s \in P => s \cup {x} \in P
  PROVE  SUBSET S \subseteq P
<1>1. ASSUME NEW s \in SUBSET S, s # {}, \A x \in s : s \ {x} \in P PROVE s \in P
  <2>1. PICK x \in s : TRUE
    BY <1>1
  <2>2. s = (s \ {x}) \cup {x} /\ s \ {x} \in SUBSET S /\ x \in S \ (s \ {x})
    OBVIOUS
  <2> QED BY <1>1, <2>2
<1> QED BY <1>1, Smaller

\* How a fold goes on: by an element it picks.
Picked(s) == CHOOSE x \in s : TRUE

\* g folds the parts of S: each is what is picked of it and what is left.
FoldOf(g, h, S) ==
    g = [s \in SUBSET S |-> IF s = {} THEN 0 ELSE h[Picked(s)] + g[s \ {Picked(s)}]]

\* A sum is chosen among the functions that fold.
LEMMA SumUnfolds ==
  ASSUME NEW S, NEW h
  PROVE  SumFunctionOnSet(h, S) = (CHOOSE g : FoldOf(g, h, S))[S]
BY DEF SumFunctionOnSet, FoldFunctionOnSet, MapThenFoldSet, FoldOf, Picked

\* There is such a function for a finite set.
LEMMA FoldExists ==
  ASSUME NEW S, IsFiniteSet(S), NEW h
  PROVE  \E g : FoldOf(g, h, S)
<1> DEFINE Upto(n)  == {s \in SUBSET S : Cardinality(s) <= n}
           Part(g, n) == g = [s \in Upto(n) |-> IF s = {} THEN 0 ELSE h[Picked(s)] + g[s \ {Picked(s)}]]
           Built == {n \in Nat : \E g : Part(g, n)}
<1>0. \A s \in SUBSET S : IsFiniteSet(s) /\ Cardinality(s) \in Nat /\ Cardinality(s) <= Cardinality(S)
  BY FS_Subset, FS_CardinalityType
<1>1. 0 \in Built
  <2>1. \A s \in Upto(0) : s = {}
    BY <1>0, FS_EmptySet
  <2> QED BY <2>1
<1>2. ASSUME NEW n \in Nat, n \in Built PROVE n + 1 \in Built
  <2> PICK g : Part(g, n)
    BY <1>2
  <2> DEFINE k == [s \in Upto(n + 1) |-> IF s = {} THEN 0 ELSE h[Picked(s)] + g[s \ {Picked(s)}]]
  <2>1. \A s \in Upto(n + 1) : s # {} => s \ {Picked(s)} \in Upto(n)
    <3> SUFFICES ASSUME NEW s \in Upto(n + 1), s # {} PROVE s \ {Picked(s)} \in Upto(n)
      OBVIOUS
    <3>1. Picked(s) \in s
      BY DEF Picked
    <3>2. Cardinality(s \ {Picked(s)}) = Cardinality(s) - 1
      BY <1>0, <3>1, FS_RemoveElement
    <3> QED BY <1>0, <3>2
  <2>2. \A s \in Upto(n) : s \in Upto(n + 1)
    BY <1>0
  <2>3. \A s \in Upto(n) : k[s] = g[s]
    BY <2>2
  <2>4. \A s \in Upto(n + 1) : s # {} => k[s \ {Picked(s)}] = g[s \ {Picked(s)}]
    <3> HIDE DEF Upto, k
    <3> QED BY <2>1, <2>3
  <2>5. Part(k, n + 1)
    <3> HIDE DEF Upto
    <3> QED BY <2>4
  <2>6. \E g1 : Part(g1, n + 1)
    <3> HIDE DEF k
    <3> WITNESS k
    <3> QED BY <2>5
  <2> HIDE DEF Part
  <2> QED BY <2>6
<1>3. Cardinality(S) \in Built
  <2> HIDE DEF Built
  <2> QED BY <1>0, <1>1, <1>2, Upwards
<1>4. Upto(Cardinality(S)) = SUBSET S
  BY <1>0
<1> QED BY <1>3, <1>4 DEF FoldOf

\* Two of them, of a set and of a part of it, agree on the part.
LEMMA FoldsAgree ==
  ASSUME NEW S, IsFiniteSet(S), NEW T \in SUBSET S, NEW h, NEW g, NEW k,
         FoldOf(g, h, S), FoldOf(k, h, T)
  PROVE  g[T] = k[T]
<1> DEFINE P == {s \in SUBSET T : g[s] = k[s]}
<1>1. IsFiniteSet(T)
  BY FS_Subset
<1>2. {} \in P
  <2>1. {} \in SUBSET S /\ {} \in SUBSET T
    OBVIOUS
  <2> QED BY <2>1 DEF FoldOf
<1>3. ASSUME NEW s \in SUBSET T, s # {}, \A x \in s : s \ {x} \in P PROVE s \in P
  <2>1. Picked(s) \in s
    BY <1>3 DEF Picked
  <2>2. g[s] = h[Picked(s)] + g[s \ {Picked(s)}]
    BY <1>3 DEF FoldOf
  <2>3. k[s] = h[Picked(s)] + k[s \ {Picked(s)}]
    BY <1>3 DEF FoldOf
  <2> QED BY <1>3, <2>1, <2>2, <2>3
<1>4. SUBSET T \subseteq P
  <2> HIDE DEF P
  <2> QED BY <1>1, <1>2, <1>3, Smaller
<1> QED BY <1>4

\* So a sum unfolds by the element picked.
LEMMA SumStep ==
  ASSUME NEW S, IsFiniteSet(S), NEW h
  PROVE  /\ SumFunctionOnSet(h, {}) = 0
         /\ S # {} => SumFunctionOnSet(h, S)
                        = h[Picked(S)] + SumFunctionOnSet(h, S \ {Picked(S)})
<1> DEFINE F(T) == CHOOSE g : FoldOf(g, h, T)
<1>1. \A T \in SUBSET S : FoldOf(F(T), h, T)
  <2> SUFFICES ASSUME NEW T \in SUBSET S PROVE FoldOf(F(T), h, T)
    OBVIOUS
  <2>1. \E g : FoldOf(g, h, T)
    BY FS_Subset, FoldExists
  <2> QED BY <2>1
<1>2. \A T \in SUBSET S : SumFunctionOnSet(h, T) = F(S)[T]
  <2> SUFFICES ASSUME NEW T \in SUBSET S PROVE SumFunctionOnSet(h, T) = F(S)[T]
    OBVIOUS
  <2>1. FoldOf(F(S), h, S) /\ FoldOf(F(T), h, T)
    BY <1>1
  <2>2. SumFunctionOnSet(h, T) = F(T)[T]
    BY SumUnfolds
  <2> HIDE DEF F
  <2> QED BY <2>1, <2>2, FoldsAgree
<1> HIDE DEF F
<1>3. FoldOf(F(S), h, S)
  BY <1>1
<1>4. {} \in SUBSET S /\ S \in SUBSET S /\ S \ {Picked(S)} \in SUBSET S
  OBVIOUS
<1>5. F(S)[{}] = 0 /\ (S # {} => F(S)[S] = h[Picked(S)] + F(S)[S \ {Picked(S)}])
  BY <1>3, <1>4 DEF FoldOf
<1> QED BY <1>2, <1>4, <1>5

\* What can be summed: natural numbers over a finite set.
Tally(h, S) == IsFiniteSet(S) /\ h \in [S -> Nat]

\* The empty sum.
LEMMA SumEmpty ==
  ASSUME NEW h
  PROVE  SumFunctionOnSet(h, {}) = 0
<1>1. IsFiniteSet({})
  BY FS_EmptySet
<1> QED BY <1>1, SumStep

\* Sums of natural numbers are natural numbers.
LEMMA SumNat ==
  ASSUME NEW S, NEW h, Tally(h, S), NEW T, T \subseteq S
  PROVE  SumFunctionOnSet(h, T) \in Nat
<1> DEFINE P == {U \in SUBSET S : SumFunctionOnSet(h, U) \in Nat}
<1>1. {} \in P
  BY SumEmpty
<1>2. ASSUME NEW U \in SUBSET S, U # {}, \A x \in U : U \ {x} \in P PROVE U \in P
  <2>1. Picked(U) \in U
    BY <1>2 DEF Picked
  <2>2. IsFiniteSet(U)
    BY FS_Subset DEF Tally
  <2>3. SumFunctionOnSet(h, U) = h[Picked(U)] + SumFunctionOnSet(h, U \ {Picked(U)})
    BY <1>2, <2>2, SumStep
  <2>4. h[Picked(U)] \in Nat
    BY <2>1 DEF Tally
  <2> QED BY <1>2, <2>1, <2>3, <2>4
<1>3. SUBSET S \subseteq P
  <2> HIDE DEF P
  <2> QED BY <1>1, <1>2, Smaller DEF Tally
<1> QED BY <1>3

\* A sum unfolds by any of its elements.
LEMMA SumRemove ==
  ASSUME NEW S, NEW h, Tally(h, S), NEW T, T \subseteq S, NEW x, x \in T
  PROVE  /\ SumFunctionOnSet(h, T) = h[x] + SumFunctionOnSet(h, T \ {x})
         /\ SumFunctionOnSet(h, T \ {x}) \in Nat
         /\ h[x] \in Nat
<1> DEFINE P == {U \in SUBSET S :
                   \A y \in U : SumFunctionOnSet(h, U) = h[y] + SumFunctionOnSet(h, U \ {y})}
<1>1. {} \in P
  OBVIOUS
<1>2. ASSUME NEW U \in SUBSET S, U # {}, \A y \in U : U \ {y} \in P PROVE U \in P
  <2> SUFFICES ASSUME NEW y \in U PROVE SumFunctionOnSet(h, U) = h[y] + SumFunctionOnSet(h, U \ {y})
    OBVIOUS
  <2> DEFINE p == Picked(U)
  <2>1. p \in U
    BY DEF Picked
  <2>2. SumFunctionOnSet(h, U) = h[p] + SumFunctionOnSet(h, U \ {p})
    BY FS_Subset, SumStep DEF Tally
  <2>3. CASE y = p
    BY <2>2, <2>3
  <2>4. CASE y # p
    <3> HIDE DEF p
    <3>1. y \in U \ {p} /\ p \in U \ {y} /\ (U \ {p}) \ {y} = (U \ {y}) \ {p}
      BY <2>1, <2>4
    <3>2. SumFunctionOnSet(h, U \ {p}) = h[y] + SumFunctionOnSet(h, (U \ {p}) \ {y})
      BY <1>2, <2>1, <3>1
    <3>3. SumFunctionOnSet(h, U \ {y}) = h[p] + SumFunctionOnSet(h, (U \ {y}) \ {p})
      BY <1>2, <2>1, <3>1
    <3>4. h[y] \in Nat /\ h[p] \in Nat
      BY <2>1 DEF Tally
    <3>5. SumFunctionOnSet(h, (U \ {p}) \ {y}) \in Nat
      BY SumNat
    <3> QED BY <2>2, <3>1, <3>2, <3>3, <3>4, <3>5
  <2> QED BY <2>3, <2>4
<1>3. SUBSET S \subseteq P
  <2> HIDE DEF P
  <2> QED BY <1>1, <1>2, Smaller DEF Tally
<1>4. SumFunctionOnSet(h, T) = h[x] + SumFunctionOnSet(h, T \ {x})
  BY <1>3
<1>5. SumFunctionOnSet(h, T \ {x}) \in Nat
  BY SumNat
<1>6. h[x] \in Nat
  BY DEF Tally
<1> QED BY <1>4, <1>5, <1>6

\* What one element more adds.
LEMMA SumExtend ==
  ASSUME NEW S, NEW h, Tally(h, S), NEW T, T \subseteq S, NEW x, x \in S, x \notin T
  PROVE  /\ SumFunctionOnSet(h, T \cup {x}) = h[x] + SumFunctionOnSet(h, T)
         /\ SumFunctionOnSet(h, T) \in Nat
         /\ h[x] \in Nat
<1>1. T \cup {x} \subseteq S /\ x \in T \cup {x} /\ (T \cup {x}) \ {x} = T
  OBVIOUS
<1> QED BY <1>1, SumRemove

\* Sums of functions with the same values on a set are the same.
LEMMA SumSame ==
  ASSUME NEW S, IsFiniteSet(S), NEW h, NEW k, \A x \in S : h[x] = k[x]
  PROVE  SumFunctionOnSet(h, S) = SumFunctionOnSet(k, S)
<1> DEFINE P == {T \in SUBSET S : SumFunctionOnSet(h, T) = SumFunctionOnSet(k, T)}
<1>1. {} \in P
  BY SumEmpty
<1>2. ASSUME NEW T \in SUBSET S, T # {}, \A x \in T : T \ {x} \in P PROVE T \in P
  <2>1. Picked(T) \in T
    BY <1>2 DEF Picked
  <2>2. IsFiniteSet(T)
    BY FS_Subset
  <2>3. SumFunctionOnSet(h, T) = h[Picked(T)] + SumFunctionOnSet(h, T \ {Picked(T)})
    BY <1>2, <2>2, SumStep
  <2>4. SumFunctionOnSet(k, T) = k[Picked(T)] + SumFunctionOnSet(k, T \ {Picked(T)})
    BY <1>2, <2>2, SumStep
  <2> QED BY <1>2, <2>1, <2>3, <2>4
<1>3. SUBSET S \subseteq P
  <2> HIDE DEF P
  <2> QED BY <1>1, <1>2, Smaller
<1> QED BY <1>3

\* The sum of a sum.
LEMMA SumPlus ==
  ASSUME NEW S, NEW h, Tally(h, S), NEW k, Tally(k, S)
  PROVE  SumFunctionOnSet([x \in S |-> h[x] + k[x]], S) = SumFunctionOnSet(h, S) + SumFunctionOnSet(k, S)
<1> DEFINE m == [x \in S |-> h[x] + k[x]]
           P == {T \in SUBSET S : SumFunctionOnSet(m, T) = SumFunctionOnSet(h, T) + SumFunctionOnSet(k, T)}
<1>1. Tally(m, S)
  BY DEF Tally
<1>2. \A x \in S : m[x] = h[x] + k[x]
  OBVIOUS
<1> HIDE DEF m
<1>3. {} \in P
  BY SumEmpty
<1>4. ASSUME NEW T \in SUBSET S, NEW x \in S \ T, T \in P PROVE T \cup {x} \in P
  <2>1. /\ SumFunctionOnSet(h, T \cup {x}) = h[x] + SumFunctionOnSet(h, T)
        /\ SumFunctionOnSet(h, T) \in Nat
        /\ h[x] \in Nat
    BY SumExtend
  <2>2. /\ SumFunctionOnSet(k, T \cup {x}) = k[x] + SumFunctionOnSet(k, T)
        /\ SumFunctionOnSet(k, T) \in Nat
        /\ k[x] \in Nat
    BY SumExtend
  <2>3. SumFunctionOnSet(m, T \cup {x}) = m[x] + SumFunctionOnSet(m, T)
    BY <1>1, SumExtend
  <2> QED BY <1>2, <1>4, <2>1, <2>2, <2>3
<1>5. SUBSET S \subseteq P
  <2> HIDE DEF P
  <2> QED BY <1>3, <1>4, Growing DEF Tally
<1> QED BY <1>5 DEF m

\* A sum is zero exactly when all its terms are.
LEMMA SumZero ==
  ASSUME NEW S, NEW h, Tally(h, S), NEW T, T \subseteq S
  PROVE  SumFunctionOnSet(h, T) = 0 <=> \A x \in T : h[x] = 0
<1> DEFINE P == {U \in SUBSET S : SumFunctionOnSet(h, U) = 0 <=> \A x \in U : h[x] = 0}
<1>1. {} \in P
  BY SumEmpty
<1>2. ASSUME NEW U \in SUBSET S, NEW x \in S \ U, U \in P PROVE U \cup {x} \in P
  <2>1. /\ SumFunctionOnSet(h, U \cup {x}) = h[x] + SumFunctionOnSet(h, U)
        /\ SumFunctionOnSet(h, U) \in Nat
        /\ h[x] \in Nat
    BY SumExtend
  <2> QED BY <1>2, <2>1
<1>3. SUBSET S \subseteq P
  <2> HIDE DEF P
  <2> QED BY <1>1, <1>2, Growing DEF Tally
<1> QED BY <1>3

\* The sum over a part of a set is a sum over the set whose other terms are zero.
LEMMA SumPart ==
  ASSUME NEW S, NEW h, Tally(h, S), NEW U, U \subseteq S
  PROVE  SumFunctionOnSet(h, U) = SumFunctionOnSet([x \in S |-> IF x \in U THEN h[x] ELSE 0], S)
<1> DEFINE k == [x \in S |-> IF x \in U THEN h[x] ELSE 0]
           P == {T \in SUBSET S : SumFunctionOnSet(h, T \cap U) = SumFunctionOnSet(k, T)}
<1>1. Tally(k, S)
  BY DEF Tally
<1>2. \A x \in S : k[x] = IF x \in U THEN h[x] ELSE 0
  OBVIOUS
<1> HIDE DEF k
<1>3. {} \in P
  BY SumEmpty
<1>4. ASSUME NEW T \in SUBSET S, NEW x \in S \ T, T \in P PROVE T \cup {x} \in P
  <2>1. /\ SumFunctionOnSet(k, T \cup {x}) = k[x] + SumFunctionOnSet(k, T)
        /\ SumFunctionOnSet(k, T) \in Nat
        /\ k[x] \in Nat
    BY <1>1, SumExtend
  <2>2. CASE x \in U
    <3>1. (T \cup {x}) \cap U = (T \cap U) \cup {x} /\ T \cap U \subseteq S /\ x \in S /\ x \notin T \cap U
      BY <2>2
    <3>2. /\ SumFunctionOnSet(h, (T \cap U) \cup {x}) = h[x] + SumFunctionOnSet(h, T \cap U)
          /\ SumFunctionOnSet(h, T \cap U) \in Nat
          /\ h[x] \in Nat
      BY <3>1, SumExtend
    <3> QED BY <1>2, <1>4, <2>1, <2>2, <3>1, <3>2
  <2>3. CASE x \notin U
    <3>1. (T \cup {x}) \cap U = T \cap U
      BY <2>3
    <3>2. SumFunctionOnSet(h, T \cap U) = SumFunctionOnSet(k, T) /\ T \cup {x} \in SUBSET S /\ k[x] = 0
      BY <1>2, <1>4, <2>3
    <3> QED BY <2>1, <3>1, <3>2
  <2> QED BY <2>2, <2>3
<1>5. SUBSET S \subseteq P
  <2> HIDE DEF P
  <2> QED BY <1>3, <1>4, Growing DEF Tally
<1>6. S \in P /\ S \cap U = U
  BY <1>5
<1> QED BY <1>6 DEF k

\* A sum with one term that is not zero.
LEMMA SumSingle ==
  ASSUME NEW S, NEW h, Tally(h, S), NEW a, a \in S, \A x \in S \ {a} : h[x] = 0
  PROVE  SumFunctionOnSet(h, S) = h[a]
<1>1. SumFunctionOnSet(h, S) = h[a] + SumFunctionOnSet(h, S \ {a}) /\ h[a] \in Nat
  BY SumRemove
<1>2. SumFunctionOnSet(h, S \ {a}) = 0
  BY SumZero
<1> QED BY <1>1, <1>2

\* The sums of the columns of a table.
Columns(m, S, C) == [c \in C |-> SumFunctionOnSet([x \in S |-> m[x][c]], S)]

\* Row by row or column by column, a table has the same sum.
LEMMA SumTable ==
  ASSUME NEW S, IsFiniteSet(S), NEW C, IsFiniteSet(C), NEW m, \A x \in S : Tally(m[x], C)
  PROVE  SumFunctionOnSet([x \in S |-> SumFunctionOnSet(m[x], C)], S)
           = SumFunctionOnSet(Columns(m, S, C), C)
<1> DEFINE rows     == [x \in S |-> SumFunctionOnSet(m[x], C)]
           Col(c)   == [x \in S |-> m[x][c]]
           Upper(T) == [c \in C |-> SumFunctionOnSet(Col(c), T)]
           P == {T \in SUBSET S : SumFunctionOnSet(rows, T) = SumFunctionOnSet(Upper(T), C)}
<1>0. Tally(rows, S) /\ \A x \in S : rows[x] = SumFunctionOnSet(m[x], C)
  <2>1. \A x \in S : SumFunctionOnSet(m[x], C) \in Nat
    BY SumNat
  <2> QED BY <2>1 DEF Tally
<1>1. ASSUME NEW c \in C PROVE Tally(Col(c), S) /\ \A x \in S : Col(c)[x] = m[x][c]
  BY DEF Tally
<1>2. ASSUME NEW T \in SUBSET S
      PROVE  Tally(Upper(T), C) /\ \A c \in C : Upper(T)[c] = SumFunctionOnSet(Col(c), T)
  <2>1. ASSUME NEW c \in C PROVE SumFunctionOnSet(Col(c), T) \in Nat
    <3> HIDE DEF Col
    <3> QED BY <1>1, SumNat
  <2> HIDE DEF Col
  <2> QED BY <2>1 DEF Tally
<1>3. SumFunctionOnSet(rows, S) = SumFunctionOnSet(Upper(S), C)
  <2> HIDE DEF rows, Col, Upper
  <2>1. {} \in P
    <3>1. \A c \in C : Upper({})[c] = 0
      BY <1>2, SumEmpty
    <3>2. SumFunctionOnSet(Upper({}), C) = 0
      BY <1>2, <3>1, SumZero
    <3> QED BY <3>2, SumEmpty
  <2>2. ASSUME NEW T \in SUBSET S, NEW x \in S \ T, T \in P PROVE T \cup {x} \in P
    <3>1. SumFunctionOnSet(rows, T \cup {x}) = rows[x] + SumFunctionOnSet(rows, T)
      BY <1>0, SumExtend
    <3>2. T \cup {x} \in SUBSET S
      OBVIOUS
    <3>3. ASSUME NEW c \in C PROVE Upper(T \cup {x})[c] = m[x][c] + Upper(T)[c]
      <4>1. SumFunctionOnSet(Col(c), T \cup {x}) = Col(c)[x] + SumFunctionOnSet(Col(c), T)
        BY <1>1, SumExtend
      <4>2. Upper(T \cup {x})[c] = SumFunctionOnSet(Col(c), T \cup {x})
        BY <1>2, <3>2
      <4> QED BY <1>1, <1>2, <4>1, <4>2
    <3>4. Tally(Upper(T), C) /\ Tally(Upper(T \cup {x}), C) /\ Tally(m[x], C)
      BY <1>2, <3>2
    <3>5. SumFunctionOnSet([c \in C |-> m[x][c] + Upper(T)[c]], C)
            = SumFunctionOnSet(m[x], C) + SumFunctionOnSet(Upper(T), C)
      BY <3>4, SumPlus
    <3>6. SumFunctionOnSet(Upper(T \cup {x}), C)
            = SumFunctionOnSet([c \in C |-> m[x][c] + Upper(T)[c]], C)
      BY <3>3, SumSame
    <3> QED BY <1>0, <2>2, <3>1, <3>2, <3>5, <3>6
  <2> HIDE DEF P
  <2>3. SUBSET S \subseteq P
    BY <2>1, <2>2, Growing
  <2> QED BY <2>3 DEF P
<1>4. Upper(S) = Columns(m, S, C)
  BY DEF Columns
<1> QED BY <1>3, <1>4

\* A factor of all terms.
LEMMA SumScaled ==
  ASSUME NEW S, NEW h, Tally(h, S), NEW w, w \in Nat
  PROVE  SumFunctionOnSet([x \in S |-> w * h[x]], S) = w * SumFunctionOnSet(h, S)
<1> DEFINE m == [x \in S |-> w * h[x]]
           P == {T \in SUBSET S : SumFunctionOnSet(m, T) = w * SumFunctionOnSet(h, T)}
<1>1. Tally(m, S)
  BY DEF Tally
<1>2. \A x \in S : m[x] = w * h[x]
  OBVIOUS
<1> HIDE DEF m
<1>3. {} \in P
  BY SumEmpty
<1>4. ASSUME NEW T \in SUBSET S, NEW x \in S \ T, T \in P PROVE T \cup {x} \in P
  <2>1. /\ SumFunctionOnSet(h, T \cup {x}) = h[x] + SumFunctionOnSet(h, T)
        /\ SumFunctionOnSet(h, T) \in Nat
        /\ h[x] \in Nat
    BY SumExtend
  <2>2. SumFunctionOnSet(m, T \cup {x}) = m[x] + SumFunctionOnSet(m, T)
    BY <1>1, SumExtend
  <2>3. w * (h[x] + SumFunctionOnSet(h, T)) = w * h[x] + w * SumFunctionOnSet(h, T)
    BY <2>1
  <2> QED BY <1>2, <1>4, <2>1, <2>2, <2>3
<1>5. SUBSET S \subseteq P
  <2> HIDE DEF P
  <2> QED BY <1>3, <1>4, Growing DEF Tally
<1> QED BY <1>5 DEF m

\* The same number for each element.
LEMMA SumConstant ==
  ASSUME NEW S, IsFiniteSet(S), NEW w, w \in Nat
  PROVE  SumFunctionOnSet([x \in S |-> w], S) = w * Cardinality(S)
<1> DEFINE m == [x \in S |-> w]
           P == {T \in SUBSET S : SumFunctionOnSet(m, T) = w * Cardinality(T)}
<1>1. Tally(m, S)
  BY DEF Tally
<1>2. \A x \in S : m[x] = w
  OBVIOUS
<1> HIDE DEF m
<1>3. {} \in P
  BY SumEmpty, FS_EmptySet
<1>4. ASSUME NEW T \in SUBSET S, NEW x \in S \ T, T \in P PROVE T \cup {x} \in P
  <2>1. SumFunctionOnSet(m, T \cup {x}) = m[x] + SumFunctionOnSet(m, T)
    BY <1>1, SumExtend
  <2>2. IsFiniteSet(T)
    BY FS_Subset
  <2>3. Cardinality(T \cup {x}) = Cardinality(T) + 1 /\ Cardinality(T) \in Nat
    BY <2>2, FS_AddElement, FS_CardinalityType
  <2>4. w * (Cardinality(T) + 1) = w + w * Cardinality(T)
    BY <2>3
  <2> QED BY <1>2, <1>4, <2>1, <2>3, <2>4
<1>5. SUBSET S \subseteq P
  <2> HIDE DEF P
  <2> QED BY <1>3, <1>4, Growing
<1> QED BY <1>5 DEF m

\* What each group of a key has of a sum.
GroupSums(key, h, S, C) ==
    [c \in C |-> SumFunctionOnSet([x \in S |-> IF key[x] = c THEN h[x] ELSE 0], S)]

\* What is grouped by a key adds up to the whole; a term without a group is zero.
LEMMA SumGroups ==
  ASSUME NEW S, NEW C, IsFiniteSet(C), NEW key, NEW h, Tally(h, S),
         \A x \in S : key[x] \in C \/ h[x] = 0
  PROVE  SumFunctionOnSet(GroupSums(key, h, S, C), C) = SumFunctionOnSet(h, S)
<1> DEFINE m == [x \in S |-> [c \in C |-> IF key[x] = c THEN h[x] ELSE 0]]
<1>1. ASSUME NEW x \in S
      PROVE  /\ Tally(m[x], C)
             /\ key[x] \in C => m[x][key[x]] = h[x]
             /\ \A c \in C \ {key[x]} : m[x][c] = 0
  BY DEF Tally
<1>2. ASSUME NEW c \in C
      PROVE  [x \in S |-> IF key[x] = c THEN h[x] ELSE 0] = [x \in S |-> m[x][c]]
  OBVIOUS
<1> HIDE DEF m
<1>3. ASSUME NEW x \in S PROVE SumFunctionOnSet(m[x], C) = h[x]
  <2>1. CASE key[x] \in C
    BY <1>1, <2>1, SumSingle
  <2>2. CASE key[x] \notin C
    <3>1. \A c \in C : m[x][c] = 0
      BY <1>1, <2>2
    <3>2. SumFunctionOnSet(m[x], C) = 0
      BY <1>1, <3>1, SumZero
    <3> QED BY <2>2, <3>2
  <2> QED BY <2>1, <2>2
<1>4. SumFunctionOnSet([x \in S |-> SumFunctionOnSet(m[x], C)], S)
        = SumFunctionOnSet(Columns(m, S, C), C)
  <2>1. \A x \in S : Tally(m[x], C)
    BY <1>1
  <2>2. IsFiniteSet(S)
    BY DEF Tally
  <2> QED BY <2>1, <2>2, SumTable
<1>5. SumFunctionOnSet([x \in S |-> SumFunctionOnSet(m[x], C)], S) = SumFunctionOnSet(h, S)
  BY <1>3, SumSame DEF Tally
<1>6. GroupSums(key, h, S, C) = Columns(m, S, C)
  BY <1>2 DEF GroupSums, Columns
<1> QED BY <1>4, <1>5, <1>6

\* Several sums, each grouped by the same keys.
LEMMA SumGroupsOfParts ==
  ASSUME NEW S, IsFiniteSet(S), NEW C, IsFiniteSet(C), NEW E, NEW key, NEW h,
         \A k \in S : Tally(h[k], E[k]) /\ \A i \in E[k] : key[k][i] \in C
  PROVE  /\ SumFunctionOnSet(Columns([k \in S |-> GroupSums(key[k], h[k], E[k], C)], S, C), C)
              = SumFunctionOnSet([k \in S |-> SumFunctionOnSet(h[k], E[k])], S)
         /\ \A k \in S : Tally(GroupSums(key[k], h[k], E[k], C), C)
<1> DEFINE m == [k \in S |-> GroupSums(key[k], h[k], E[k], C)]
<1>1. ASSUME NEW k \in S
      PROVE  /\ SumFunctionOnSet(m[k], C) = SumFunctionOnSet(h[k], E[k])
             /\ Tally(m[k], C)
             /\ m[k] = GroupSums(key[k], h[k], E[k], C)
  <2>1. m[k] = GroupSums(key[k], h[k], E[k], C)
    OBVIOUS
  <2>2. Tally(h[k], E[k]) /\ \A i \in E[k] : key[k][i] \in C \/ h[k][i] = 0
    OBVIOUS
  <2> HIDE DEF m
  <2>3. SumFunctionOnSet(m[k], C) = SumFunctionOnSet(h[k], E[k])
    BY <2>1, <2>2, SumGroups
  <2>4. ASSUME NEW c \in C PROVE GroupSums(key[k], h[k], E[k], C)[c] \in Nat
    <3> DEFINE g == [x \in E[k] |-> IF key[k][x] = c THEN h[k][x] ELSE 0]
    <3>1. Tally(g, E[k])
      BY <2>2 DEF Tally
    <3>2. GroupSums(key[k], h[k], E[k], C)[c] = SumFunctionOnSet(g, E[k])
      BY DEF GroupSums
    <3> HIDE DEF g
    <3> QED BY <3>1, <3>2, SumNat
  <2>5. Tally(GroupSums(key[k], h[k], E[k], C), C)
    <3>1. GroupSums(key[k], h[k], E[k], C) \in [C -> Nat]
      BY <2>4 DEF GroupSums
    <3> QED BY <3>1 DEF Tally
  <2> QED BY <2>1, <2>3, <2>5
<1> HIDE DEF m
<1>2. SumFunctionOnSet([k \in S |-> SumFunctionOnSet(m[k], C)], S) = SumFunctionOnSet(Columns(m, S, C), C)
  <2>1. \A k \in S : Tally(m[k], C)
    BY <1>1
  <2> QED BY <2>1, SumTable
<1>3. [k \in S |-> SumFunctionOnSet(m[k], C)] = [k \in S |-> SumFunctionOnSet(h[k], E[k])]
  BY <1>1
<1>4. SumFunctionOnSet(Columns(m, S, C), C) = SumFunctionOnSet([k \in S |-> SumFunctionOnSet(h[k], E[k])], S)
  BY <1>2, <1>3
<1>5. \A k \in S : Tally(GroupSums(key[k], h[k], E[k], C), C)
  BY <1>1
<1> QED BY <1>4, <1>5 DEF m

\* Summing over the images of a set under an injection.
LEMMA SumImage ==
  ASSUME NEW S, IsFiniteSet(S), NEW D, NEW f, f \in Bijection(S, D), NEW h, Tally(h, D)
  PROVE  SumFunctionOnSet(h, D) = SumFunctionOnSet([x \in S |-> h[f[x]]], S)
<1> DEFINE k    == [x \in S |-> h[f[x]]]
           g(d) == [x \in S |-> IF f[x] = d THEN k[x] ELSE 0]
<1>0. f \in [S -> D] /\ (\A x, y \in S : f[x] = f[y] => x = y) /\ (\A d \in D : \E x \in S : f[x] = d)
  BY DEF Bijection, Injection, IsInjective, Surjection
<1>1. Tally(k, S)
  BY <1>0 DEF Tally
<1>2. ASSUME NEW d \in D PROVE SumFunctionOnSet(g(d), S) = h[d]
  <2>1. PICK a \in S : f[a] = d
    BY <1>0
  <2>2. Tally(g(d), S) /\ g(d)[a] = h[d] /\ \A x \in S \ {a} : g(d)[x] = 0
    BY <1>0, <2>1 DEF Tally
  <2> HIDE DEF g
  <2> QED BY <2>2, SumSingle
<1>3. SumFunctionOnSet(GroupSums(f, k, S, D), D) = SumFunctionOnSet(k, S)
  <2>1. IsFiniteSet(D)
    BY DEF Tally
  <2>2. \A x \in S : f[x] \in D
    BY <1>0
  <2> HIDE DEF k
  <2> QED BY <1>1, <2>1, <2>2, SumGroups
<1>4. SumFunctionOnSet(GroupSums(f, k, S, D), D) = SumFunctionOnSet(h, D)
  <2>1. \A d \in D : GroupSums(f, k, S, D)[d] = h[d]
    BY <1>2 DEF GroupSums
  <2> QED BY <2>1, SumSame DEF Tally
<1> QED BY <1>3, <1>4

\* The image of a finite set is finite.
LEMMA ImageFinite ==
  ASSUME NEW S, IsFiniteSet(S), NEW f, DOMAIN f = S
  PROVE  IsFiniteSet({f[x] : x \in S})
<1> DEFINE T == {f[x] : x \in S}
           g == [x \in S |-> f[x]]
<1>1. g \in Surjection(S, T)
  BY DEF Surjection
<1> HIDE DEF g, T
<1>2. IsFiniteSet(T)
  BY <1>1, FS_Surjection
<1> QED BY <1>2 DEF T

\* A function without equal values numbers its values.
LEMMA Renumbered ==
  ASSUME NEW S, NEW f, f = [x \in S |-> f[x]], \A x, y \in S : f[x] = f[y] => x = y
  PROVE  f \in Bijection(S, {f[x] : x \in S})
<1>1. f \in [S -> {f[x] : x \in S}]
  OBVIOUS
<1>2. \A d \in {f[x] : x \in S} : \E x \in S : f[x] = d
  OBVIOUS
<1>3. f \in Injection(S, {f[x] : x \in S})
  BY <1>1 DEF Injection, IsInjective
<1>4. f \in Surjection(S, {f[x] : x \in S})
  BY <1>1, <1>2 DEF Surjection
<1> QED BY <1>3, <1>4 DEF Bijection

\* A sum over a set of records, each with a key of its own, is a sum over the keys.
LEMMA SumRecords ==
  ASSUME NEW R, IsFiniteSet(R), NEW A, NEW rec, rec \in Bijection(R, A), NEW v, v \in [A -> Nat]
  PROVE  SumFunctionOnSet(v, A) = SumFunctionOnSet([x \in R |-> v[rec[x]]], R)
<1>1. IsFiniteSet(A)
  <2>1. rec \in Surjection(R, A)
    BY DEF Bijection
  <2> QED BY <2>1, FS_Surjection
<1>2. Tally(v, A)
  BY <1>1 DEF Tally
<1> QED BY <1>2, SumImage

\* A finite set of natural numbers has a highest one.
LEMMA MaxOfNats ==
  ASSUME NEW S, IsFiniteSet(S), S # {}, S \subseteq Nat
  PROVE  Max(S) \in S /\ \A x \in S : x <= Max(S)
<1> DEFINE P == {T \in SUBSET S : T = {} \/ \E y \in T : \A x \in T : y >= x}
<1>1. ASSUME NEW T \in SUBSET S, NEW x \in S \ T, T \in P PROVE T \cup {x} \in P
  <2>1. CASE T = {}
    BY <2>1
  <2>2. CASE T # {}
    <3>1. PICK y \in T : \A z \in T : y >= z
      BY <1>1, <2>2
    <3>2. x \in Nat /\ y \in Nat /\ T \subseteq Nat
      BY <3>1
    <3>3. CASE y >= x
      BY <3>1, <3>3
    <3>4. CASE x > y
      <4>1. \A z \in T \cup {x} : x >= z
        BY <3>1, <3>2, <3>4
      <4> QED BY <4>1
    <3> QED BY <3>2, <3>3, <3>4
  <2> QED BY <2>1, <2>2
<1>2. SUBSET S \subseteq P
  <2>1. {} \in P
    OBVIOUS
  <2> HIDE DEF P
  <2> QED BY <1>1, <2>1, Growing
<1>3. \E y \in S : \A x \in S : y >= x
  BY <1>2
<1>4. Max(S) \in S /\ \A x \in S : Max(S) >= x
  BY <1>3 DEF Max
<1> QED BY <1>4

\* A finite union of finite sets is finite.
LEMMA UnionFinite ==
  ASSUME NEW S, IsFiniteSet(S), NEW f, DOMAIN f = S, \A x \in S : IsFiniteSet(f[x])
  PROVE  IsFiniteSet(UNION {f[x] : x \in S})
<1>1. IsFiniteSet({f[x] : x \in S})
  BY ImageFinite
<1>2. \A T \in {f[x] : x \in S} : IsFiniteSet(T)
  OBVIOUS
<1> QED BY <1>1, <1>2, FS_UNION

-----------------------------------------------------------------------------
(* The estimate of a quota (lib/quota.ts). *)

\* A day ends after a time exactly when it is not before the time's day.
LEMMA DayReaches ==
  ASSUME NEW day \in Int, NEW start \in Int
  PROVE  day >= start \div HoursADay <=> (day + 1) * HoursADay > start
BY DEF HoursADay

\* The entries of a sequence.
LEMMA Entries ==
  ASSUME NEW R, NEW s, s \in Seq(R)
  PROVE  /\ IsFiniteSet(DOMAIN s)
         /\ \A i \in DOMAIN s : s[i] \in R
<1>1. DOMAIN s = 1..Len(s) /\ Len(s) \in Nat
  OBVIOUS
<1> QED BY <1>1, FS_Interval

\* The sum of a part of a sequence.
LEMMA TotalIsSum ==
  ASSUME NEW c, c.days \in Seq([day : Nat, credits : Nat]), c.reset \in Int, c.hours \in Int
  PROVE  /\ Total(inCycle(c.days, c.reset - c.hours), LAMBDA d : d.credits) = Used(c)
         /\ Used(c) \in Nat
<1> DEFINE start == c.reset - c.hours
           D == DOMAIN c.days
           U == {i \in D : c.days[i].day >= start \div HoursADay}
           h == [i \in D |-> c.days[i].credits]
           k == [i \in D |-> IF i \in U THEN h[i] ELSE 0]
           Days == c.days
<1>1. ASSUME NEW i \in D PROVE c.days[i].day \in Nat /\ c.days[i].credits \in Nat
  <2>1. c.days[i] \in [day : Nat, credits : Nat]
    BY Entries
  <2> QED BY <2>1
<1>2. IsFiniteSet(D)
  BY Entries
<1>3. Tally(h, D) /\ Tally(k, D) /\ U \subseteq D
  BY <1>1, <1>2 DEF Tally
<1>4. Total(inCycle(c.days, start), LAMBDA d : d.credits) = SumFunctionOnSet([i \in U |-> c.days[i].credits], U)
  BY DEF Total, SumOver, SumFunction, inCycle, RestrictValues, Restrict
<1>5. SumFunctionOnSet([i \in U |-> c.days[i].credits], U) = SumFunctionOnSet(h, U)
  <2>1. IsFiniteSet(U)
    BY <1>2, FS_Subset
  <2>2. \A i \in U : [j \in U |-> c.days[j].credits][i] = h[i]
    OBVIOUS
  <2> QED BY <2>1, <2>2, SumSame
<1>6. SumFunctionOnSet(h, U) = SumFunctionOnSet(k, D)
  <2> HIDE DEF h, U, D
  <2> QED BY <1>3, SumPart
<1>7. Used(c) = SumFunctionOnSet(k, D)
  <2>1. ASSUME NEW i \in D
        PROVE  c.days[i].day >= start \div HoursADay <=> (c.days[i].day + 1) * HoursADay > start
    <3> HIDE DEF D
    <3>1. start \in Int /\ c.days[i].day \in Int
      BY <1>1
    <3> HIDE DEF start
    <3> QED BY <3>1, DayReaches
  <2>2. k = [i \in D |-> IF (c.days[i].day + 1) * HoursADay > c.reset - c.hours THEN c.days[i].credits ELSE 0]
    <3> HIDE DEF D
    <3> QED BY <2>1
  <2> HIDE DEF k
  <2> QED BY <2>2 DEF Used, Total, SumOver, SumFunction
<1>8. SumFunctionOnSet(k, D) \in Nat
  <2> HIDE DEF k, D
  <2> QED BY <1>3, SumNat
<1> QED BY <1>4, <1>5, <1>6, <1>7, <1>8

\* A whole percentage, rounded, is within a half of what it stands for.
LEMMA PercentRounds ==
  ASSUME NEW used \in Nat, NEW allowance \in Nat \ {0}
  PROVE  LET p == Percent(used, allowance)
         IN  /\ p \in Nat
             /\ 200 * used <= allowance * (2 * p + 1)
             /\ allowance * (2 * p - 1) <= 200 * used
             /\ used = 0 => p = 0
<1> DEFINE x == 200 * used + allowance
           d == 2 * allowance
           p == x \div d
<1>1. x \in Int /\ d \in Int /\ d > 0 /\ x >= 0
  OBVIOUS
<1>2. p \in Int /\ p * d <= x /\ x < p * d + d
  <2> HIDE DEF x, d
  <2> QED BY <1>1, DivBounds
<1>3. p \in Nat
  <2> HIDE DEF x, d
  <2> QED BY <1>1
<1>4. Percent(used, allowance) = p
  BY DEF Percent
<1> HIDE DEF p
<1>5. allowance * (2 * p - 1) <= 200 * used
  <2>1. p * d = allowance * (2 * p - 1) + allowance
    BY <1>3
  <2>2. allowance * (2 * p - 1) \in Int
    BY <1>3
  <2> QED BY <1>2, <2>1, <2>2
<1>6. 200 * used <= allowance * (2 * p + 1)
  <2>1. p * d + d = allowance * (2 * p + 1) + allowance
    BY <1>3
  <2>2. allowance * (2 * p + 1) \in Int
    BY <1>3
  <2> QED BY <1>2, <2>1, <2>2
<1>7. used = 0 => p = 0
  <2> SUFFICES ASSUME used = 0, p # 0 PROVE FALSE
    OBVIOUS
  <2>1. p >= 1 /\ p * d <= allowance
    BY <1>2, <1>3
  <2>2. p * d >= d
    BY <1>1, <1>3, <2>1
  <2> QED BY <2>1, <2>2, <1>3
<1> QED BY <1>3, <1>4, <1>5, <1>6, <1>7

\* The bounds that the panel shows are given of every fresh probe from 1% on, and
\* what was really granted lies between them.
LEMMA EstimateBounded ==
  ASSUME NEW c \in Cycles, NEW allowance \in Allowances
  PROVE  LET e == Estimated(c, allowance)
         IN  /\ e.reason = "none" => /\ e.low[1] <= allowance * e.low[2]
                                     /\ allowance * e.high[2] <= e.high[1]
             /\ e.reason = "none" <=> c.now - c.fetched <= 6 /\ Percent(Used(c), allowance) >= 1
<1> DEFINE p == Percent(Used(c), allowance)
           u == Used(c)
           e == Estimated(c, allowance)
<1>1. c.days \in Seq([day : Nat, credits : Nat]) /\ c.reset \in Int /\ c.hours \in Int
      /\ c.fetched \in Int /\ c.now \in Int
  BY ReportsTyped
<1>2. Total(inCycle(c.days, c.reset - c.hours), LAMBDA d : d.credits) = u /\ u \in Nat
  BY <1>1, TotalIsSum
<1>3. allowance \in Nat \ {0}
  BY ReportsTyped
<1>4. p \in Nat /\ 200 * u <= allowance * (2 * p + 1) /\ allowance * (2 * p - 1) <= 200 * u
      /\ (u = 0 => p = 0)
  BY <1>2, <1>3, PercentRounds
<1>5. e = CASE c.now - c.fetched > 6 -> [reason |-> "window_stale"]
            [] c.now - c.fetched <= 6 /\ u <= 0 -> [reason |-> "no_credits"]
            [] c.now - c.fetched <= 6 /\ u > 0 /\ p < 1 -> [reason |-> "percent_too_low"]
            [] OTHER -> [reason |-> "none", low |-> <<200 * u, 2 * p + 1>>, high |-> <<200 * u, 2 * p - 1>>]
  <2> HIDE DEF p
  <2> QED BY <1>2 DEF Estimated, cycleEstimate, p
<1> HIDE DEF p, u, e
<1>0. u \in Nat /\ p \in Nat /\ c.now - c.fetched \in Int
  BY <1>1, <1>2, <1>4
<1>6. CASE c.now - c.fetched > 6
  <2>1. e = [reason |-> "window_stale"]
    BY <1>0, <1>5, <1>6
  <2> QED BY <1>1, <1>6, <2>1 DEF e, p
<1>7. CASE c.now - c.fetched <= 6 /\ u <= 0
  <2>1. e = [reason |-> "no_credits"]
    BY <1>0, <1>5, <1>7
  <2>2. p = 0
    BY <1>2, <1>4, <1>7
  <2> QED BY <2>1, <2>2 DEF e, p
<1>8. CASE c.now - c.fetched <= 6 /\ u > 0 /\ p < 1
  <2>1. e = [reason |-> "percent_too_low"]
    BY <1>0, <1>5, <1>8
  <2> QED BY <1>4, <1>8, <2>1 DEF e, p
<1>9. CASE c.now - c.fetched <= 6 /\ u > 0 /\ p >= 1
  <2>1. e = [reason |-> "none", low |-> <<200 * u, 2 * p + 1>>, high |-> <<200 * u, 2 * p - 1>>]
    BY <1>0, <1>5, <1>9
  <2> QED BY <1>4, <1>9, <2>1 DEF e, p
<1>10. \/ c.now - c.fetched > 6
       \/ c.now - c.fetched <= 6 /\ u <= 0
       \/ c.now - c.fetched <= 6 /\ u > 0 /\ p < 1
       \/ c.now - c.fetched <= 6 /\ u > 0 /\ p >= 1
  BY <1>0
<1> QED BY <1>6, <1>7, <1>8, <1>9, <1>10

\* For every cycle, allowance and moment: what the panel shows as bounds of the quota are
\* bounds of it, and they are shown of every probe of the last six hours from 1% on
\* (cycleEstimate).
THEOREM BoundsAreSound == BoundsSound
BY EstimateBounded DEF BoundsSound, BoundsHold, BoundsGiven

-----------------------------------------------------------------------------
(* The split of a settlement (usage/OfficialTab.tsx). *)

\* An entry of a day's shares.
ShareRow == [model : STRING, speed : STRING, percent : Int]

\* Days are numbered, by a sequence or a part of one.
Dated(D) == IsFiniteSet(DOMAIN D) /\ \A k \in DOMAIN D : D[k] \in OfficialDay

\* The percentages of a day, and those of one row.
DayTotal(d)    == Total(d.shares, LAMBDA m : Positive(m.percent))
DayRow(d, row) == Total(d.shares, LAMBDA m : IF <<m.model, m.speed>> = row THEN Positive(m.percent) ELSE 0)

\* A day's unit is fine enough.
Fine(d) == DayTotal(d) > 0 => Whole % DayTotal(d) = 0 /\ d.credits % Whole = 0

\* The unit of the shares.
LEMMA WholeNat == Whole \in Nat /\ Whole > 0
BY WholeDivides

\* The parts of a day, each a sequence.
LEMMA DayParts ==
  ASSUME NEW d, d \in OfficialDay
  PROVE  /\ d.day \in Nat /\ d.credits \in Nat
         /\ d.clients \in Seq([client : STRING, credits : Nat, turns : Nat])
         /\ d.shares \in Seq(ShareRow)
         /\ d.models \in Seq([model : STRING, turns : Nat])
BY DEF OfficialDay, ShareRow

\* A day's total percentage and that of a row are natural numbers.
LEMMA DayTotals ==
  ASSUME NEW d, d \in OfficialDay
  PROVE  /\ DayTotal(d) \in Nat
         /\ DayTotal(d) > 0 <=> \E i \in DOMAIN d.shares : d.shares[i].percent > 0
         /\ \A row : DayRow(d, row) \in Nat
<1> DEFINE I == DOMAIN d.shares
           h == [i \in I |-> Positive(d.shares[i].percent)]
           g(row) == [i \in I |-> IF <<d.shares[i].model, d.shares[i].speed>> = row
                                  THEN Positive(d.shares[i].percent) ELSE 0]
<1>1. IsFiniteSet(I) /\ \A i \in I : d.shares[i] \in ShareRow
  BY DayParts, Entries
<1>2. \A i \in I : d.shares[i].percent \in Int
  BY <1>1 DEF ShareRow
<1>3. Tally(h, I) /\ \A row : Tally(g(row), I)
  BY <1>1, <1>2 DEF Tally, Positive
<1>4. DayTotal(d) = SumFunctionOnSet(h, I)
  BY DEF DayTotal, Total, SumOver, SumFunction
<1>5. \A row : DayRow(d, row) = SumFunctionOnSet(g(row), I)
  BY DEF DayRow, Total, SumOver, SumFunction
<1>6. \A i \in I : h[i] = 0 <=> ~(d.shares[i].percent > 0)
  BY <1>2 DEF Positive
<1> HIDE DEF I, h, g
<1>7. DayTotal(d) \in Nat /\ \A row : DayRow(d, row) \in Nat
  BY <1>3, <1>4, <1>5, SumNat
<1>8. DayTotal(d) = 0 <=> \A i \in I : h[i] = 0
  BY <1>3, <1>4, SumZero
<1> QED BY <1>6, <1>7, <1>8 DEF I

\* The rows that have a part of a day make up the day.
LEMMA DayRows ==
  ASSUME NEW d, d \in OfficialDay, NEW R, IsFiniteSet(R),
         \A i \in DOMAIN d.shares : d.shares[i].percent > 0 => <<d.shares[i].model, d.shares[i].speed>> \in R
  PROVE  SumFunctionOnSet([r \in R |-> DayRow(d, r)], R) = DayTotal(d)
<1> DEFINE I == DOMAIN d.shares
           h == [i \in I |-> Positive(d.shares[i].percent)]
           key == [i \in I |-> <<d.shares[i].model, d.shares[i].speed>>]
           g(row) == [i \in I |-> IF key[i] = row THEN h[i] ELSE 0]
<1>1. IsFiniteSet(I) /\ \A i \in I : d.shares[i] \in ShareRow
  BY DayParts, Entries
<1>2. \A i \in I : d.shares[i].percent \in Int
  BY <1>1 DEF ShareRow
<1>3. Tally(h, I)
  BY <1>1, <1>2 DEF Tally, Positive
<1>4. DayTotal(d) = SumFunctionOnSet(h, I)
  BY DEF DayTotal, Total, SumOver, SumFunction
<1>5. ASSUME NEW row PROVE DayRow(d, row) = SumFunctionOnSet(g(row), I)
  <2>1. g(row) = [i \in I |-> IF <<d.shares[i].model, d.shares[i].speed>> = row
                              THEN Positive(d.shares[i].percent) ELSE 0]
    OBVIOUS
  <2> HIDE DEF g
  <2> QED BY <2>1 DEF DayRow, Total, SumOver, SumFunction
<1>6. \A i \in I : key[i] \in R \/ h[i] = 0
  BY <1>2 DEF Positive
<1>7. SumFunctionOnSet(GroupSums(key, h, I, R), R) = SumFunctionOnSet(h, I)
  <2>1. \A x \in I : key[x] \in R \/ h[x] = 0
    BY <1>6
  <2> HIDE DEF h, key, I
  <2> QED BY <1>3, <2>1, SumGroups
<1>8. [r \in R |-> DayRow(d, r)] = GroupSums(key, h, I, R)
  BY <1>5 DEF GroupSums
<1> QED BY <1>4, <1>7, <1>8

\* The shares of a day are a whole, its credits are split without a remainder.
LEMMA DayShares ==
  ASSUME NEW d, d \in OfficialDay, Fine(d), NEW R, IsFiniteSet(R),
         \A i \in DOMAIN d.shares : d.shares[i].percent > 0 => <<d.shares[i].model, d.shares[i].speed>> \in R
  PROVE  /\ \A r \in R : share(d, r) \in Nat /\ (share(d, r) * d.credits) \div Whole \in Nat
         /\ SumFunctionOnSet([r \in R |-> share(d, r)], R) = IF DayTotal(d) > 0 THEN Whole ELSE 0
         /\ SumFunctionOnSet([r \in R |-> (share(d, r) * d.credits) \div Whole], R)
              = IF DayTotal(d) > 0 THEN d.credits ELSE 0
<1> DEFINE h == [r \in R |-> DayRow(d, r)]
           k == [r \in R |-> share(d, r)]
           c == [r \in R |-> (share(d, r) * d.credits) \div Whole]
           t == DayTotal(d)
           w == Whole \div t
           q == d.credits \div Whole
<1>0. d.credits \in Nat /\ Whole \in Nat /\ Whole > 0 /\ t \in Nat
  BY DayParts, DayTotals, WholeNat
<1>1. Tally(h, R)
  BY DayTotals DEF Tally
<1>2. SumFunctionOnSet(h, R) = t
  BY DayRows
<1>3. \A r \in R : share(d, r) = IF t > 0 THEN h[r] * w ELSE 0
  BY DEF share, DayRow, DayTotal
<1>4. CASE t = 0
  <2>1. \A r \in R : k[r] = 0 /\ c[r] = 0 /\ share(d, r) = 0
    BY <1>0, <1>3, <1>4
  <2>2. Tally(k, R) /\ Tally(c, R)
    BY <2>1 DEF Tally
  <2>3. SumFunctionOnSet(k, R) = 0 /\ SumFunctionOnSet(c, R) = 0
    <3> HIDE DEF k, c
    <3> QED BY <2>1, <2>2, SumZero
  <2> QED BY <1>0, <1>4, <2>1, <2>3, SMTT(60)
<1>5. CASE t > 0
  <2>1. w \in Nat /\ t * w = Whole
    BY <1>0, <1>5, Divides DEF Fine
  <2>2. q \in Nat /\ Whole * q = d.credits
    BY <1>0, <1>5, Divides DEF Fine
  <2> HIDE DEF w, q, t, h
  <2>3. \A r \in R : h[r] \in Nat
    BY <1>1 DEF Tally
  <2>4. \A r \in R : k[r] = w * h[r] /\ k[r] \in Nat
    BY <1>3, <1>5, <2>1, <2>3
  <2>5. SumFunctionOnSet(k, R) = w * t
    <3>1. SumFunctionOnSet([r \in R |-> w * h[r]], R) = w * t
      BY <1>1, <1>2, <2>1, SumScaled
    <3>2. k = [r \in R |-> w * h[r]]
      BY <2>4
    <3> QED BY <3>1, <3>2
  <2>6. Tally(k, R)
    BY <2>4 DEF Tally
  <2>7. ASSUME NEW r \in R PROVE c[r] = q * k[r] /\ c[r] \in Nat
    <3>1. (share(d, r) * (Whole * q)) \div Whole = share(d, r) * q
      BY <1>0, <2>2, <2>4, DivideBack
    <3>2. c[r] = share(d, r) * q
      BY <2>2, <3>1
    <3> QED BY <2>2, <2>4, <3>2
  <2>8. SumFunctionOnSet(c, R) = q * (w * t)
    <3>1. SumFunctionOnSet([r \in R |-> q * k[r]], R) = q * (w * t)
      <4> HIDE DEF k
      <4> QED BY <2>2, <2>5, <2>6, SumScaled
    <3>2. c = [r \in R |-> q * k[r]]
      BY <2>7
    <3> QED BY <3>1, <3>2
  <2>9. w * t = Whole /\ q * (w * t) = d.credits
    BY <1>0, <2>1, <2>2
  <2> QED BY <1>5, <2>4, <2>5, <2>7, <2>8, <2>9 DEF t
<1> QED BY <1>0, <1>4, <1>5

\* The entries of a day's other sequences.
ClientRow == [client : STRING, credits : Nat, turns : Nat]
TurnRow   == [model : STRING, turns : Nat]

\* Where the clients, the names and the rows of the days come from.
LEMMA KeysAre ==
  ASSUME NEW D
  PROVE  /\ \A x : x \in Clients(D) <=> \E k \in DOMAIN D : \E i \in DOMAIN D[k].clients : D[k].clients[i].client = x
         /\ \A x : x \in Named(D) <=> \E k \in DOMAIN D : \E i \in DOMAIN D[k].models : D[k].models[i].model = x
         /\ \A x : x \in Costed(D) <=> \E k \in DOMAIN D : \E i \in DOMAIN D[k].shares :
                      D[k].shares[i].percent > 0 /\ <<D[k].shares[i].model, D[k].shares[i].speed>> = x
<1>1. ASSUME NEW x
      PROVE  x \in Clients(D) <=> \E k \in DOMAIN D : \E i \in DOMAIN D[k].clients : D[k].clients[i].client = x
  BY DEF Clients
<1>2. ASSUME NEW x
      PROVE  x \in Named(D) <=> \E k \in DOMAIN D : \E i \in DOMAIN D[k].models : D[k].models[i].model = x
  BY DEF Named
<1>3. ASSUME NEW x
      PROVE  x \in Costed(D) <=> \E k \in DOMAIN D : \E i \in DOMAIN D[k].shares :
                 D[k].shares[i].percent > 0 /\ <<D[k].shares[i].model, D[k].shares[i].speed>> = x
  BY DEF Costed
<1> QED BY <1>1, <1>2, <1>3

\* The names that the days have, and the rows that cost something, are finitely many.
LEMMA KeysFinite ==
  ASSUME NEW D, Dated(D)
  PROVE  IsFiniteSet(Clients(D)) /\ IsFiniteSet(Named(D)) /\ IsFiniteSet(Costed(D))
<1> DEFINE S == DOMAIN D
           c(k) == [i \in DOMAIN D[k].clients |-> D[k].clients[i].client]
           n(k) == [i \in DOMAIN D[k].models |-> D[k].models[i].model]
           s(k) == [i \in {j \in DOMAIN D[k].shares : D[k].shares[j].percent > 0} |->
                      <<D[k].shares[i].model, D[k].shares[i].speed>>]
           fc == [k \in S |-> {c(k)[i] : i \in DOMAIN c(k)}]
           fn == [k \in S |-> {n(k)[i] : i \in DOMAIN n(k)}]
           fs == [k \in S |-> {s(k)[i] : i \in DOMAIN s(k)}]
<1>1. ASSUME NEW k \in S
      PROVE  IsFiniteSet(DOMAIN c(k)) /\ IsFiniteSet(DOMAIN n(k)) /\ IsFiniteSet(DOMAIN s(k))
  <2>1. IsFiniteSet(DOMAIN D[k].clients) /\ IsFiniteSet(DOMAIN D[k].models) /\ IsFiniteSet(DOMAIN D[k].shares)
    BY DayParts, Entries DEF Dated
  <2>2. IsFiniteSet({j \in DOMAIN D[k].shares : D[k].shares[j].percent > 0})
    BY <2>1, FS_Subset
  <2> QED BY <2>1, <2>2
<1>2. ASSUME NEW k \in S PROVE IsFiniteSet(fc[k]) /\ IsFiniteSet(fn[k]) /\ IsFiniteSet(fs[k])
  <2> HIDE DEF c, n, s
  <2>1. IsFiniteSet({c(k)[i] : i \in DOMAIN c(k)}) /\ IsFiniteSet({n(k)[i] : i \in DOMAIN n(k)})
        /\ IsFiniteSet({s(k)[i] : i \in DOMAIN s(k)})
    BY <1>1, ImageFinite
  <2> QED BY <2>1
<1>3. Clients(D) = UNION {fc[k] : k \in S} /\ Named(D) = UNION {fn[k] : k \in S}
      /\ Costed(D) = UNION {fs[k] : k \in S}
  <2>1. ASSUME NEW k \in S
        PROVE  /\ fc[k] = {D[k].clients[i].client : i \in DOMAIN D[k].clients}
               /\ fn[k] = {D[k].models[i].model : i \in DOMAIN D[k].models}
               /\ \A x : x \in fs[k] <=> \E i \in DOMAIN D[k].shares :
                      D[k].shares[i].percent > 0 /\ <<D[k].shares[i].model, D[k].shares[i].speed>> = x
    OBVIOUS
  <2> HIDE DEF fc, fn, fs
  <2>2. \A x : x \in Clients(D) <=> \E k \in S : x \in fc[k]
    BY <2>1 DEF Clients
  <2>3. \A x : x \in Named(D) <=> \E k \in S : x \in fn[k]
    BY <2>1, KeysAre
  <2>4. \A x : x \in Costed(D) <=> \E k \in S : x \in fs[k]
    BY <2>1, KeysAre
  <2> HIDE DEF S
  <2>5. Clients(D) = UNION {fc[k] : k \in S}
    BY <2>2
  <2>6. Named(D) = UNION {fn[k] : k \in S}
    BY <2>3
  <2>7. Costed(D) = UNION {fs[k] : k \in S}
    BY <2>4
  <2> QED BY <2>5, <2>6, <2>7
<1>4. IsFiniteSet(S)
  BY DEF Dated
<1>5. DOMAIN fc = S /\ DOMAIN fn = S /\ DOMAIN fs = S
  OBVIOUS
<1> HIDE DEF fc, fn, fs, S
<1>6. IsFiniteSet(UNION {fc[k] : k \in S}) /\ IsFiniteSet(UNION {fn[k] : k \in S})
      /\ IsFiniteSet(UNION {fs[k] : k \in S})
  BY <1>2, <1>4, <1>5, UnionFinite
<1> QED BY <1>3, <1>6

\* What the clients have of the days' credits, together, is what the days' clients have.
LEMMA ClientsAddUp ==
  ASSUME NEW D, Dated(D)
  PROVE  SumOver(aggregateClients(D), LAMBDA r : r.credits)
           = Total(D, LAMBDA d : Total(d.clients, LAMBDA c : c.credits))
<1> DEFINE S == DOMAIN D
           C == Clients(D)
           E == [k \in S |-> DOMAIN D[k].clients]
           key == [k \in S |-> [i \in E[k] |-> D[k].clients[i].client]]
           h == [k \in S |-> [i \in E[k] |-> D[k].clients[i].credits]]
           m == [k \in S |-> GroupSums(key[k], h[k], E[k], C)]
           mine(c) == Total(D, LAMBDA d : Total(d.clients, LAMBDA e : IF e.client = c THEN e.credits ELSE 0))
           rec == [c \in C |->
                     [client  |-> c,
                      credits |-> mine(c),
                      turns   |-> Total(D, LAMBDA d : Total(d.clients, LAMBDA e : IF e.client = c THEN e.turns ELSE 0))]]
           A == aggregateClients(D)
           v == [r \in A |-> r.credits]
<1>1. IsFiniteSet(S) /\ IsFiniteSet(C)
  BY KeysFinite DEF Dated
<1>2. ASSUME NEW k \in S
      PROVE  IsFiniteSet(E[k]) /\ \A i \in E[k] : D[k].clients[i] \in ClientRow
  BY DayParts, Entries DEF Dated, ClientRow
<1>3. \A k \in S : Tally(h[k], E[k]) /\ \A i \in E[k] : key[k][i] \in C
  <2> SUFFICES ASSUME NEW k \in S PROVE Tally(h[k], E[k]) /\ \A i \in E[k] : key[k][i] \in C
    OBVIOUS
  <2>1. Tally(h[k], E[k])
    BY <1>2 DEF Tally, ClientRow
  <2>2. \A i \in E[k] : key[k][i] \in C
    BY DEF Clients
  <2> QED BY <2>1, <2>2
<1>4. /\ SumFunctionOnSet(Columns(m, S, C), C) = SumFunctionOnSet([k \in S |-> SumFunctionOnSet(h[k], E[k])], S)
      /\ \A k \in S : Tally(GroupSums(key[k], h[k], E[k], C), C)
  <2> HIDE DEF S, C, E, key, h
  <2> QED BY <1>1, <1>3, SumGroupsOfParts
<1>5. ASSUME NEW c \in C PROVE Columns(m, S, C)[c] = mine(c) /\ mine(c) \in Nat
  <2>1. ASSUME NEW k \in S
        PROVE  m[k][c] = Total(D[k].clients, LAMBDA e : IF e.client = c THEN e.credits ELSE 0)
    <3>1. m[k][c] = SumFunctionOnSet([x \in E[k] |-> IF key[k][x] = c THEN h[k][x] ELSE 0], E[k])
      BY DEF GroupSums
    <3>2. [x \in E[k] |-> IF key[k][x] = c THEN h[k][x] ELSE 0]
            = [i \in DOMAIN D[k].clients |-> IF D[k].clients[i].client = c THEN D[k].clients[i].credits ELSE 0]
      OBVIOUS
    <3> QED BY <3>1, <3>2 DEF Total, SumOver, SumFunction
  <2>2. Columns(m, S, C)[c] = SumFunctionOnSet([k \in S |-> m[k][c]], S)
    BY DEF Columns
  <2>3. [k \in S |-> m[k][c]]
          = [k \in S |-> Total(D[k].clients, LAMBDA e : IF e.client = c THEN e.credits ELSE 0)]
    BY <2>1
  <2>4. mine(c) = SumFunctionOnSet([k \in S |-> Total(D[k].clients, LAMBDA e : IF e.client = c THEN e.credits ELSE 0)], S)
    BY DEF Total, SumOver, SumFunction
  <2>5. Tally([k \in S |-> m[k][c]], S)
    BY <1>1, <1>4 DEF Tally
  <2>6. SumFunctionOnSet([k \in S |-> m[k][c]], S) \in Nat
    BY <2>5, SumNat
  <2> QED BY <2>2, <2>3, <2>4, <2>6
<1>6. Total(D, LAMBDA d : Total(d.clients, LAMBDA c : c.credits))
        = SumFunctionOnSet([k \in S |-> SumFunctionOnSet(h[k], E[k])], S)
  <2>1. \A k \in S : SumFunctionOnSet(h[k], E[k]) = Total(D[k].clients, LAMBDA c : c.credits)
    BY DEF Total, SumOver, SumFunction
  <2>2. [k \in S |-> SumFunctionOnSet(h[k], E[k])] = [k \in S |-> Total(D[k].clients, LAMBDA c : c.credits)]
    BY <2>1
  <2> HIDE DEF h, E
  <2> QED BY <2>2 DEF Total, SumOver, SumFunction
<1> HIDE DEF m, S, E, key, h, mine
<1>7. A = {rec[c] : c \in C}
  BY DEF aggregateClients, mine
<1>8. rec \in Bijection(C, A)
  <2>1. \A c \in C : rec[c].client = c
    OBVIOUS
  <2>2. rec = [c \in C |-> rec[c]]
    OBVIOUS
  <2> HIDE DEF rec, A
  <2>3. \A c, d \in C : rec[c] = rec[d] => c = d
    BY <2>1
  <2> QED BY <1>7, <2>2, <2>3, Renumbered
<1>9. v \in [A -> Nat]
  <2>1. \A c \in C : rec[c].credits = mine(c)
    OBVIOUS
  <2> HIDE DEF rec, A
  <2> QED BY <1>5, <1>7, <2>1
<1>10. SumFunctionOnSet(v, A) = SumFunctionOnSet([c \in C |-> v[rec[c]]], C)
  <2> HIDE DEF rec, A, v, C
  <2> QED BY <1>1, <1>8, <1>9, SumRecords
<1>11. \A c \in C : [d \in C |-> v[rec[d]]][c] = Columns(m, S, C)[c]
  <2>1. \A c \in C : v[rec[c]] = mine(c)
    BY <1>7
  <2> QED BY <1>5, <2>1
<1>12. SumFunctionOnSet([c \in C |-> v[rec[c]]], C) = SumFunctionOnSet(Columns(m, S, C), C)
  <2> HIDE DEF rec, v, C
  <2> QED BY <1>1, <1>11, SumSame
<1>13. SumOver(aggregateClients(D), LAMBDA r : r.credits) = SumFunctionOnSet(v, A)
  BY DEF SumOver, SumFunction
<1> QED BY <1>4, <1>6, <1>10, <1>12, <1>13

\* The turns of the models, together, are those of the days.
LEMMA ModelTurnsAddUp ==
  ASSUME NEW D, Dated(D)
  PROVE  /\ \A x \in Named(D) : ModelTurns(D, x) \in Nat
         /\ SumFunctionOnSet([x \in Named(D) |-> ModelTurns(D, x)], Named(D))
              = Total(D, LAMBDA d : Total(d.models, LAMBDA m : m.turns))
<1> DEFINE S == DOMAIN D
           C == Named(D)
           E == [k \in S |-> DOMAIN D[k].models]
           key == [k \in S |-> [i \in E[k] |-> D[k].models[i].model]]
           h == [k \in S |-> [i \in E[k] |-> D[k].models[i].turns]]
           m == [k \in S |-> GroupSums(key[k], h[k], E[k], C)]
<1>1. IsFiniteSet(S) /\ IsFiniteSet(C)
  BY KeysFinite DEF Dated
<1>2. ASSUME NEW k \in S
      PROVE  IsFiniteSet(E[k]) /\ \A i \in E[k] : D[k].models[i] \in TurnRow
  BY DayParts, Entries DEF Dated, TurnRow
<1>3. \A k \in S : Tally(h[k], E[k]) /\ \A i \in E[k] : key[k][i] \in C
  <2> SUFFICES ASSUME NEW k \in S PROVE Tally(h[k], E[k]) /\ \A i \in E[k] : key[k][i] \in C
    OBVIOUS
  <2>1. Tally(h[k], E[k])
    BY <1>2 DEF Tally, TurnRow
  <2>2. \A i \in E[k] : key[k][i] \in C
    BY KeysAre
  <2> QED BY <2>1, <2>2
<1>4. /\ SumFunctionOnSet(Columns(m, S, C), C) = SumFunctionOnSet([k \in S |-> SumFunctionOnSet(h[k], E[k])], S)
      /\ \A k \in S : Tally(GroupSums(key[k], h[k], E[k], C), C)
  <2> HIDE DEF S, C, E, key, h
  <2> QED BY <1>1, <1>3, SumGroupsOfParts
<1>5. ASSUME NEW c \in C PROVE Columns(m, S, C)[c] = ModelTurns(D, c) /\ ModelTurns(D, c) \in Nat
  <2>1. ASSUME NEW k \in S
        PROVE  m[k][c] = Total(D[k].models, LAMBDA e : IF e.model = c THEN e.turns ELSE 0)
    <3>1. m[k][c] = SumFunctionOnSet([x \in E[k] |-> IF key[k][x] = c THEN h[k][x] ELSE 0], E[k])
      BY DEF GroupSums
    <3>2. [x \in E[k] |-> IF key[k][x] = c THEN h[k][x] ELSE 0]
            = [i \in DOMAIN D[k].models |-> IF D[k].models[i].model = c THEN D[k].models[i].turns ELSE 0]
      OBVIOUS
    <3> QED BY <3>1, <3>2 DEF Total, SumOver, SumFunction
  <2>2. Columns(m, S, C)[c] = SumFunctionOnSet([k \in S |-> m[k][c]], S)
    BY DEF Columns
  <2>3. [k \in S |-> m[k][c]]
          = [k \in S |-> Total(D[k].models, LAMBDA e : IF e.model = c THEN e.turns ELSE 0)]
    BY <2>1
  <2>4. ModelTurns(D, c)
          = SumFunctionOnSet([k \in S |-> Total(D[k].models, LAMBDA e : IF e.model = c THEN e.turns ELSE 0)], S)
    BY DEF ModelTurns, Total, SumOver, SumFunction
  <2>5. Tally([k \in S |-> m[k][c]], S)
    BY <1>1, <1>4 DEF Tally
  <2>6. SumFunctionOnSet([k \in S |-> m[k][c]], S) \in Nat
    BY <2>5, SumNat
  <2> QED BY <2>2, <2>3, <2>4, <2>6
<1>6. Total(D, LAMBDA d : Total(d.models, LAMBDA e : e.turns))
        = SumFunctionOnSet([k \in S |-> SumFunctionOnSet(h[k], E[k])], S)
  <2>1. \A k \in S : SumFunctionOnSet(h[k], E[k]) = Total(D[k].models, LAMBDA e : e.turns)
    BY DEF Total, SumOver, SumFunction
  <2>2. [k \in S |-> SumFunctionOnSet(h[k], E[k])] = [k \in S |-> Total(D[k].models, LAMBDA e : e.turns)]
    BY <2>1
  <2> HIDE DEF h, E
  <2> QED BY <2>2 DEF Total, SumOver, SumFunction
<1> HIDE DEF m, S, E, key, h, C
<1>7. SumFunctionOnSet([x \in C |-> ModelTurns(D, x)], C) = SumFunctionOnSet(Columns(m, S, C), C)
  <2>1. \A x \in C : [y \in C |-> ModelTurns(D, y)][x] = Columns(m, S, C)[x]
    BY <1>5
  <2> QED BY <1>1, <2>1, SumSame
<1> QED BY <1>4, <1>5, <1>6, <1>7 DEF C

\* What a row of the table has of a day, of its credits and as a share.
RowCredits(D, r) == Total(D, LAMBDA d : (share(d, r) * d.credits) \div Whole)
RowShare(D, r)   == Total(D, LAMBDA d : share(d, r))

\* The rows, together, have the credits of the days that are split, and a whole of each.
LEMMA RowsAddUp ==
  ASSUME NEW D, Dated(D), \A k \in DOMAIN D : Fine(D[k]), NEW R, IsFiniteSet(R), Costed(D) \subseteq R
  PROVE  /\ \A r \in R : RowCredits(D, r) \in Nat /\ RowShare(D, r) \in Nat
         /\ SumFunctionOnSet([r \in R |-> RowCredits(D, r)], R)
              = SumFunctionOnSet([k \in DOMAIN D |-> IF DayTotal(D[k]) > 0 THEN D[k].credits ELSE 0], DOMAIN D)
         /\ SumFunctionOnSet([r \in R |-> RowShare(D, r)], R)
              = SumFunctionOnSet([k \in DOMAIN D |-> IF DayTotal(D[k]) > 0 THEN Whole ELSE 0], DOMAIN D)
<1> DEFINE S == DOMAIN D
           c == [k \in S |-> [r \in R |-> (share(D[k], r) * D[k].credits) \div Whole]]
           s == [k \in S |-> [r \in R |-> share(D[k], r)]]
<1>0. IsFiniteSet(S)
  BY DEF Dated
<1>1. ASSUME NEW k \in S
      PROVE  /\ Tally(c[k], R) /\ Tally(s[k], R)
             /\ SumFunctionOnSet(c[k], R) = IF DayTotal(D[k]) > 0 THEN D[k].credits ELSE 0
             /\ SumFunctionOnSet(s[k], R) = IF DayTotal(D[k]) > 0 THEN Whole ELSE 0
  <2>1. \A i \in DOMAIN D[k].shares : D[k].shares[i].percent > 0 => <<D[k].shares[i].model, D[k].shares[i].speed>> \in R
    BY KeysAre
  <2>2. D[k] \in OfficialDay /\ Fine(D[k])
    BY DEF Dated
  <2>3. /\ \A r \in R : share(D[k], r) \in Nat /\ (share(D[k], r) * D[k].credits) \div Whole \in Nat
        /\ SumFunctionOnSet([r \in R |-> share(D[k], r)], R) = IF DayTotal(D[k]) > 0 THEN Whole ELSE 0
        /\ SumFunctionOnSet([r \in R |-> (share(D[k], r) * D[k].credits) \div Whole], R)
              = IF DayTotal(D[k]) > 0 THEN D[k].credits ELSE 0
    BY <2>1, <2>2, DayShares
  <2>4. c[k] = [r \in R |-> (share(D[k], r) * D[k].credits) \div Whole] /\ s[k] = [r \in R |-> share(D[k], r)]
    OBVIOUS
  <2>5. Tally(c[k], R) /\ Tally(s[k], R)
    BY <2>3 DEF Tally
  <2> HIDE DEF c, s
  <2> QED BY <2>3, <2>4, <2>5
<1>2. SumFunctionOnSet([k \in S |-> SumFunctionOnSet(c[k], R)], S) = SumFunctionOnSet(Columns(c, S, R), R)
      /\ SumFunctionOnSet([k \in S |-> SumFunctionOnSet(s[k], R)], S) = SumFunctionOnSet(Columns(s, S, R), R)
  <2>1. (\A k \in S : Tally(c[k], R)) /\ (\A k \in S : Tally(s[k], R))
    BY <1>1
  <2> HIDE DEF c, s, S
  <2> QED BY <1>0, <2>1, SumTable
<1>3. ASSUME NEW r \in R
      PROVE  /\ Columns(c, S, R)[r] = RowCredits(D, r) /\ RowCredits(D, r) \in Nat
             /\ Columns(s, S, R)[r] = RowShare(D, r) /\ RowShare(D, r) \in Nat
  <2>1. [k \in S |-> c[k][r]] = [k \in S |-> (share(D[k], r) * D[k].credits) \div Whole]
        /\ [k \in S |-> s[k][r]] = [k \in S |-> share(D[k], r)]
    OBVIOUS
  <2>2. RowCredits(D, r) = SumFunctionOnSet([k \in S |-> c[k][r]], S)
    BY <2>1 DEF RowCredits, Total, SumOver, SumFunction
  <2>3. RowShare(D, r) = SumFunctionOnSet([k \in S |-> s[k][r]], S)
    BY <2>1 DEF RowShare, Total, SumOver, SumFunction
  <2>4. Columns(c, S, R)[r] = SumFunctionOnSet([k \in S |-> c[k][r]], S)
        /\ Columns(s, S, R)[r] = SumFunctionOnSet([k \in S |-> s[k][r]], S)
    BY DEF Columns
  <2> HIDE DEF c, s, S
  <2>5. Tally([k \in S |-> c[k][r]], S) /\ Tally([k \in S |-> s[k][r]], S)
    BY <1>0, <1>1 DEF Tally
  <2>6. SumFunctionOnSet([k \in S |-> c[k][r]], S) \in Nat /\ SumFunctionOnSet([k \in S |-> s[k][r]], S) \in Nat
    BY <2>5, SumNat
  <2> QED BY <2>2, <2>3, <2>4, <2>6
<1>4. [k \in S |-> SumFunctionOnSet(c[k], R)] = [k \in S |-> IF DayTotal(D[k]) > 0 THEN D[k].credits ELSE 0]
      /\ [k \in S |-> SumFunctionOnSet(s[k], R)] = [k \in S |-> IF DayTotal(D[k]) > 0 THEN Whole ELSE 0]
  <2> HIDE DEF c, s
  <2> QED BY <1>1
<1> HIDE DEF c, s
<1>5. SumFunctionOnSet([r \in R |-> RowCredits(D, r)], R) = SumFunctionOnSet(Columns(c, S, R), R)
  <2>1. \A r \in R : [q \in R |-> RowCredits(D, q)][r] = Columns(c, S, R)[r]
    BY <1>3
  <2> QED BY <2>1, SumSame
<1>6. SumFunctionOnSet([r \in R |-> RowShare(D, r)], R) = SumFunctionOnSet(Columns(s, S, R), R)
  <2>1. \A r \in R : [q \in R |-> RowShare(D, q)][r] = Columns(s, S, R)[r]
    BY <1>3
  <2> QED BY <2>1, SumSame
<1> QED BY <1>2, <1>3, <1>4, <1>5, <1>6

\* The days of a settlement that have a breakdown, and those of them that are split.
LEMMA BrokenDown ==
  ASSUME NEW days \in Settlements
  PROVE  /\ Dated(days) /\ Dated(withBreakdown(days))
         /\ \A k \in DOMAIN withBreakdown(days) : Fine(withBreakdown(days)[k])
         /\ DOMAIN Shared(days) = {k \in DOMAIN withBreakdown(days) : DayTotal(withBreakdown(days)[k]) > 0}
         /\ \A k \in DOMAIN Shared(days) : Shared(days)[k] = withBreakdown(days)[k]
<1> DEFINE W == withBreakdown(days)
           B == {k \in DOMAIN days : days[k].shares # <<>>}
<1>1. days \in Seq(OfficialDay)
  BY ReportsTyped
<1>2. IsFiniteSet(DOMAIN days) /\ \A k \in DOMAIN days : days[k] \in OfficialDay
  BY <1>1, Entries
<1>3. W = [k \in B |-> days[k]]
  BY DEF withBreakdown, RestrictValues, Restrict
<1>4. Dated(days)
  BY <1>2 DEF Dated
<1>5. DOMAIN W = B /\ \A k \in B : W[k] = days[k]
  BY <1>3
<1>6. Dated(W)
  <2>1. IsFiniteSet(B)
    BY <1>2, FS_Subset
  <2> HIDE DEF W
  <2> QED BY <1>2, <1>5, <2>1 DEF Dated
<1>7. \A k \in DOMAIN days : Fine(days[k])
  BY WholeDivides DEF Fine, DayTotal
<1> HIDE DEF W
<1>8. \A k \in DOMAIN W : Fine(W[k])
  BY <1>5, <1>7
<1>9. Shared(days) = [k \in {j \in DOMAIN W : \E i \in DOMAIN W[j].shares : W[j].shares[i].percent > 0} |-> W[k]]
  BY DEF Shared, RestrictValues, Restrict, W
<1>10. \A k \in DOMAIN W : DayTotal(W[k]) > 0 <=> \E i \in DOMAIN W[k].shares : W[k].shares[i].percent > 0
  BY <1>6, DayTotals DEF Dated
<1>11. DOMAIN Shared(days) = {k \in DOMAIN W : DayTotal(W[k]) > 0}
  BY <1>9, <1>10
<1>12. \A k \in DOMAIN Shared(days) : Shared(days)[k] = W[k]
  BY <1>9
<1> QED BY <1>4, <1>6, <1>8, <1>11, <1>12 DEF W

\* What the days that are split have: their credits, and a whole each.
LEMMA SharedTotals ==
  ASSUME NEW days \in Settlements
  PROVE  LET W == withBreakdown(days)
         IN  /\ totals(Shared(days))
                  = SumFunctionOnSet([k \in DOMAIN W |-> IF DayTotal(W[k]) > 0 THEN W[k].credits ELSE 0], DOMAIN W)
             /\ Whole * Cardinality(DOMAIN Shared(days))
                  = SumFunctionOnSet([k \in DOMAIN W |-> IF DayTotal(W[k]) > 0 THEN Whole ELSE 0], DOMAIN W)
             /\ totals(Shared(days)) \in Nat
<1> DEFINE W == withBreakdown(days)
           S == DOMAIN W
           U == DOMAIN Shared(days)
           h == [k \in S |-> W[k].credits]
           w == [k \in S |-> Whole]
<1>0. /\ Dated(W) /\ U = {k \in S : DayTotal(W[k]) > 0}
      /\ \A k \in U : Shared(days)[k] = W[k]
  BY BrokenDown
<1> HIDE DEF W, U
<1>1. U \subseteq S /\ \A k \in S : k \in U <=> DayTotal(W[k]) > 0
  BY <1>0
<1>2. Tally(h, S) /\ Tally(w, S)
  BY <1>0, DayParts, WholeNat DEF Dated, Tally
<1>3. IsFiniteSet(U)
  BY <1>0, <1>1, FS_Subset DEF Dated
<1>4. totals(Shared(days)) = SumFunctionOnSet([k \in U |-> Shared(days)[k].credits], U)
  BY DEF totals, Total, SumOver, SumFunction, U
<1>5. SumFunctionOnSet([k \in U |-> Shared(days)[k].credits], U) = SumFunctionOnSet(h, U)
  <2>1. \A k \in U : [j \in U |-> Shared(days)[j].credits][k] = h[k]
    BY <1>0, <1>1
  <2> HIDE DEF h
  <2> QED BY <1>3, <2>1, SumSame
<1>6. SumFunctionOnSet([k \in U |-> Whole], U) = SumFunctionOnSet(w, U)
  <2>1. \A k \in U : [j \in U |-> Whole][k] = w[k]
    BY <1>1
  <2> HIDE DEF w
  <2> QED BY <1>3, <2>1, SumSame
<1>7. SumFunctionOnSet([k \in U |-> Whole], U) = Whole * Cardinality(U)
  BY <1>3, WholeNat, SumConstant
<1>8. SumFunctionOnSet(h, U) = SumFunctionOnSet([k \in S |-> IF k \in U THEN h[k] ELSE 0], S)
      /\ SumFunctionOnSet(w, U) = SumFunctionOnSet([k \in S |-> IF k \in U THEN w[k] ELSE 0], S)
      /\ SumFunctionOnSet(h, U) \in Nat
  <2> HIDE DEF h, w, S
  <2> QED BY <1>1, <1>2, SumPart, SumNat
<1>9. [k \in S |-> IF k \in U THEN h[k] ELSE 0] = [k \in S |-> IF DayTotal(W[k]) > 0 THEN W[k].credits ELSE 0]
      /\ [k \in S |-> IF k \in U THEN w[k] ELSE 0] = [k \in S |-> IF DayTotal(W[k]) > 0 THEN Whole ELSE 0]
  BY <1>1
<1> HIDE DEF S, h, w
<1>10. totals(Shared(days)) = SumFunctionOnSet([k \in S |-> IF DayTotal(W[k]) > 0 THEN W[k].credits ELSE 0], S)
  BY <1>4, <1>5, <1>8, <1>9
<1>11. Whole * Cardinality(U) = SumFunctionOnSet([k \in S |-> IF DayTotal(W[k]) > 0 THEN Whole ELSE 0], S)
  BY <1>6, <1>7, <1>8, <1>9
<1> QED BY <1>4, <1>5, <1>8, <1>10, <1>11 DEF S, U, W

\* The row a model's turns are counted on is one of that model.
LEMMA TurnsRowOfModel ==
  ASSUME NEW D, NEW x
  PROVE  TurnsRow(D, x)[1] = x
<1> DEFINE rows == {r \in Costed(D) : r[1] = x}
<1>1. CASE <<x, "standard">> \in rows \/ rows = {}
  <2>1. TurnsRow(D, x) = <<x, "standard">>
    BY <1>1 DEF TurnsRow
  <2> QED BY <2>1
<1>2. CASE ~(<<x, "standard">> \in rows \/ rows = {})
  <2>1. TurnsRow(D, x) = CHOOSE r \in rows : TRUE
    BY <1>2 DEF TurnsRow
  <2>2. (CHOOSE r \in rows : TRUE) \in rows
    BY <1>2
  <2> QED BY <2>1, <2>2
<1> QED BY <1>1, <1>2

\* A row's turns.
RowTurns(D, r) == IF r[1] \in Named(D) /\ TurnsRow(D, r[1]) = r THEN ModelTurns(D, r[1]) ELSE 0

\* The turns are on the rows once.
LEMMA RowTurnsAddUp ==
  ASSUME NEW D, Dated(D), NEW R, IsFiniteSet(R), \A x \in Named(D) : TurnsRow(D, x) \in R
  PROVE  /\ \A r \in R : RowTurns(D, r) \in Nat
         /\ SumFunctionOnSet([r \in R |-> RowTurns(D, r)], R)
              = Total(D, LAMBDA d : Total(d.models, LAMBDA m : m.turns))
<1> DEFINE C == Named(D)
           rec == [x \in C |-> TurnsRow(D, x)]
           U == {rec[x] : x \in C}
           h == [r \in R |-> IF r[1] \in C THEN ModelTurns(D, r[1]) ELSE 0]
           v == [r \in U |-> h[r]]
           T == Total(D, LAMBDA d : Total(d.models, LAMBDA m : m.turns))
<1>1. IsFiniteSet(C)
  BY KeysFinite
<1>2. (\A x \in C : ModelTurns(D, x) \in Nat)
      /\ SumFunctionOnSet([x \in C |-> ModelTurns(D, x)], C) = T
  <2> HIDE DEF T
  <2> QED BY ModelTurnsAddUp DEF T
<1> HIDE DEF T
<1>3. Tally(h, R)
  <2>1. \A r \in R : h[r] \in Nat
    BY <1>2
  <2> QED BY <2>1 DEF Tally
<1>4. \A x \in C : rec[x] \in R /\ rec[x][1] = x /\ h[rec[x]] = ModelTurns(D, x)
  BY TurnsRowOfModel
<1>5. U \subseteq R /\ \A r \in R : r \in U <=> r[1] \in C /\ TurnsRow(D, r[1]) = r
  <2>1. \A x \in C : rec[x] = TurnsRow(D, x)
    OBVIOUS
  <2> HIDE DEF rec, h, C
  <2> QED BY <1>4, <2>1
<1>6. SumFunctionOnSet(v, U) = SumFunctionOnSet([x \in C |-> v[rec[x]]], C)
  <2>1. rec = [x \in C |-> rec[x]]
    OBVIOUS
  <2>2. \A x, y \in C : rec[x] = rec[y] => x = y
    <3> HIDE DEF rec
    <3> QED BY <1>4
  <2>3. rec \in Bijection(C, U)
    <3> HIDE DEF rec
    <3> QED BY <2>1, <2>2, Renumbered
  <2>4. v \in [U -> Nat]
    <3> HIDE DEF h, rec, C
    <3> QED BY <1>2, <1>4
  <2> HIDE DEF rec, v, C, U
  <2> QED BY <1>1, <2>3, <2>4, SumRecords
<1>7. [x \in C |-> v[rec[x]]] = [x \in C |-> ModelTurns(D, x)]
  <2>1. \A x \in C : v[rec[x]] = h[rec[x]]
    OBVIOUS
  <2> HIDE DEF v, h, rec, C
  <2> QED BY <1>4, <2>1
<1>8. SumFunctionOnSet(v, U) = SumFunctionOnSet(h, U)
  <2>1. IsFiniteSet(U)
    BY <1>5, FS_Subset
  <2>2. \A r \in U : v[r] = h[r]
    OBVIOUS
  <2> HIDE DEF v, h, U
  <2> QED BY <2>1, <2>2, SumSame
<1>9. SumFunctionOnSet(h, U) = SumFunctionOnSet([r \in R |-> IF r \in U THEN h[r] ELSE 0], R)
  <2> HIDE DEF h, U
  <2> QED BY <1>3, <1>5, SumPart
<1>10. \A r \in R : RowTurns(D, r) = (IF r \in U THEN h[r] ELSE 0) /\ RowTurns(D, r) \in Nat
  <2> SUFFICES ASSUME NEW r \in R
               PROVE  RowTurns(D, r) = (IF r \in U THEN h[r] ELSE 0) /\ RowTurns(D, r) \in Nat
    OBVIOUS
  <2>1. h[r] = IF r[1] \in C THEN ModelTurns(D, r[1]) ELSE 0
    OBVIOUS
  <2> HIDE DEF h, U, rec
  <2> QED BY <1>2, <1>5, <2>1 DEF RowTurns
<1>11. [r \in R |-> IF r \in U THEN h[r] ELSE 0] = [r \in R |-> RowTurns(D, r)]
  <2> HIDE DEF h, U
  <2> QED BY <1>10
<1> HIDE DEF h, U, v, rec
<1> QED BY <1>2, <1>6, <1>7, <1>8, <1>9, <1>10, <1>11 DEF T

\* The turns of all days.
TurnsOf(D) == Total(D, LAMBDA d : Total(d.models, LAMBDA m : m.turns))

\* Without any breakdown the models are shown with their turns.
LEMMA ModelsAddUpUnsplit ==
  ASSUME NEW days \in Settlements, DOMAIN withBreakdown(days) = {}
  PROVE  LET models == aggregateModels(days)
         IN  /\ SumOver(models, LAMBDA r : r.credits) = 0
             /\ SumOver(models, LAMBDA r : r.share) = 0
             /\ SumOver(models, LAMBDA r : r.turns) = TurnsOf(days)
<1> DEFINE C == Named(days)
           rec == [x \in C |-> [row |-> <<x, "standard">>, credits |-> 0, share |-> 0, turns |-> ModelTurns(days, x)]]
           A == {rec[x] : x \in C}
           c == [r \in A |-> r.credits]
           s == [r \in A |-> r.share]
           t == [r \in A |-> r.turns]
<1>0. Dated(days)
  BY BrokenDown
<1>1. IsFiniteSet(C) /\ (\A x \in C : ModelTurns(days, x) \in Nat)
      /\ SumFunctionOnSet([x \in C |-> ModelTurns(days, x)], C) = TurnsOf(days)
  BY <1>0, KeysFinite, ModelTurnsAddUp DEF TurnsOf
<1>2. aggregateModels(days) = A
  BY DEF aggregateModels
<1>3. \A x \in C : /\ rec[x].row = <<x, "standard">> /\ rec[x].credits = 0 /\ rec[x].share = 0
                   /\ rec[x].turns = ModelTurns(days, x)
  OBVIOUS
<1>4. rec \in Bijection(C, A)
  <2>1. rec = [x \in C |-> rec[x]]
    OBVIOUS
  <2> HIDE DEF rec
  <2>2. \A x, y \in C : rec[x] = rec[y] => x = y
    BY <1>3
  <2> QED BY <2>1, <2>2, Renumbered
<1>5. \A x \in C : c[rec[x]] = 0 /\ s[rec[x]] = 0 /\ t[rec[x]] = ModelTurns(days, x)
  <2> HIDE DEF rec
  <2> QED BY <1>3
<1>6. c \in [A -> Nat] /\ s \in [A -> Nat] /\ t \in [A -> Nat]
  <2> HIDE DEF rec
  <2> QED BY <1>1, <1>3
<1>7. SumOver(aggregateModels(days), LAMBDA r : r.credits) = SumFunctionOnSet(c, A)
      /\ SumOver(aggregateModels(days), LAMBDA r : r.share) = SumFunctionOnSet(s, A)
      /\ SumOver(aggregateModels(days), LAMBDA r : r.turns) = SumFunctionOnSet(t, A)
  <2> HIDE DEF A
  <2> QED BY <1>2 DEF SumOver, SumFunction
<1> HIDE DEF C, rec, A, c, s, t
<1>8. SumFunctionOnSet(c, A) = SumFunctionOnSet([x \in C |-> c[rec[x]]], C)
      /\ SumFunctionOnSet(s, A) = SumFunctionOnSet([x \in C |-> s[rec[x]]], C)
      /\ SumFunctionOnSet(t, A) = SumFunctionOnSet([x \in C |-> t[rec[x]]], C)
  <2>1. IsFiniteSet(C)
    BY <1>1
  <2>2. SumFunctionOnSet(c, A) = SumFunctionOnSet([x \in C |-> c[rec[x]]], C)
    BY <2>1, <1>4, <1>6, SumRecords
  <2>3. SumFunctionOnSet(s, A) = SumFunctionOnSet([x \in C |-> s[rec[x]]], C)
    BY <2>1, <1>4, <1>6, SumRecords
  <2>4. SumFunctionOnSet(t, A) = SumFunctionOnSet([x \in C |-> t[rec[x]]], C)
    BY <2>1, <1>4, <1>6, SumRecords
  <2> QED BY <2>2, <2>3, <2>4
<1>9. [x \in C |-> c[rec[x]]] = [x \in C |-> 0] /\ [x \in C |-> s[rec[x]]] = [x \in C |-> 0]
      /\ [x \in C |-> t[rec[x]]] = [x \in C |-> ModelTurns(days, x)]
  BY <1>5
<1>10. SumFunctionOnSet([x \in C |-> 0], C) = 0
  <2>1. SumFunctionOnSet([x \in C |-> 0], C) = 0 * Cardinality(C)
    BY <1>1, SumConstant
  <2>2. Cardinality(C) \in Nat
    BY <1>1, FS_CardinalityType
  <2> QED BY <2>1, <2>2
<1> QED BY <1>1, <1>7, <1>8, <1>9, <1>10

\* With a breakdown, the rows have all of the days it splits.
LEMMA ModelsAddUpSplit ==
  ASSUME NEW days \in Settlements, DOMAIN withBreakdown(days) # {}
  PROVE  LET models == aggregateModels(days)
         IN  /\ SumOver(models, LAMBDA r : r.credits) = totals(Shared(days))
             /\ SumOver(models, LAMBDA r : r.share) = Whole * Cardinality(DOMAIN Shared(days))
             /\ SumOver(models, LAMBDA r : r.turns) = TurnsOf(withBreakdown(days))
             /\ (\E r \in models : r.credits > 0) <=> totals(Shared(days)) > 0
<1> DEFINE W == withBreakdown(days)
           R == Costed(W) \cup {TurnsRow(W, x) : x \in Named(W)}
           rec == [r \in R |-> [row |-> r, credits |-> RowCredits(W, r), share |-> RowShare(W, r), turns |-> RowTurns(W, r)]]
           A == {rec[r] : r \in R}
           c == [r \in A |-> r.credits]
           s == [r \in A |-> r.share]
           t == [r \in A |-> r.turns]
<1>0. Dated(W) /\ \A k \in DOMAIN W : Fine(W[k])
  BY BrokenDown
<1>1. IsFiniteSet(R)
  <2> DEFINE f == [x \in Named(W) |-> TurnsRow(W, x)]
  <2>1. IsFiniteSet(Named(W)) /\ IsFiniteSet(Costed(W))
    BY <1>0, KeysFinite
  <2>2. DOMAIN f = Named(W)
    OBVIOUS
  <2>3. IsFiniteSet({f[x] : x \in Named(W)})
    <3> HIDE DEF f
    <3> QED BY <2>1, <2>2, ImageFinite
  <2>4. {f[x] : x \in Named(W)} = {TurnsRow(W, x) : x \in Named(W)}
    OBVIOUS
  <2>5. IsFiniteSet({TurnsRow(W, x) : x \in Named(W)})
    BY <2>3, <2>4
  <2> QED BY <2>1, <2>5, FS_Union
<1>2. aggregateModels(days) = A
  <2> DEFINE row(r) == [row |-> r,
              credits |-> Total(W, LAMBDA d : (share(d, r) * d.credits) \div Whole),
              share   |-> Total(W, LAMBDA d : share(d, r)),
              turns   |-> IF r[1] \in Named(W) /\ TurnsRow(W, r[1]) = r THEN ModelTurns(W, r[1]) ELSE 0]
  <2>1. aggregateModels(days) = {row(r) : r \in R}
    BY DEF aggregateModels
  <2>2. \A r \in R : rec[r] = row(r)
    BY DEF RowCredits, RowShare, RowTurns
  <2>3. A = {rec[r] : r \in R}
    OBVIOUS
  <2> HIDE DEF rec, R, W, row, A
  <2> QED BY <2>1, <2>2, <2>3
<1>3. \A r \in R : /\ rec[r].row = r /\ rec[r].credits = RowCredits(W, r) /\ rec[r].share = RowShare(W, r)
                   /\ rec[r].turns = RowTurns(W, r)
  OBVIOUS
<1>4. rec \in Bijection(R, A)
  <2>1. rec = [r \in R |-> rec[r]]
    OBVIOUS
  <2> HIDE DEF rec, R
  <2>2. \A x, y \in R : rec[x] = rec[y] => x = y
    BY <1>3
  <2> QED BY <2>1, <2>2, Renumbered
<1>5. /\ \A r \in R : RowCredits(W, r) \in Nat /\ RowShare(W, r) \in Nat
      /\ SumFunctionOnSet([r \in R |-> RowCredits(W, r)], R)
           = SumFunctionOnSet([k \in DOMAIN W |-> IF DayTotal(W[k]) > 0 THEN W[k].credits ELSE 0], DOMAIN W)
      /\ SumFunctionOnSet([r \in R |-> RowShare(W, r)], R)
           = SumFunctionOnSet([k \in DOMAIN W |-> IF DayTotal(W[k]) > 0 THEN Whole ELSE 0], DOMAIN W)
  <2>1. Costed(W) \subseteq R
    OBVIOUS
  <2> HIDE DEF R, W
  <2> QED BY <1>0, <1>1, <2>1, RowsAddUp
<1>6. /\ \A r \in R : RowTurns(W, r) \in Nat
      /\ SumFunctionOnSet([r \in R |-> RowTurns(W, r)], R) = TurnsOf(W)
  <2>1. \A x \in Named(W) : TurnsRow(W, x) \in R
    OBVIOUS
  <2> HIDE DEF R, W
  <2> QED BY <1>0, <1>1, <2>1, RowTurnsAddUp DEF TurnsOf
<1>7. /\ totals(Shared(days))
           = SumFunctionOnSet([k \in DOMAIN W |-> IF DayTotal(W[k]) > 0 THEN W[k].credits ELSE 0], DOMAIN W)
      /\ Whole * Cardinality(DOMAIN Shared(days))
           = SumFunctionOnSet([k \in DOMAIN W |-> IF DayTotal(W[k]) > 0 THEN Whole ELSE 0], DOMAIN W)
      /\ totals(Shared(days)) \in Nat
  BY SharedTotals
<1> HIDE DEF W, R
<1>8. c \in [A -> Nat] /\ s \in [A -> Nat] /\ t \in [A -> Nat]
  <2> HIDE DEF rec
  <2> QED BY <1>3, <1>5, <1>6
<1>9. \A r \in R : c[rec[r]] = RowCredits(W, r) /\ s[rec[r]] = RowShare(W, r) /\ t[rec[r]] = RowTurns(W, r)
  <2> HIDE DEF rec
  <2> QED BY <1>3
<1>10. SumOver(aggregateModels(days), LAMBDA r : r.credits) = SumFunctionOnSet(c, A)
      /\ SumOver(aggregateModels(days), LAMBDA r : r.share) = SumFunctionOnSet(s, A)
      /\ SumOver(aggregateModels(days), LAMBDA r : r.turns) = SumFunctionOnSet(t, A)
  <2> HIDE DEF A
  <2> QED BY <1>2 DEF SumOver, SumFunction
<1>11. \A r \in A : c[r] = r.credits
  OBVIOUS
<1> HIDE DEF rec, A, c, s, t
<1>12. SumFunctionOnSet(c, A) = SumFunctionOnSet([r \in R |-> c[rec[r]]], R)
      /\ SumFunctionOnSet(s, A) = SumFunctionOnSet([r \in R |-> s[rec[r]]], R)
      /\ SumFunctionOnSet(t, A) = SumFunctionOnSet([r \in R |-> t[rec[r]]], R)
  BY <1>1, <1>4, <1>8, SumRecords
<1>13. [r \in R |-> c[rec[r]]] = [r \in R |-> RowCredits(W, r)]
       /\ [r \in R |-> s[rec[r]]] = [r \in R |-> RowShare(W, r)]
       /\ [r \in R |-> t[rec[r]]] = [r \in R |-> RowTurns(W, r)]
  BY <1>9
<1>14. SumFunctionOnSet(c, A) = totals(Shared(days))
  BY <1>5, <1>7, <1>12, <1>13
<1>15. (\E r \in A : r.credits > 0) <=> totals(Shared(days)) > 0
  <2>1. Tally(c, A)
    <3>1. IsFiniteSet(A)
      <4>1. rec \in Surjection(R, A)
        BY <1>4 DEF Bijection
      <4> QED BY <1>1, <4>1, FS_Surjection
    <3> QED BY <1>8, <3>1 DEF Tally
  <2>2. SumFunctionOnSet(c, A) = 0 <=> \A r \in A : c[r] = 0
    BY <2>1, SumZero
  <2>3. \A r \in A : c[r] \in Nat
    BY <1>8
  <2> QED BY <1>7, <1>11, <1>14, <2>2, <2>3
<1>16. SumFunctionOnSet(s, A) = Whole * Cardinality(DOMAIN Shared(days))
  BY <1>5, <1>7, <1>12, <1>13
<1>17. SumFunctionOnSet(t, A) = TurnsOf(W)
  BY <1>6, <1>12, <1>13
<1> QED BY <1>2, <1>10, <1>14, <1>15, <1>16, <1>17 DEF W

\* The highest bar of the trend is full, unless nothing was settled.
LEMMA BarsFull ==
  ASSUME NEW days \in Settlements
  PROVE  totals(days) > 0 <=> \E i \in DOMAIN days : dailyBars(days)[i] = 100
<1> DEFINE S == DOMAIN days
           h == [i \in S |-> days[i].credits]
           H == {0} \cup {days[i].credits : i \in S}
           most == Max(H)
           back(i) == Len(days) + 1 - i
<1>1. days \in Seq(OfficialDay) /\ S = 1..Len(days) /\ Len(days) \in Nat
  BY ReportsTyped
<1>2. IsFiniteSet(S) /\ \A i \in S : days[i].credits \in Nat
  BY <1>1, Entries, DayParts
<1>3. Tally(h, S)
  BY <1>2 DEF Tally
<1>4. totals(days) = SumFunctionOnSet(h, S)
  BY DEF totals, Total, SumOver, SumFunction
<1>5. most \in H /\ \A x \in H : x <= most
  <2>1. IsFiniteSet({days[i].credits : i \in S})
    <3>1. {h[i] : i \in S} = {days[i].credits : i \in S} /\ DOMAIN h = S
      OBVIOUS
    <3> HIDE DEF h, S
    <3> QED BY <1>2, <3>1, ImageFinite
  <2>2. IsFiniteSet(H)
    BY <2>1, FS_Singleton, FS_Union
  <2>3. H # {} /\ H \subseteq Nat
    BY <1>2
  <2> HIDE DEF H
  <2> QED BY <2>2, <2>3, MaxOfNats
<1>6. most \in Nat /\ (\A i \in S : days[i].credits <= most) /\ (most = 0 \/ \E i \in S : days[i].credits = most)
  BY <1>2, <1>5
<1>7. \A i \in S : dailyBars(days)[i] = IF most = 0 THEN 0 ELSE Max({2, (100 * days[back(i)].credits) \div most})
  BY DEF dailyBars
<1> HIDE DEF most, H
<1>8. totals(days) \in Nat /\ (totals(days) = 0 <=> \A i \in S : days[i].credits = 0)
  <2>1. \A i \in S : h[i] = days[i].credits
    OBVIOUS
  <2> HIDE DEF h, S
  <2> QED BY <1>3, <1>4, <2>1, SumZero, SumNat
<1>9. CASE most = 0
  <2>1. \A i \in S : days[i].credits = 0
    BY <1>2, <1>6, <1>9
  <2> QED BY <1>7, <1>8, <1>9, <2>1
<1>10. CASE most # 0
  <2>1. PICK j \in S : days[j].credits = most
    BY <1>6, <1>10
  <2>2. back(j) \in S /\ back(back(j)) = j
    BY <1>1
  <2>3. dailyBars(days)[back(j)] = Max({2, (100 * most) \div most})
    BY <1>7, <1>10, <2>1, <2>2
  <2>4. (100 * most) \div most = 100
    BY <1>6, <1>10
  <2>5. Max({2, 100}) = 100
    BY DEF Max
  <2>6. dailyBars(days)[back(j)] = 100
    BY <2>3, <2>4, <2>5
  <2>7. \E i \in S : dailyBars(days)[i] = 100
    BY <2>2, <2>6
  <2>8. totals(days) > 0
    BY <1>6, <1>8, <1>10, <2>1
  <2> QED BY <2>7, <2>8
<1> QED BY <1>9, <1>10

\* For every settlement: the rows of clients, models and speeds have together the credits,
\* the shares and the turns of the days they are made from; no cost is hidden, and the
\* highest bar of the trend is full (aggregateClients, aggregateModels, costMode).
THEOREM SplitsAreWhole == SplitsAddUp
<1> SUFFICES ASSUME NEW days \in Settlements PROVE SplitAddsUp(days)
  BY DEF SplitsAddUp
<1> DEFINE W == withBreakdown(days)
           M == aggregateModels(days)
           Uncosted == DOMAIN W = {}
<1>1. totals(Shared(days)) \in Nat /\ (Uncosted => DOMAIN Shared(days) = {} /\ totals(Shared(days)) = 0)
  <2>1. totals(Shared(days)) \in Nat /\ DOMAIN Shared(days) \subseteq DOMAIN W
    BY SharedTotals, BrokenDown
  <2>2. ASSUME DOMAIN Shared(days) = {} PROVE totals(Shared(days)) = 0
    BY <2>2, SumEmpty DEF totals, Total, SumOver, SumFunction
  <2> QED BY <2>1, <2>2
<1>2. SumOver(aggregateClients(days), LAMBDA r : r.credits)
        = Total(days, LAMBDA d : Total(d.clients, LAMBDA c : c.credits))
  BY BrokenDown, ClientsAddUp
<1>3. totals(days) > 0 <=> \E i \in DOMAIN days : dailyBars(days)[i] = 100
  BY BarsFull
<1>4. /\ SumOver(M, LAMBDA r : r.credits) = totals(Shared(days))
      /\ SumOver(M, LAMBDA r : r.share) = Whole * Cardinality(DOMAIN Shared(days))
      /\ SumOver(M, LAMBDA r : r.turns) = TurnsOf(IF Uncosted THEN days ELSE W)
  <2>1. CASE Uncosted
    <3>1. Whole * Cardinality(DOMAIN Shared(days)) = 0
      <4>1. Cardinality(DOMAIN Shared(days)) = 0
        BY <1>1, <2>1, FS_EmptySet
      <4> QED BY <4>1, WholeNat
    <3> QED BY <1>1, <2>1, <3>1, ModelsAddUpUnsplit
  <2>2. CASE ~Uncosted
    BY <2>2, ModelsAddUpSplit
  <2> QED BY <2>1, <2>2
<1>5. (CASE costMode(days) = "usd"   -> totals(Shared(days)) > 0
         [] costMode(days) = "share" -> totals(Shared(days)) = 0
         [] costMode(days) = "none"  -> DOMAIN Shared(days) = {})
  <2>1. CASE Uncosted
    <3>1. costMode(days) = "none"
      BY <2>1 DEF costMode
    <3> QED BY <1>1, <2>1, <3>1
  <2>2. CASE ~Uncosted /\ \E r \in M : r.credits > 0
    <3>1. costMode(days) = "usd" /\ totals(Shared(days)) > 0
      BY <2>2, ModelsAddUpSplit DEF costMode
    <3> QED BY <3>1
  <2>3. CASE ~Uncosted /\ ~(\E r \in M : r.credits > 0)
    <3>1. costMode(days) = "share"
      BY <2>3 DEF costMode
    <3>2. (\E r \in M : r.credits > 0) <=> totals(Shared(days)) > 0
      BY <2>3, ModelsAddUpSplit
    <3>3. ~(totals(Shared(days)) > 0)
      BY <2>3, <3>2
    <3>4. totals(Shared(days)) = 0
      BY <1>1, <3>3
    <3> QED BY <3>1, <3>4
  <2> QED BY <2>1, <2>2, <2>3
<1> HIDE DEF M
<1>6. TurnsOf(IF Uncosted THEN days ELSE W)
        = Total(IF DOMAIN withBreakdown(days) = {} THEN days ELSE withBreakdown(days),
                LAMBDA d : Total(d.models, LAMBDA m : m.turns))
  BY DEF TurnsOf
<1> QED BY <1>2, <1>3, <1>4, <1>5, <1>6 DEF SplitAddsUp, M

-----------------------------------------------------------------------------
(* The pages of a list (components/ui/pagination.tsx). *)

\* A list has at least one page, and the last one is the one that reaches its end.
LEMMA PagesCounted ==
  ASSUME NEW total \in Nat, NEW size \in Nat \ {0}
  PROVE  LET count == pageCount(total, size)
         IN  /\ count \in Nat \ {0}
             /\ total = 0 => count = 1
             /\ total <= count * size
             /\ total > 0 => (count - 1) * size < total
<1> DEFINE q == (total + size - 1) \div size
<1>1. q \in Int /\ q * size <= total + size - 1 /\ total + size - 1 < q * size + size
  <2>1. total + size - 1 \in Int /\ size \in Int /\ size > 0
    OBVIOUS
  <2> QED BY <2>1, DivBounds
<1> HIDE DEF q
<1>2. total <= q * size /\ (q - 1) * size < total
  <2>1. q * size \in Int /\ (q - 1) * size = q * size - size
    BY <1>1, Multiples
  <2> QED BY <1>1, <2>1
<1>3. q >= 0
  <2>1. ASSUME q < 0 PROVE FALSE
    <3>1. q * size <= (-1) * size
      <4>1. q <= -1
        BY <1>1, <2>1
      <4> QED BY <1>1, <4>1, Multiples
    <3>2. (-1) * size < 0
      OBVIOUS
    <3>3. q * size \in Int
      BY <1>1
    <3> QED BY <1>2, <3>1, <3>2, <3>3
  <2> QED BY <1>1, <2>1
<1>4. total > 0 <=> q >= 1
  <2>1. ASSUME q = 0 PROVE total = 0
    BY <1>2, <2>1
  <2>2. ASSUME q >= 1 PROVE total > 0
    <3>1. 0 * size <= (q - 1) * size /\ 0 * size = 0
      BY <1>1, <2>2, Multiples
    <3>2. (q - 1) * size \in Int
      BY <1>1
    <3> QED BY <1>2, <3>1, <3>2
  <2> QED BY <1>1, <1>3, <2>1, <2>2
<1>5. pageCount(total, size) = IF q >= 1 THEN q ELSE 1
  BY DEF pageCount, AtLeast, q
<1>6. CASE q >= 1
  <2>1. pageCount(total, size) = q
    BY <1>5, <1>6
  <2> QED BY <1>1, <1>2, <1>4, <1>6, <2>1
<1>7. CASE ~(q >= 1)
  <2>1. pageCount(total, size) = 1 /\ total = 0
    BY <1>1, <1>3, <1>4, <1>5, <1>7
  <2> QED BY <2>1
<1> QED BY <1>6, <1>7

\* The page a number leads to is one of the list.
LEMMA PageClamped ==
  ASSUME NEW n \in Int, NEW count \in Nat \ {0}
  PROVE  /\ clampPage(n, count) \in 1..count
         /\ n \in 1..count => clampPage(n, count) = n
BY DEF clampPage, AtMost, AtLeast

\* Which rows a page shows.
LEMMA RowsOfPage ==
  ASSUME NEW total \in Nat, NEW size \in Nat \ {0}, NEW n \in 1..pageCount(total, size), NEW x \in Int
  PROVE  x \in PageRows(n, size, total) <=> x \in 1..total /\ (n - 1) * size < x /\ x <= n * size
<1> DEFINE count == pageCount(total, size)
           p == Pagination(n, size, total)
<1>1. count \in Nat \ {0}
  BY PagesCounted
<1>2. n \in Int /\ clampPage(n, count) = n
  BY <1>1, PageClamped
<1>3. /\ p.start = IF total = 0 THEN 0 ELSE (n - 1) * size + 1
      /\ p.end = IF n * size <= total THEN n * size ELSE total
  <2> DEFINE current == clampPage(n, count)
  <2>1. /\ p.start = IF total = 0 THEN 0 ELSE (current - 1) * size + 1
        /\ p.end = IF current * size <= total THEN current * size ELSE total
    BY DEF Pagination, AtMost
  <2>2. current = n
    BY <1>2
  <2> HIDE DEF current, p, count
  <2> QED BY <2>1, <2>2
<1>4. 0 <= (n - 1) * size /\ (n - 1) * size \in Int /\ n * size \in Int
  <2>1. 0 * size = 0 /\ (0 <= n - 1 <=> 0 * size <= (n - 1) * size)
    BY <1>2, Multiples
  <2>2. n >= 1
    BY <1>1
  <2> QED BY <1>2, <2>1, <2>2
<1>5. PageRows(n, size, total) = IF total = 0 THEN {} ELSE p.start..p.end
  BY DEF PageRows
<1> HIDE DEF p, count
<1> QED BY <1>3, <1>4, <1>5

\* Every row is on the page of its number.
LEMMA PageOfRow ==
  ASSUME NEW total \in Nat, NEW size \in Nat \ {0}, NEW x \in 1..total
  PROVE  \E n \in 1..pageCount(total, size) : x \in PageRows(n, size, total)
<1> DEFINE count == pageCount(total, size)
           q == (x - 1) \div size
<1>1. q \in Int /\ q * size <= x - 1 /\ x - 1 < q * size + size
  <2>1. x - 1 \in Int /\ size \in Int /\ size > 0
    OBVIOUS
  <2> QED BY <2>1, DivBounds
<1>2. count \in Nat \ {0} /\ total <= count * size
  BY PagesCounted
<1> HIDE DEF q, count
<1>3. (q + 1) * size = q * size + size /\ q * size \in Int
  BY <1>1, Multiples
<1>4. q >= 0
  <2>1. 0 * size = 0 /\ (q + 1 <= 0 <=> (q + 1) * size <= 0 * size)
    BY <1>1, Multiples
  <2>2. ~((q + 1) * size <= 0)
    BY <1>1, <1>3
  <2> QED BY <1>1, <2>1, <2>2
<1>5. q + 1 <= count
  <2>1. count <= q <=> count * size <= q * size
    BY <1>1, <1>2, Multiples
  <2>2. count * size \in Int
    BY <1>2
  <2>3. ~(count * size <= q * size)
    BY <1>1, <1>2, <1>3, <2>2
  <2> QED BY <1>1, <1>2, <2>1, <2>3
<1>6. q + 1 \in 1..count
  BY <1>1, <1>2, <1>4, <1>5
<1>7. x \in PageRows(q + 1, size, total)
  <2>1. (q + 1) - 1 = q
    BY <1>1
  <2>2. q * size < x /\ x <= (q + 1) * size
    BY <1>1, <1>3
  <2> QED BY <1>6, <2>1, <2>2, RowsOfPage DEF count
<1> QED BY <1>6, <1>7 DEF count

\* No row is on two pages.
LEMMA PagesApart ==
  ASSUME NEW total \in Nat, NEW size \in Nat \ {0},
         NEW n \in 1..pageCount(total, size), NEW m \in 1..pageCount(total, size), n < m
  PROVE  PageRows(n, size, total) \cap PageRows(m, size, total) = {}
<1>1. pageCount(total, size) \in Nat
  BY PagesCounted
<1>2. n \in Int /\ m \in Int /\ n <= m - 1
  BY <1>1
<1>3. n * size <= (m - 1) * size /\ n * size \in Int /\ (m - 1) * size \in Int
  BY <1>2, Multiples
<1>4. ASSUME NEW x \in PageRows(n, size, total) \cap PageRows(m, size, total) PROVE FALSE
  <2>1. x \in Int
    <3>1. PageRows(n, size, total) \subseteq Int
      BY DEF PageRows
    <3> QED BY <1>4, <3>1
  <2>2. x <= n * size /\ (m - 1) * size < x
    BY <2>1, <1>4, RowsOfPage
  <2> QED BY <1>3, <2>1, <2>2
<1> QED BY <1>4

\* The buttons of a page.
LEMMA PageTurns ==
  ASSUME NEW total \in Nat, NEW size \in Nat \ {0}, NEW n \in Int
  PROVE  LET count == pageCount(total, size)
             p     == Pagination(n, size, total)
         IN  /\ p.next = {} <=> p.end = total
             /\ p.prev = {} <=> p.start <= 1
             /\ p.prev \cup p.next \subseteq 1..count
<1> DEFINE count == pageCount(total, size)
           current == clampPage(n, count)
           p == Pagination(n, size, total)
<1>1. /\ count \in Nat \ {0}
      /\ total = 0 => count = 1
      /\ total <= count * size
      /\ total > 0 => (count - 1) * size < total
  BY PagesCounted
<1>2. current \in 1..count
  BY <1>1, PageClamped
<1>3. /\ p.start = IF total = 0 THEN 0 ELSE (current - 1) * size + 1
      /\ p.end = IF current * size <= total THEN current * size ELSE total
      /\ p.prev = IF current <= 1 THEN {} ELSE {current - 1}
      /\ p.next = IF current >= count THEN {} ELSE {current + 1}
  BY DEF Pagination, AtMost
<1> HIDE DEF count, current, p
<1>4. current \in Int /\ count \in Int /\ current * size \in Int /\ count * size \in Int
  BY <1>1, <1>2
<1>5. current >= count <=> current * size >= total
  <2>1. ASSUME current >= count PROVE current * size >= total
    <3>1. count * size <= current * size
      BY <1>4, <2>1, Multiples
    <3> QED BY <1>1, <1>4, <3>1
  <2>2. ASSUME current < count PROVE current * size < total
    <3>1. total > 0
      BY <1>1, <1>2, <2>2
    <3>2. current <= count - 1
      BY <1>4, <2>2
    <3>3. current * size <= (count - 1) * size /\ (count - 1) * size \in Int
      BY <1>4, <3>2, Multiples
    <3> QED BY <1>1, <1>4, <3>1, <3>3
  <2> QED BY <1>4, <2>1, <2>2
<1>6. p.next = {} <=> p.end = total
  BY <1>3, <1>4, <1>5
<1>7. p.prev = {} <=> p.start <= 1
  <2>1. CASE total = 0
    BY <1>1, <1>2, <1>3, <2>1
  <2>2. CASE total > 0
    <3>1. 0 * size = 0 /\ (current - 1 <= 0 <=> (current - 1) * size <= 0 * size) /\ (current - 1) * size \in Int
      BY <1>4, Multiples
    <3> QED BY <1>3, <1>4, <2>2, <3>1
  <2> QED BY <2>1, <2>2
<1>8. p.prev \cup p.next \subseteq 1..count
  BY <1>1, <1>2, <1>3
<1> QED BY <1>6, <1>7, <1>8 DEF count, p

\* For every length of a list: its pages have each row once, and the buttons lead to pages
\* of the list only (Pagination).
THEOREM ListsAreWhole == ListsAddUp
<1> SUFFICES ASSUME NEW total \in Lengths, NEW size \in PageSizes
             PROVE  LET count == pageCount(total, size)
                        rows  == [n \in 1..count |-> PageRows(n, size, total)]
                    IN  /\ UNION {rows[n] : n \in 1..count} = 1..total
                        /\ \A n, m \in 1..count : n # m => rows[n] \cap rows[m] = {}
                        /\ \A n \in 0..(count + 2) :
                              LET p == Pagination(n, size, total)
                              IN  /\ p.next = {} <=> p.end = total
                                  /\ p.prev = {} <=> p.start <= 1
                                  /\ p.prev \cup p.next \subseteq 1..count
  BY DEF ListsAddUp, PagesAddUp
<1> DEFINE count == pageCount(total, size)
           rows == [n \in 1..count |-> PageRows(n, size, total)]
<1>1. total \in Nat /\ size \in Nat \ {0}
  BY ReportsTyped
<1>2. \A n \in 1..count : rows[n] = PageRows(n, size, total)
  OBVIOUS
<1>3. count \in Nat \ {0}
  BY <1>1, PagesCounted
<1>4. UNION {rows[n] : n \in 1..count} = 1..total
  <2>1. \A n \in 1..count : PageRows(n, size, total) \subseteq 1..total
    <3>1. ASSUME NEW n \in 1..count, NEW x \in PageRows(n, size, total) PROVE x \in 1..total
      <4>1. PageRows(n, size, total) \subseteq Int
        BY DEF PageRows
      <4>2. x \in Int
        BY <3>1, <4>1
      <4> QED BY <1>1, <3>1, <4>2, RowsOfPage
    <3> QED BY <3>1
  <2>2. \A x \in 1..total : \E n \in 1..count : x \in PageRows(n, size, total)
    BY <1>1, PageOfRow
  <2> HIDE DEF rows, count
  <2> QED BY <1>2, <2>1, <2>2
<1>5. \A n, m \in 1..count : n # m => rows[n] \cap rows[m] = {}
  <2>1. ASSUME NEW n \in 1..count, NEW m \in 1..count, n # m PROVE rows[n] \cap rows[m] = {}
    <3>1. CASE n < m
      <4>1. PageRows(n, size, total) \cap PageRows(m, size, total) = {}
        BY <1>1, <3>1, PagesApart
      <4> QED BY <1>2, <4>1
    <3>2. CASE m < n
      <4>1. PageRows(m, size, total) \cap PageRows(n, size, total) = {}
        BY <1>1, <3>2, PagesApart
      <4> QED BY <1>2, <4>1
    <3> QED BY <1>3, <2>1, <3>1, <3>2
  <2> QED BY <2>1
<1>6. ASSUME NEW n \in 0..(count + 2)
      PROVE  LET p == Pagination(n, size, total)
             IN  /\ p.next = {} <=> p.end = total
                 /\ p.prev = {} <=> p.start <= 1
                 /\ p.prev \cup p.next \subseteq 1..count
  <2>1. n \in Int
    OBVIOUS
  <2> QED BY <1>1, <2>1, PageTurns
<1> QED BY <1>4, <1>5, <1>6

-----------------------------------------------------------------------------
(* The health bar (lib/health.ts). *)

\* The number of the block that a bucket falls in; 1..count are shown.
BlockOf(h) == [j \in DOMAIN h.buckets |-> h.buckets[j].at \div h.size - h.now \div h.size + h.count]

\* Where a block starts.
Begin(h, i) == (h.now \div h.size + i - h.count) * h.size

\* What the blocks show of a count of each bucket.
Shown(h, f, i) == SumFunctionOnSet([j \in DOMAIN h.buckets |-> IF BlockOf(h)[j] = i THEN f[j] ELSE 0], DOMAIN h.buckets)

\* The two counts of the buckets.
Successes(h) == [j \in DOMAIN h.buckets |-> h.buckets[j].success]
Failures(h)  == [j \in DOMAIN h.buckets |-> h.buckets[j].failed]

\* A health listing.
HealthTyped(h) ==
    h.buckets \in Seq(HealthBucket) /\ h.count \in Nat \ {0} /\ h.size \in Nat \ {0} /\ h.now \in Int

\* The types of a health listing and its blocks.
LEMMA HealthParts ==
  ASSUME NEW h, HealthTyped(h)
  PROVE  /\ h.count \in Nat \ {0} /\ h.size \in Nat \ {0} /\ h.now \in Int /\ h.now \div h.size \in Int
         /\ IsFiniteSet(DOMAIN h.buckets)
         /\ \A j \in DOMAIN h.buckets :
               /\ h.buckets[j].at \in Nat /\ h.buckets[j].success \in Nat /\ h.buckets[j].failed \in Nat
               /\ h.buckets[j].at \div h.size \in Int /\ BlockOf(h)[j] \in Int
<1>1. h.buckets \in Seq(HealthBucket) /\ h.count \in Nat \ {0} /\ h.size \in Nat \ {0} /\ h.now \in Int
  BY DEF HealthTyped
<1>2. h.now \div h.size \in Int
  BY <1>1, DivBounds
<1>3. IsFiniteSet(DOMAIN h.buckets) /\ \A j \in DOMAIN h.buckets : h.buckets[j] \in HealthBucket
  BY <1>1, Entries
<1>4. ASSUME NEW j \in DOMAIN h.buckets
      PROVE  /\ h.buckets[j].at \in Nat /\ h.buckets[j].success \in Nat /\ h.buckets[j].failed \in Nat
             /\ h.buckets[j].at \div h.size \in Int /\ BlockOf(h)[j] \in Int
  <2>1. h.buckets[j].at \in Nat /\ h.buckets[j].success \in Nat /\ h.buckets[j].failed \in Nat
    BY <1>3 DEF HealthBucket
  <2>2. h.buckets[j].at \div h.size \in Int
    BY <1>1, <2>1, DivBounds
  <2> QED BY <1>1, <1>2, <2>1, <2>2 DEF BlockOf
<1> QED BY <1>1, <1>2, <1>3, <1>4

\* A bucket falls in the block that starts at its floor.
LEMMA BlockOfBucket ==
  ASSUME NEW h, HealthTyped(h), NEW j \in DOMAIN h.buckets, NEW i \in Int
  PROVE  /\ Floor(h.buckets[j].at, h.size) = Begin(h, i) <=> BlockOf(h)[j] = i
         /\ h.buckets[j].at >= Begin(h, i) <=> BlockOf(h)[j] >= i
<1> DEFINE d == h.size
           at == h.buckets[j].at
           q == at \div d
           m == h.now \div d + i - h.count
<1>1. d \in Nat \ {0} /\ q \in Int /\ m \in Int /\ at \in Int /\ (BlockOf(h)[j] = i <=> q = m) /\ (BlockOf(h)[j] >= i <=> q >= m)
  <2>1. h.size \in Nat \ {0} /\ h.count \in Int /\ h.now \div h.size \in Int /\ at \in Int /\ q \in Int
    BY HealthParts
  <2>2. BlockOf(h)[j] = q - h.now \div d + h.count
    BY DEF BlockOf
  <2> DEFINE n == h.now \div d
  <2>3. m = n + i - h.count /\ n \in Int
    BY <2>1
  <2> HIDE DEF q, m, n, at
  <2> QED BY <2>1, <2>2, <2>3 DEF n
<1>2. q * d <= at /\ at < q * d + d
  BY <1>1, DivBounds
<1>3. Floor(at, d) = q * d /\ Begin(h, i) = m * d
  BY DEF Floor, Begin
<1> HIDE DEF d, at, q, m
<1>4. q * d = m * d <=> q = m
  <2>1. (q <= m <=> q * d <= m * d) /\ (m <= q <=> m * d <= q * d) /\ q * d \in Int /\ m * d \in Int
    BY <1>1, Multiples
  <2> QED BY <1>1, <2>1
<1>5. at >= m * d <=> q >= m
  <2>1. (m <= q <=> m * d <= q * d) /\ q * d \in Int /\ m * d \in Int
    BY <1>1, Multiples
  <2>2. (q + 1 <= m <=> (q + 1) * d <= m * d) /\ (q + 1) * d = q * d + d
    BY <1>1, Multiples
  <2> QED BY <1>1, <1>2, <2>1, <2>2
<1> QED BY <1>1, <1>3, <1>4, <1>5 DEF at, d

\* What a block of the bar is.
LEMMA BlockShows ==
  ASSUME NEW h, HealthTyped(h), NEW i \in 1..h.count
  PROVE  LET b == buildBlocks(h.buckets, h.count, h.size, h.now)[i]
         IN  /\ b.start = Begin(h, i)
             /\ b.success = Shown(h, Successes(h), i)
             /\ b.failed = Shown(h, Failures(h), i)
<1> DEFINE D == DOMAIN h.buckets
           start == (Floor(h.now, h.size) + h.size) - (h.count - i + 1) * h.size
           s == [j \in D |-> IF Floor(h.buckets[j].at, h.size) = start THEN h.buckets[j].success ELSE 0]
           f == [j \in D |-> IF Floor(h.buckets[j].at, h.size) = start THEN h.buckets[j].failed ELSE 0]
           b == buildBlocks(h.buckets, h.count, h.size, h.now)[i]
<1>1. b.start = start /\ b.success = SumFunctionOnSet(s, D) /\ b.failed = SumFunctionOnSet(f, D)
  <2> DEFINE sum(g(_)) == Total(h.buckets, LAMBDA e : IF Floor(e.at, h.size) = start THEN g(e) ELSE 0)
  <2>1. b = [start |-> start, success |-> sum(LAMBDA e : e.success), failed |-> sum(LAMBDA e : e.failed)]
    <3> DEFINE from(x) == (Floor(h.now, h.size) + h.size) - (h.count - x + 1) * h.size
               block(x) ==
                 [start   |-> from(x),
                  success |-> Total(h.buckets, LAMBDA e : IF Floor(e.at, h.size) = from(x) THEN e.success ELSE 0),
                  failed  |-> Total(h.buckets, LAMBDA e : IF Floor(e.at, h.size) = from(x) THEN e.failed ELSE 0)]
    <3>1. buildBlocks(h.buckets, h.count, h.size, h.now) = [x \in 1..h.count |-> block(x)]
      BY DEF buildBlocks
    <3>2. b = block(i)
      <4> HIDE DEF block
      <4> QED BY <3>1
    <3> QED BY <3>2
  <2>2. sum(LAMBDA e : e.success) = SumFunctionOnSet(s, D) /\ sum(LAMBDA e : e.failed) = SumFunctionOnSet(f, D)
    BY DEF Total, SumOver, SumFunction
  <2> HIDE DEF b, s, f, D, start, sum
  <2> QED BY <2>1, <2>2
<1>2. start = Begin(h, i)
  <2>1. h.count \in Nat \ {0} /\ h.size \in Nat \ {0} /\ h.now \div h.size \in Int
    BY HealthParts
  <2>2. i \in Int
    OBVIOUS
  <2> DEFINE n == h.now \div h.size
             d == h.size
             k == h.count - i
  <2>3. (k + 1) * d = k * d + d /\ k * d \in Int
    BY <2>1, <2>2, Multiples
  <2>4. (n - k) * d = n * d - k * d /\ n * d \in Int
    <3>1. n \in Int /\ k \in Int /\ d \in Int
      BY <2>1, <2>2
    <3> HIDE DEF n, k, d
    <3> QED BY <3>1
  <2>5. n + i - h.count = n - k
    BY <2>1, <2>2
  <2>6. Begin(h, i) = (n - k) * d
    BY <2>5 DEF Begin
  <2>7. start = (n * d + d) - (k + 1) * d
    BY DEF Floor
  <2>8. d \in Int
    BY <2>1
  <2> HIDE DEF n, d, k, start
  <2> QED BY <2>3, <2>4, <2>6, <2>7, <2>8
<1>3. s = [j \in D |-> IF BlockOf(h)[j] = i THEN Successes(h)[j] ELSE 0]
  <2>1. \A j \in D : Floor(h.buckets[j].at, h.size) = start <=> BlockOf(h)[j] = i
    BY <1>2, BlockOfBucket
  <2> HIDE DEF start
  <2> QED BY <2>1 DEF Successes
<1>4. f = [j \in D |-> IF BlockOf(h)[j] = i THEN Failures(h)[j] ELSE 0]
  <2>1. \A j \in D : Floor(h.buckets[j].at, h.size) = start <=> BlockOf(h)[j] = i
    BY <1>2, BlockOfBucket
  <2> HIDE DEF start
  <2> QED BY <2>1 DEF Failures
<1> QED BY <1>1, <1>2, <1>3, <1>4 DEF Shown

\* What the blocks show of a count adds up to that of the buckets they cover.
LEMMA BlocksCover ==
  ASSUME NEW h, HealthTyped(h), NEW f, f \in [DOMAIN h.buckets -> Nat]
  PROVE  /\ Tally([i \in 1..h.count |-> Shown(h, f, i)], 1..h.count)
         /\ SumFunctionOnSet([i \in 1..h.count |-> Shown(h, f, i)], 1..h.count)
              = SumFunctionOnSet([j \in DOMAIN h.buckets |-> IF BlockOf(h)[j] \in 1..h.count THEN f[j] ELSE 0],
                                 DOMAIN h.buckets)
<1> DEFINE C == 1..h.count
           D == DOMAIN h.buckets
           key == BlockOf(h)
           k == [j \in D |-> IF key[j] \in C THEN f[j] ELSE 0]
           m(i) == [j \in D |-> IF key[j] = i THEN f[j] ELSE 0]
<1>1. IsFiniteSet(D) /\ IsFiniteSet(C)
  <2>1. IsFiniteSet(D) /\ h.count \in Int
    BY HealthParts
  <2> QED BY <2>1, FS_Interval
<1>2. Tally(k, D) /\ \A j \in D : key[j] \in C \/ k[j] = 0
  BY <1>1 DEF Tally
<1>3. SumFunctionOnSet(GroupSums(key, k, D, C), C) = SumFunctionOnSet(k, D)
  <2> HIDE DEF k, key, C, D
  <2> QED BY <1>1, <1>2, SumGroups
<1>4. GroupSums(key, k, D, C) = [i \in C |-> Shown(h, f, i)]
  <2>1. ASSUME NEW i \in C
        PROVE  [j \in D |-> IF key[j] = i THEN k[j] ELSE 0] = m(i)
    <3> HIDE DEF C, D, key
    <3> QED BY <2>1
  <2>2. \A i \in C : SumFunctionOnSet(m(i), D) = Shown(h, f, i)
    BY DEF Shown
  <2> HIDE DEF C, D, key, k, m
  <2> QED BY <2>1, <2>2 DEF GroupSums
<1>5. \A i \in C : Shown(h, f, i) \in Nat
  <2> SUFFICES ASSUME NEW i \in C PROVE Shown(h, f, i) \in Nat
    OBVIOUS
  <2>1. Tally(m(i), D)
    BY <1>1 DEF Tally
  <2>2. SumFunctionOnSet(m(i), D) \in Nat
    <3> HIDE DEF m, D
    <3> QED BY <2>1, SumNat
  <2> QED BY <2>2 DEF Shown
<1>6. Tally([i \in C |-> Shown(h, f, i)], C)
  BY <1>1, <1>5 DEF Tally
<1> QED BY <1>3, <1>4, <1>6

\* For every listing: the blocks follow one another up to that of now, and together they
\* have every request of the buckets they cover once (buildBlocks).
THEOREM BarsAreWhole == BarsAddUp
<1> SUFFICES ASSUME NEW h \in HealthInputs PROVE BarAddsUp(h)
  BY DEF BarsAddUp
<1> DEFINE C == 1..h.count
           D == DOMAIN h.buckets
           blocks == buildBlocks(h.buckets, h.count, h.size, h.now)
           S == Successes(h)
           F == Failures(h)
           ss == [i \in C |-> Shown(h, S, i)]
           ff == [i \in C |-> Shown(h, F, i)]
           In(f) == [j \in D |-> IF BlockOf(h)[j] \in C THEN f[j] ELSE 0]
           begin == h.now \div h.size
<1>0. HealthTyped(h)
  BY ReportsTyped DEF HealthTyped
<1>1. /\ h.count \in Nat \ {0} /\ h.size \in Nat \ {0} /\ h.now \in Int /\ begin \in Int
      /\ IsFiniteSet(D)
      /\ S \in [D -> Nat] /\ F \in [D -> Nat]
  BY <1>0, HealthParts DEF Successes, Failures
<1>2. /\ DOMAIN blocks = C
      /\ \A i \in C : /\ blocks[i].start = Begin(h, i)
                      /\ blocks[i].success = ss[i]
                      /\ blocks[i].failed = ff[i]
  <2>1. DOMAIN blocks = C
    BY DEF buildBlocks
  <2> QED BY <1>0, <2>1, BlockShows
<1>3. /\ Tally(ss, C) /\ SumFunctionOnSet(ss, C) = SumFunctionOnSet(In(S), D)
      /\ Tally(ff, C) /\ SumFunctionOnSet(ff, C) = SumFunctionOnSet(In(F), D)
  BY <1>0, <1>1, BlocksCover
<1>4. \A i \in 2..h.count : blocks[i].start = blocks[i - 1].start + h.size
  <2> SUFFICES ASSUME NEW i \in 2..h.count PROVE blocks[i].start = blocks[i - 1].start + h.size
    OBVIOUS
  <2>1. i \in C /\ i - 1 \in C
    BY <1>1
  <2>2. blocks[i].start = (begin + i - h.count) * h.size
        /\ blocks[i - 1].start = (begin + (i - 1) - h.count) * h.size
    BY <1>2, <2>1 DEF Begin
  <2> DEFINE m == begin + (i - 1) - h.count
  <2>3. m \in Int /\ begin + i - h.count = m + 1
    BY <1>1
  <2> HIDE DEF m
  <2>4. (m + 1) * h.size = m * h.size + h.size
    BY <1>1, <2>3, Multiples
  <2> QED BY <2>2, <2>3, <2>4 DEF m
<1>5. h.now \in blocks[h.count].start .. blocks[h.count].start + h.size - 1
  <2>1. h.count \in C /\ begin + h.count - h.count = begin
    BY <1>1
  <2>2. blocks[h.count].start = begin * h.size
    BY <1>2, <2>1 DEF Begin
  <2>3. begin * h.size <= h.now /\ h.now < begin * h.size + h.size
    BY <1>1, DivBounds
  <2>4. begin * h.size \in Int
    BY <1>1
  <2> HIDE DEF begin, blocks
  <2> QED BY <1>1, <2>2, <2>3, <2>4
<1>6. /\ SumFunctionOnSet([i \in C |-> ss[i] + ff[i]], C) = SumFunctionOnSet(ss, C) + SumFunctionOnSet(ff, C)
      /\ SumFunctionOnSet([j \in D |-> In(S)[j] + In(F)[j]], D)
           = SumFunctionOnSet(In(S), D) + SumFunctionOnSet(In(F), D)
  <2>1. Tally(In(S), D) /\ Tally(In(F), D)
    BY <1>1 DEF Tally
  <2> HIDE DEF ss, ff, In, C, D
  <2> QED BY <1>3, <2>1, SumPlus
<1>7. Total(blocks, LAMBDA b : b.success + b.failed) = SumFunctionOnSet([i \in C |-> ss[i] + ff[i]], C)
  <2>1. Total(blocks, LAMBDA b : b.success + b.failed)
          = SumFunctionOnSet([i \in C |-> blocks[i].success + blocks[i].failed], C)
    BY <1>2 DEF Total, SumOver, SumFunction
  <2>2. [i \in C |-> blocks[i].success + blocks[i].failed] = [i \in C |-> ss[i] + ff[i]]
    <3> HIDE DEF blocks, ss, ff, C
    <3> QED BY <1>2
  <2> QED BY <2>1, <2>2
<1>8. Total(h.buckets, LAMBDA b : IF b.at >= blocks[1].start /\ b.at < blocks[1].start + h.count * h.size
                                  THEN b.success + b.failed ELSE 0)
        = SumFunctionOnSet([j \in D |-> In(S)[j] + In(F)[j]], D)
  <2> DEFINE first == blocks[1].start
             k == [j \in D |-> IF h.buckets[j].at >= first /\ h.buckets[j].at < first + h.count * h.size
                               THEN h.buckets[j].success + h.buckets[j].failed ELSE 0]
  <2>1. first = Begin(h, 1) /\ first + h.count * h.size = Begin(h, h.count + 1)
    <3>1. first = Begin(h, 1)
      <4>1. 1 \in C
        BY <1>1
      <4> HIDE DEF C, blocks
      <4> QED BY <1>2, <4>1
    <3>2. Begin(h, 1) = (begin + 1 - h.count) * h.size /\ Begin(h, h.count + 1) = (begin + 1) * h.size
      <4>1. begin + (h.count + 1) - h.count = begin + 1
        BY <1>1
      <4> QED BY <4>1 DEF Begin
    <3> DEFINE m == begin + 1 - h.count
               c == h.count
               d == h.size
    <3>3. begin + 1 = m + c /\ m \in Int /\ c \in Int /\ d \in Int
      BY <1>1
    <3> HIDE DEF m, c, d
    <3>4. (m + c) * d = m * d + c * d
      BY <3>3
    <3> QED BY <3>1, <3>2, <3>3, <3>4 DEF m, c, d
  <2>2. \A j \in D : BlockOf(h)[j] \in C
           <=> h.buckets[j].at >= first /\ h.buckets[j].at < first + h.count * h.size
    <3> SUFFICES ASSUME NEW j \in D
                 PROVE  BlockOf(h)[j] \in C
                          <=> h.buckets[j].at >= first /\ h.buckets[j].at < first + h.count * h.size
      OBVIOUS
    <3>1. /\ h.buckets[j].at >= Begin(h, 1) <=> BlockOf(h)[j] >= 1
          /\ h.buckets[j].at >= Begin(h, h.count + 1) <=> BlockOf(h)[j] >= h.count + 1
      BY <1>0, <1>1, BlockOfBucket
    <3>2. h.buckets[j].at \in Int /\ BlockOf(h)[j] \in Int
      BY <1>0, HealthParts
    <3>3. Begin(h, h.count + 1) \in Int
      BY <1>1 DEF Begin
    <3> HIDE DEF first
    <3> QED BY <1>1, <2>1, <3>1, <3>2, <3>3
  <2>3. \A j \in D : S[j] = h.buckets[j].success /\ F[j] = h.buckets[j].failed
    BY DEF Successes, Failures
  <2>4. k = [j \in D |-> In(S)[j] + In(F)[j]]
    <3>1. \A j \in D : k[j] = In(S)[j] + In(F)[j]
      <4> HIDE DEF C, S, F, first
      <4> QED BY <2>2, <2>3
    <3> HIDE DEF D, In, first
    <3> QED BY <3>1
  <2>5. Total(h.buckets, LAMBDA b : IF b.at >= first /\ b.at < first + h.count * h.size
                                    THEN b.success + b.failed ELSE 0) = SumFunctionOnSet(k, D)
    BY DEF Total, SumOver, SumFunction
  <2> QED BY <2>4, <2>5
<1>9. \A r \in rate(blocks) : r \in 0..100
  <2> DEFINE a == SumFunctionOnSet(ss, C)
             b == SumFunctionOnSet(ff, C)
  <2>1. a \in Nat /\ b \in Nat
    <3> HIDE DEF ss, ff, C
    <3> QED BY <1>3, SumNat
  <2>2. Total(blocks, LAMBDA x : x.success) = a /\ Total(blocks, LAMBDA x : x.failed) = b
    <3>1. Total(blocks, LAMBDA x : x.success) = SumFunctionOnSet([i \in C |-> blocks[i].success], C)
          /\ Total(blocks, LAMBDA x : x.failed) = SumFunctionOnSet([i \in C |-> blocks[i].failed], C)
      BY <1>2 DEF Total, SumOver, SumFunction
    <3>2. [i \in C |-> blocks[i].success] = ss /\ [i \in C |-> blocks[i].failed] = ff
      <4>1. ss = [i \in C |-> ss[i]] /\ ff = [i \in C |-> ff[i]]
        OBVIOUS
      <4> HIDE DEF blocks, ss, ff, C
      <4> QED BY <1>2, <4>1
    <3> QED BY <3>1, <3>2
  <2> HIDE DEF a, b
  <2>3. rate(blocks) = IF a + b = 0 THEN {} ELSE {(100 * a) \div (a + b)}
    BY <2>2 DEF rate
  <2>4. ASSUME a + b # 0 PROVE (100 * a) \div (a + b) \in 0..100
    <3> DEFINE q == (100 * a) \div (a + b)
    <3>1. q \in Int /\ q * (a + b) <= 100 * a /\ 100 * a < q * (a + b) + (a + b)
      BY <2>1, <2>4, DivBounds
    <3>2. a + b \in Nat \ {0}
      BY <2>1, <2>4
    <3> HIDE DEF q
    <3>3. q * (a + b) \in Int
      BY <2>1, <3>1
    <3>4. q >= 0
      <4>1. (q + 1 <= 0 <=> (q + 1) * (a + b) <= 0 * (a + b)) /\ (q + 1) * (a + b) = q * (a + b) + (a + b)
        BY <3>1, <3>2, Multiples
      <4>2. 0 * (a + b) = 0
        BY <2>1
      <4> QED BY <2>1, <3>1, <3>3, <4>1, <4>2
    <3>5. q <= 100
      <4>1. q <= 100 <=> q * (a + b) <= 100 * (a + b)
        BY <3>1, <3>2, Multiples
      <4>2. 100 * a <= 100 * (a + b) /\ 100 * (a + b) \in Int
        BY <2>1
      <4> QED BY <2>1, <3>1, <3>3, <4>1, <4>2
    <3> QED BY <3>1, <3>4, <3>5 DEF q
  <2> QED BY <2>3, <2>4
<1>10. Total(blocks, LAMBDA b : b.success + b.failed)
         = Total(h.buckets, LAMBDA b : IF b.at >= blocks[1].start /\ b.at < blocks[1].start + h.count * h.size
                                       THEN b.success + b.failed ELSE 0)
  BY <1>3, <1>6, <1>7, <1>8
<1> HIDE DEF C, D, S, F, ss, ff, In, begin
<1> QED BY <1>4, <1>5, <1>9, <1>10 DEF BarAddsUp

-----------------------------------------------------------------------------
(* Sums over groups. *)

\* The groups of a key, and the elements of one.
Groups(E, key)   == {key[e] : e \in E}
Group(E, key, k) == {e \in E : key[e] = k}

\* What the groups have of a sum, together, is the sum.
LEMMA SumOfGroups ==
  ASSUME NEW E, NEW v, Tally(v, E), NEW key, DOMAIN key = E
  PROVE  /\ IsFiniteSet(Groups(E, key))
         /\ \A k \in Groups(E, key) : Group(E, key, k) \subseteq E /\ SumFunctionOnSet(v, Group(E, key, k)) \in Nat
         /\ SumFunctionOnSet([k \in Groups(E, key) |-> SumFunctionOnSet(v, Group(E, key, k))], Groups(E, key))
              = SumFunctionOnSet(v, E)
<1> DEFINE C == Groups(E, key)
           part(k) == [e \in E |-> IF key[e] = k THEN v[e] ELSE 0]
<1>1. IsFiniteSet(E)
  BY DEF Tally
<1>2. IsFiniteSet(C)
  BY <1>1, ImageFinite DEF Groups
<1>3. ASSUME NEW k \in C
      PROVE  /\ Group(E, key, k) \subseteq E /\ SumFunctionOnSet(v, Group(E, key, k)) \in Nat
             /\ SumFunctionOnSet(part(k), E) = SumFunctionOnSet(v, Group(E, key, k))
  <2>1. Group(E, key, k) \subseteq E
    BY DEF Group
  <2>2. SumFunctionOnSet(v, Group(E, key, k)) \in Nat
    BY <2>1, SumNat
  <2>3. SumFunctionOnSet(v, Group(E, key, k))
          = SumFunctionOnSet([e \in E |-> IF e \in Group(E, key, k) THEN v[e] ELSE 0], E)
    BY <2>1, SumPart
  <2>4. [e \in E |-> IF e \in Group(E, key, k) THEN v[e] ELSE 0] = part(k)
    BY DEF Group
  <2> QED BY <2>1, <2>2, <2>3, <2>4
<1>4. \A e \in E : key[e] \in C \/ v[e] = 0
  BY DEF Groups
<1>5. SumFunctionOnSet(GroupSums(key, v, E, C), C) = SumFunctionOnSet(v, E)
  <2> HIDE DEF C
  <2> QED BY <1>2, <1>4, SumGroups
<1>6. GroupSums(key, v, E, C) = [k \in C |-> SumFunctionOnSet(v, Group(E, key, k))]
  <2>1. GroupSums(key, v, E, C) = [k \in C |-> SumFunctionOnSet(part(k), E)]
    BY DEF GroupSums
  <2> HIDE DEF C, part
  <2> QED BY <1>3, <2>1
<1> QED BY <1>2, <1>3, <1>5, <1>6

\* So is a sum over one row of each group.
LEMMA SumOfRows ==
  ASSUME NEW E, NEW v, Tally(v, E), NEW key, DOMAIN key = E,
         NEW A, NEW rec, rec \in Bijection(Groups(E, key), A), NEW w,
         w = [x \in A |-> w[x]],
         \A k \in Groups(E, key) : w[rec[k]] = SumFunctionOnSet(v, Group(E, key, k))
  PROVE  SumFunctionOnSet(w, A) = SumFunctionOnSet(v, E) /\ w \in [A -> Nat]
<1> DEFINE C == Groups(E, key)
<1>1. IsFiniteSet(C) /\ (\A k \in C : SumFunctionOnSet(v, Group(E, key, k)) \in Nat)
      /\ SumFunctionOnSet([k \in C |-> SumFunctionOnSet(v, Group(E, key, k))], C) = SumFunctionOnSet(v, E)
  BY SumOfGroups
<1>2. \A x \in A : \E k \in C : x = rec[k]
  BY DEF Bijection, Surjection
<1>3. \A x \in A : w[x] \in Nat
  <2> HIDE DEF C
  <2> SUFFICES ASSUME NEW x \in A PROVE w[x] \in Nat
    OBVIOUS
  <2>1. PICK k \in C : x = rec[k]
    BY <1>2
  <2>2. w[rec[k]] = SumFunctionOnSet(v, Group(E, key, k))
    BY <2>1 DEF C
  <2> QED BY <1>1, <2>1, <2>2
<1>4. w \in [A -> Nat]
  BY <1>3
<1>5. SumFunctionOnSet(w, A) = SumFunctionOnSet([k \in C |-> w[rec[k]]], C)
  <2> HIDE DEF C
  <2>1. rec \in Bijection(C, A)
    BY DEF C
  <2> QED BY <1>1, <1>4, <2>1, SumRecords
<1>6. [k \in C |-> w[rec[k]]] = [k \in C |-> SumFunctionOnSet(v, Group(E, key, k))]
  OBVIOUS
<1> QED BY <1>1, <1>4, <1>5, <1>6

\* Counting is summing.
LEMMA CountIsSum ==
  ASSUME NEW E, IsFiniteSet(E), NEW S, NEW T, T \subseteq E
  PROVE  /\ SumFunctionOnSet([e \in E |-> IF e \in S THEN 1 ELSE 0], T) = Cardinality({e \in T : e \in S})
         /\ Tally([e \in E |-> IF e \in S THEN 1 ELSE 0], E)
<1> DEFINE U == {e \in T : e \in S}
           m == [e \in E |-> IF e \in S THEN 1 ELSE 0]
           n == [e \in T |-> IF e \in U THEN 1 ELSE 0]
           h == [e \in T |-> 1]
           k == [e \in U |-> 1]
<1>1. IsFiniteSet(T) /\ IsFiniteSet(U) /\ U \subseteq T
  BY FS_Subset
<1>2. Tally(h, T)
  BY <1>1 DEF Tally
<1>3. SumFunctionOnSet(m, T) = SumFunctionOnSet(n, T)
  <2>1. \A e \in T : m[e] = n[e]
    OBVIOUS
  <2> HIDE DEF m, n
  <2> QED BY <1>1, <2>1, SumSame
<1>4. SumFunctionOnSet(h, U) = SumFunctionOnSet(n, T)
  <2>1. SumFunctionOnSet(h, U) = SumFunctionOnSet([e \in T |-> IF e \in U THEN h[e] ELSE 0], T)
    <3> HIDE DEF h, U
    <3> QED BY <1>1, <1>2, SumPart
  <2>2. [e \in T |-> IF e \in U THEN h[e] ELSE 0] = n
    OBVIOUS
  <2> QED BY <2>1, <2>2
<1>5. SumFunctionOnSet(h, U) = SumFunctionOnSet(k, U)
  <2>1. \A e \in U : h[e] = k[e]
    OBVIOUS
  <2> HIDE DEF h, k, U
  <2> QED BY <1>1, <2>1, SumSame
<1>6. SumFunctionOnSet(k, U) = 1 * Cardinality(U) /\ Cardinality(U) \in Nat
  <2> HIDE DEF U
  <2> QED BY <1>1, SumConstant, FS_CardinalityType
<1>7. Tally(m, E)
  BY DEF Tally
<1> HIDE DEF U, m, n, h, k
<1>8. SumFunctionOnSet(m, T) = Cardinality(U)
  BY <1>3, <1>4, <1>5, <1>6
<1> QED BY <1>7, <1>8 DEF U, m

\* More events, more of everything.
LEMMA SumGrows ==
  ASSUME NEW S, NEW h, Tally(h, S), NEW T, T \subseteq S, NEW U, U \subseteq T
  PROVE  SumFunctionOnSet(h, U) <= SumFunctionOnSet(h, T)
<1> DEFINE b == SumFunctionOnSet(h, U)
           sum(V) == SumFunctionOnSet(h, U \cup V)
           P == {V \in SUBSET (T \ U) : b <= sum(V)}
<1>1. IsFiniteSet(T \ U)
  <2>1. IsFiniteSet(S)
    BY DEF Tally
  <2> QED BY <2>1, FS_Subset
<1>2. b \in Nat /\ sum({}) = b
  <2>1. U \cup {} = U
    OBVIOUS
  <2> QED BY <2>1, SumNat
<1>3. ASSUME NEW V \in SUBSET (T \ U), NEW x \in (T \ U) \ V
      PROVE  sum(V \cup {x}) = h[x] + sum(V) /\ sum(V) \in Nat /\ h[x] \in Nat
  <2>1. U \cup V \subseteq S /\ x \in S /\ x \notin U \cup V
    OBVIOUS
  <2>2. U \cup (V \cup {x}) = (U \cup V) \cup {x}
    OBVIOUS
  <2>3. /\ SumFunctionOnSet(h, (U \cup V) \cup {x}) = h[x] + SumFunctionOnSet(h, U \cup V)
        /\ SumFunctionOnSet(h, U \cup V) \in Nat
        /\ h[x] \in Nat
    BY <2>1, SumExtend
  <2> QED BY <2>2, <2>3
<1> HIDE DEF b, sum
<1>4. {} \in P
  BY <1>2
<1>5. \A V \in SUBSET (T \ U) : \A x \in (T \ U) \ V : V \in P => V \cup {x} \in P
  <2> SUFFICES ASSUME NEW V \in SUBSET (T \ U), NEW x \in (T \ U) \ V, b <= sum(V)
               PROVE  b <= sum(V \cup {x})
    OBVIOUS
  <2>1. sum(V \cup {x}) = h[x] + sum(V) /\ sum(V) \in Nat /\ h[x] \in Nat
    BY <1>3
  <2> QED BY <1>2, <2>1
<1>6. T \ U \in P
  <2> DEFINE R == T \ U
  <2>1. IsFiniteSet(R) /\ {} \in P /\ \A V \in SUBSET R : \A x \in R \ V : V \in P => V \cup {x} \in P
    BY <1>1, <1>4, <1>5
  <2> HIDE DEF P, R
  <2>2. SUBSET R \subseteq P
    BY <2>1, Growing
  <2>3. R \in SUBSET R
    OBVIOUS
  <2> QED BY <2>2, <2>3 DEF R
<1>7. U \cup (T \ U) = T
  OBVIOUS
<1> QED BY <1>6, <1>7 DEF b, sum

-----------------------------------------------------------------------------
(* The rows of a report (UsageRecords). *)

\* Requests that were recorded.
Recorded(E) == IsFiniteSet(E) /\ E \subseteq UsageEvent

\* What a request adds to a column.
Adds(f, e) ==
    IF f = "requests" THEN 1
    ELSE IF f = "errors" THEN (IF Failing(e) THEN 1 ELSE 0)
    ELSE IF f = "input_tokens" THEN e.input
    ELSE IF f = "output_tokens" THEN e.output
    ELSE IF f = "cached_tokens" THEN e.cached
    ELSE e.cost

\* As a function of the requests.
Worth(E, f) == [e \in E |-> Adds(f, e)]

\* Of a request, the fields that are added up are numbers.
LEMMA EventParts ==
  ASSUME NEW E, Recorded(E)
  PROVE  \A e \in E : /\ e.input \in Nat /\ e.output \in Nat /\ e.cached \in Nat /\ e.cost \in Nat
                      /\ e.reasoning \in Nat /\ e.latency \in Nat /\ e.ts \in Nat /\ e.status \in 200..599
<1> SUFFICES ASSUME NEW e, e \in UsageEvent
             PROVE  /\ e.input \in Nat /\ e.output \in Nat /\ e.cached \in Nat /\ e.cost \in Nat
                    /\ e.reasoning \in Nat /\ e.latency \in Nat /\ e.ts \in Nat /\ e.status \in 200..599
  BY DEF Recorded
<1> DEFINE O == Optional({"failed", "client disconnected"})
           R == 200..599
<1>1. e \in [id : Nat, ts : Nat, account : Optional(Owners), key : Optional(Keys), model : Optional(Models),
             path : Paths, stream : BOOLEAN, status : R, error : O, latency : Nat, ttft : SUBSET Nat,
             input : Nat, output : Nat, cached : Nat, reasoning : Nat, cost : Nat]
  BY DEF UsageEvent
<1> HIDE DEF O, R
<1> QED BY <1>1 DEF R

\* What requests add can be added up.
LEMMA WorthTally ==
  ASSUME NEW E, Recorded(E), NEW f
  PROVE  Tally(Worth(E, f), E)
<1>1. \A e \in E : Adds(f, e) \in Nat
  BY EventParts DEF Adds
<1> QED BY <1>1 DEF Tally, Worth, Recorded

\* Counting failures is adding up.
LEMMA FailuresAreSum ==
  ASSUME NEW E, Recorded(E), NEW G, G \subseteq E
  PROVE  Count({e \in G : Failing(e)}) = SumFunctionOnSet(Worth(E, "errors"), G)
<1> DEFINE S == {e \in E : Failing(e)}
<1>1. IsFiniteSet(E)
  BY DEF Recorded
<1>2. SumFunctionOnSet([e \in E |-> IF e \in S THEN 1 ELSE 0], G) = Cardinality({e \in G : e \in S})
  <2> HIDE DEF S
  <2> QED BY <1>1, CountIsSum
<1>3. {e \in G : e \in S} = {e \in G : Failing(e)}
  OBVIOUS
<1>4. Worth(E, "errors") = [e \in E |-> IF e \in S THEN 1 ELSE 0]
  BY DEF Worth, Adds
<1> QED BY <1>2, <1>3, <1>4 DEF Count

\* Counting requests is adding up.
LEMMA CountsAreSum ==
  ASSUME NEW E, Recorded(E), NEW G, G \subseteq E
  PROVE  Count(G) = SumFunctionOnSet(Worth(E, "requests"), G)
<1>1. IsFiniteSet(E)
  BY DEF Recorded
<1>2. SumFunctionOnSet([e \in E |-> IF e \in E THEN 1 ELSE 0], G) = Cardinality({e \in G : e \in E})
  BY <1>1, CountIsSum
<1>3. {e \in G : e \in E} = G
  OBVIOUS
<1>4. Worth(E, "requests") = [e \in E |-> IF e \in E THEN 1 ELSE 0]
  BY DEF Worth, Adds
<1> QED BY <1>2, <1>3, <1>4 DEF Count

\* A sum over some requests does not depend on the others.
LEMMA SumOfSome ==
  ASSUME NEW E, Recorded(E), NEW G, G \subseteq E, NEW f, NEW v, v = [e \in G |-> v[e]],
         \A e \in G : v[e] = Adds(f, e)
  PROVE  SumFunction(v) = SumFunctionOnSet(Worth(E, f), G)
<1>1. IsFiniteSet(G)
  BY FS_Subset DEF Recorded
<1>2. \A e \in G : v[e] = Worth(E, f)[e]
  BY DEF Worth
<1>3. SumFunctionOnSet(v, G) = SumFunctionOnSet(Worth(E, f), G)
  BY <1>1, <1>2, SumSame
<1>4. DOMAIN v = G
  OBVIOUS
<1> QED BY <1>3, <1>4 DEF SumFunction

\* Each column of a row, and of the totals, is the sum of what its requests add to it.
LEMMA PricedColumns ==
  ASSUME NEW E, Recorded(E), NEW G, G \subseteq E, NEW own, NEW f \in SummedColumns
  PROVE  Priced(G, own)[f] = SumFunctionOnSet(Worth(E, f), G)
<1> DEFINE F == Figures(G)
           P == Beside(F, [cost_usd |-> Cost(G)])
<1>1. DOMAIN F = {"requests", "errors", "input_tokens", "output_tokens", "cached_tokens", "avg_latency_ms"}
  BY DEF Figures
<1>2. DOMAIN P = DOMAIN F \cup {"cost_usd"} /\ P["cost_usd"] = Cost(G)
      /\ \A c \in DOMAIN F : P[c] = F[c]
  BY <1>1 DEF Beside
<1>3. Priced(G, own)[f] = P[f]
  BY <1>1, <1>2 DEF Priced, Beside, SummedColumns
<1>4. CASE f = "requests"
  <2>1. F["requests"] = Count(G)
    BY DEF Figures
  <2> QED BY <1>1, <1>2, <1>3, <1>4, <2>1, CountsAreSum
<1>5. CASE f = "errors"
  <2>1. F["errors"] = Count({e \in G : Failing(e)})
    BY DEF Figures
  <2> QED BY <1>1, <1>2, <1>3, <1>5, <2>1, FailuresAreSum
<1>6. CASE f = "input_tokens"
  <2>1. F["input_tokens"] = SumFunction([e \in G |-> e.input])
    BY DEF Figures, SumOver
  <2>2. SumFunction([e \in G |-> e.input]) = SumFunctionOnSet(Worth(E, f), G)
    <3> DEFINE v == [e \in G |-> e.input]
    <3>1. v = [e \in G |-> v[e]] /\ \A e \in G : v[e] = Adds(f, e)
      BY <1>6 DEF Adds
    <3> HIDE DEF v
    <3>2. SumFunction(v) = SumFunctionOnSet(Worth(E, f), G)
      BY <3>1, SumOfSome
    <3> QED BY <3>2 DEF v
  <2> QED BY <1>1, <1>2, <1>3, <1>6, <2>1, <2>2
<1>7. CASE f = "output_tokens"
  <2>1. F["output_tokens"] = SumFunction([e \in G |-> e.output])
    BY DEF Figures, SumOver
  <2>2. SumFunction([e \in G |-> e.output]) = SumFunctionOnSet(Worth(E, f), G)
    <3> DEFINE v == [e \in G |-> e.output]
    <3>1. v = [e \in G |-> v[e]] /\ \A e \in G : v[e] = Adds(f, e)
      BY <1>7 DEF Adds
    <3> HIDE DEF v
    <3>2. SumFunction(v) = SumFunctionOnSet(Worth(E, f), G)
      BY <3>1, SumOfSome
    <3> QED BY <3>2 DEF v
  <2> QED BY <1>1, <1>2, <1>3, <1>7, <2>1, <2>2
<1>8. CASE f = "cached_tokens"
  <2>1. F["cached_tokens"] = SumFunction([e \in G |-> e.cached])
    BY DEF Figures, SumOver
  <2>2. SumFunction([e \in G |-> e.cached]) = SumFunctionOnSet(Worth(E, f), G)
    <3> DEFINE v == [e \in G |-> e.cached]
    <3>1. v = [e \in G |-> v[e]] /\ \A e \in G : v[e] = Adds(f, e)
      BY <1>8 DEF Adds
    <3> HIDE DEF v
    <3>2. SumFunction(v) = SumFunctionOnSet(Worth(E, f), G)
      BY <3>1, SumOfSome
    <3> QED BY <3>2 DEF v
  <2> QED BY <1>1, <1>2, <1>3, <1>8, <2>1, <2>2
<1>9. CASE f = "cost_usd"
  <2>1. Cost(G) = SumFunction([e \in G |-> e.cost])
    BY DEF Cost, SumOver
  <2>2. SumFunction([e \in G |-> e.cost]) = SumFunctionOnSet(Worth(E, f), G)
    <3> DEFINE v == [e \in G |-> e.cost]
    <3>1. v = [e \in G |-> v[e]] /\ \A e \in G : v[e] = Adds(f, e)
      BY <1>9 DEF Adds
    <3> HIDE DEF v
    <3>2. SumFunction(v) = SumFunctionOnSet(Worth(E, f), G)
      BY <3>1, SumOfSome
    <3> QED BY <3>2 DEF v
  <2> QED BY <1>2, <1>3, <1>9, <2>1, <2>2
<1> QED BY <1>4, <1>5, <1>6, <1>7, <1>8, <1>9 DEF SummedColumns

-----------------------------------------------------------------------------
(* The rows of an answer, by what they are grouped by (admin_usage.rs). *)

\* A row keeps its own columns.
LEMMA PricedOwn ==
  ASSUME NEW G, NEW own, NEW c \in DOMAIN own,
         c \notin {"requests", "errors", "input_tokens", "output_tokens", "cached_tokens", "avg_latency_ms", "cost_usd"}
  PROVE  Priced(G, own)[c] = own[c]
<1> DEFINE F == Figures(G)
           P == Beside(F, [cost_usd |-> Cost(G)])
<1>1. DOMAIN F = {"requests", "errors", "input_tokens", "output_tokens", "cached_tokens", "avg_latency_ms"}
  BY DEF Figures
<1>2. DOMAIN P = DOMAIN F \cup {"cost_usd"}
  BY <1>1 DEF Beside
<1>3. Priced(G, own) = Beside(P, own)
  BY DEF Priced
<1> HIDE DEF P, F
<1>4. c \notin DOMAIN P
  BY <1>1, <1>2
<1> QED BY <1>3, <1>4 DEF Beside

\* A table: one row, rec[k], for each group.
HasRows(E, key, A, rec) ==
    /\ DOMAIN key = E
    /\ rec = [k \in Groups(E, key) |-> rec[k]] /\ A = {rec[k] : k \in Groups(E, key)}
    /\ \A k, l \in Groups(E, key) : rec[k] = rec[l] => k = l

\* A column w of a table, which sums up v.
SumsUp(E, key, A, rec, v, w) ==
    w = [x \in A |-> w[x]] /\ \A k \in Groups(E, key) : w[rec[k]] = SumFunctionOnSet(v, Group(E, key, k))

\* The rows of a table have together what all of them have.
LEMMA RowsAgree ==
  ASSUME NEW E, NEW v, Tally(v, E), NEW key, NEW A, NEW rec, HasRows(E, key, A, rec),
         NEW w, SumsUp(E, key, A, rec, v, w)
  PROVE  SumFunction(w) = SumFunctionOnSet(v, E) /\ w \in [A -> Nat]
<1> USE DEF HasRows, SumsUp
<1> DEFINE C == Groups(E, key)
<1>1. rec \in Bijection(C, A)
  <2> HIDE DEF C
  <2>1. rec = [k \in C |-> rec[k]] /\ (\A k, l \in C : rec[k] = rec[l] => k = l) /\ A = {rec[k] : k \in C}
    BY DEF C
  <2> QED BY <2>1, Renumbered
<1>2. DOMAIN w = A
  OBVIOUS
<1>3. SumFunctionOnSet(w, A) = SumFunctionOnSet(v, E) /\ w \in [A -> Nat]
  <2>1. Tally(v, E) /\ DOMAIN key = E /\ w = [x \in A |-> w[x]] /\ rec \in Bijection(Groups(E, key), A)
    BY <1>1
  <2>2. \A k \in Groups(E, key) : w[rec[k]] = SumFunctionOnSet(v, Group(E, key, k))
    OBVIOUS
  <2> QED BY ONLY <2>1, <2>2, SumOfRows
<1> QED BY <1>2, <1>3 DEF SumFunction

\* The rows by model.
LEMMA ModelsAgree ==
  ASSUME NEW E, Recorded(E), NEW f \in SummedColumns
  PROVE  SumOver(account_by_model(E), LAMBDA x : x[f]) = SumFunctionOnSet(Worth(E, f), E)
<1> DEFINE key == [e \in E |-> e.model]
           own(k, G) == [model |-> k, reasoning_tokens |-> Reasoning(G), avg_ttft_ms |-> AvgTtft(G), last_ts |-> Latest(G)]
           row(k, G) == Priced(G, own(k, G))
           rec == [k \in Groups(E, key) |-> row(k, Group(E, key, k))]
           A == account_by_model(E)
           w == [x \in A |-> x[f]]
           v == Worth(E, f)
<1>1. \A k : Group(E, key, k) = {e \in E : e.model = k} /\ Group(E, key, k) \subseteq E
  BY DEF Group
<1>2. A = {rec[k] : k \in Groups(E, key)}
  <2> DEFINE part == [k \in {e.model : e \in E} |-> {e \in E : e.model = k}]
  <2>1. Groups(E, key) = {e.model : e \in E}
    BY DEF Groups
  <2>2. A = {row(k, part[k]) : k \in {e.model : e \in E}}
    BY DEF account_by_model, Grouped
  <2>3. \A k \in Groups(E, key) : part[k] = Group(E, key, k) /\ rec[k] = row(k, Group(E, key, k))
    BY <1>1, <2>1
  <2> HIDE DEF row, rec, key, part, A
  <2> QED BY <2>1, <2>2, <2>3
<1>3. \A k, l \in Groups(E, key) : rec[k] = rec[l] => k = l
  <2>1. \A k \in Groups(E, key) : rec[k].model = k
    BY PricedOwn
  <2> HIDE DEF rec
  <2> QED BY <2>1
<1>4. \A k \in Groups(E, key) : w[rec[k]] = SumFunctionOnSet(v, Group(E, key, k))
  <2>1. \A k \in Groups(E, key) : rec[k] \in A /\ w[rec[k]] = Priced(Group(E, key, k), own(k, Group(E, key, k)))[f]
    BY <1>2
  <2> QED BY <1>1, <2>1, PricedColumns
<1>5. /\ Tally(v, E) /\ DOMAIN key = E /\ DOMAIN w = A
      /\ rec = [k \in Groups(E, key) |-> rec[k]] /\ w = [x \in A |-> w[x]]
  BY WorthTally
<1>6. SumFunction(w) = SumFunctionOnSet(v, E)
  <2> HIDE DEF key, rec, A, w, v, row, own
  <2>1. Tally(v, E) /\ HasRows(E, key, A, rec) /\ SumsUp(E, key, A, rec, v, w)
    BY <1>2, <1>3, <1>4, <1>5 DEF HasRows, SumsUp
  <2> QED BY ONLY <2>1, RowsAgree
<1> QED BY <1>6 DEF SumOver

\* The rows by key, one of them for the requests without one.
LEMMA KeysAgree ==
  ASSUME NEW E, Recorded(E), NEW f \in SummedColumns
  PROVE  SumOver(account_by_key(E), LAMBDA x : x[f]) = SumFunctionOnSet(Worth(E, f), E)
<1> DEFINE key == [e \in E |-> e.key]
           own(k, G) == [api_key_id |-> k, name |-> k, last_ts |-> Latest(G)]
           row(k, G) == Priced(G, own(k, G))
           rec == [k \in Groups(E, key) |-> row(k, Group(E, key, k))]
           A == account_by_key(E)
           w == [x \in A |-> x[f]]
           v == Worth(E, f)
<1>1. \A k : Group(E, key, k) = {e \in E : e.key = k} /\ Group(E, key, k) \subseteq E
  BY DEF Group
<1>2. A = {rec[k] : k \in Groups(E, key)}
  <2> DEFINE part == [k \in {e.key : e \in E} |-> {e \in E : e.key = k}]
  <2>1. Groups(E, key) = {e.key : e \in E}
    BY DEF Groups
  <2>2. A = {row(k, part[k]) : k \in {e.key : e \in E}}
    BY DEF account_by_key, Grouped
  <2>3. \A k \in Groups(E, key) : part[k] = Group(E, key, k) /\ rec[k] = row(k, Group(E, key, k))
    BY <1>1, <2>1
  <2> HIDE DEF row, rec, key, part, A
  <2> QED BY <2>1, <2>2, <2>3
<1>3. \A k, l \in Groups(E, key) : rec[k] = rec[l] => k = l
  <2>1. \A k \in Groups(E, key) : rec[k].api_key_id = k
    BY PricedOwn
  <2> HIDE DEF rec
  <2> QED BY <2>1
<1>4. \A k \in Groups(E, key) : w[rec[k]] = SumFunctionOnSet(v, Group(E, key, k))
  <2>1. \A k \in Groups(E, key) : rec[k] \in A /\ w[rec[k]] = Priced(Group(E, key, k), own(k, Group(E, key, k)))[f]
    BY <1>2
  <2> QED BY <1>1, <2>1, PricedColumns
<1>5. /\ Tally(v, E) /\ DOMAIN key = E /\ DOMAIN w = A
      /\ rec = [k \in Groups(E, key) |-> rec[k]] /\ w = [x \in A |-> w[x]]
  BY WorthTally
<1>6. SumFunction(w) = SumFunctionOnSet(v, E)
  <2> HIDE DEF key, rec, A, w, v, row, own
  <2>1. Tally(v, E) /\ HasRows(E, key, A, rec) /\ SumsUp(E, key, A, rec, v, w)
    BY <1>2, <1>3, <1>4, <1>5 DEF HasRows, SumsUp
  <2> QED BY ONLY <2>1, RowsAgree
<1> QED BY <1>6 DEF SumOver

\* The rows by status.
LEMMA StatusesAgree ==
  ASSUME NEW E, Recorded(E)
  PROVE  SumOver(account_by_status(E), LAMBDA x : x.requests) = SumFunctionOnSet(Worth(E, "requests"), E)
<1> DEFINE key == [e \in E |-> e.status]
           row(k, G) == LET told == {e \in G : Known(e.error)}
                        IN [status |-> k, requests |-> Count(G), last_ts |-> Latest(G),
                            last_error |-> IF told = {} THEN {}
                                           ELSE (CHOOSE e \in told : \A f \in told : e.ts >= f.ts).error]
           rec == [k \in Groups(E, key) |-> row(k, Group(E, key, k))]
           A == account_by_status(E)
           w == [x \in A |-> x.requests]
           v == Worth(E, "requests")
<1>1. \A k : Group(E, key, k) = {e \in E : e.status = k} /\ Group(E, key, k) \subseteq E
  BY DEF Group
<1>2. A = {rec[k] : k \in Groups(E, key)}
  <2> DEFINE part == [k \in {e.status : e \in E} |-> {e \in E : e.status = k}]
  <2>1. Groups(E, key) = {e.status : e \in E}
    BY DEF Groups
  <2>2. A = {row(k, part[k]) : k \in {e.status : e \in E}}
    BY DEF account_by_status, Grouped
  <2>3. \A k \in Groups(E, key) : part[k] = Group(E, key, k) /\ rec[k] = row(k, Group(E, key, k))
    BY <1>1, <2>1
  <2> HIDE DEF row, rec, key, part, A
  <2> QED BY <2>1, <2>2, <2>3
<1>3. \A k, l \in Groups(E, key) : rec[k] = rec[l] => k = l
  <2>1. \A k \in Groups(E, key) : rec[k].status = k
    OBVIOUS
  <2> HIDE DEF rec
  <2> QED BY <2>1
<1>4. \A k \in Groups(E, key) : w[rec[k]] = SumFunctionOnSet(v, Group(E, key, k))
  <2>1. \A k \in Groups(E, key) : rec[k] \in A /\ w[rec[k]] = Count(Group(E, key, k))
    BY <1>2
  <2> QED BY <1>1, <2>1, CountsAreSum
<1>5. /\ Tally(v, E) /\ DOMAIN key = E /\ DOMAIN w = A
      /\ rec = [k \in Groups(E, key) |-> rec[k]] /\ w = [x \in A |-> w[x]]
  BY WorthTally
<1>6. SumFunction(w) = SumFunctionOnSet(v, E)
  <2> HIDE DEF key, rec, A, w, v, row
  <2>1. Tally(v, E) /\ HasRows(E, key, A, rec) /\ SumsUp(E, key, A, rec, v, w)
    BY <1>2, <1>3, <1>4, <1>5 DEF HasRows, SumsUp
  <2> QED BY ONLY <2>1, RowsAgree
<1> QED BY <1>6 DEF SumOver

\* The rows by path.
LEMMA EndpointsAgree ==
  ASSUME NEW E, Recorded(E)
  PROVE  SumOver(account_by_endpoint(E), LAMBDA x : x.requests) = SumFunctionOnSet(Worth(E, "requests"), E)
<1> DEFINE key == [e \in E |-> <<e.path, e.stream>>]
           row(k, G) == [path |-> k[1], stream |-> k[2], requests |-> Count(G),
                         errors |-> Count({e \in G : Failing(e)}), avg_ttft_ms |-> AvgTtft(G),
                         avg_latency_ms |-> Figures(G).avg_latency_ms]
           rec == [k \in Groups(E, key) |-> row(k, Group(E, key, k))]
           A == account_by_endpoint(E)
           w == [x \in A |-> x.requests]
           v == Worth(E, "requests")
<1>1. \A k : Group(E, key, k) = {e \in E : <<e.path, e.stream>> = k} /\ Group(E, key, k) \subseteq E
  BY DEF Group
<1>2. A = {rec[k] : k \in Groups(E, key)}
  <2> DEFINE part == [k \in {<<e.path, e.stream>> : e \in E} |-> {e \in E : <<e.path, e.stream>> = k}]
  <2>1. Groups(E, key) = {<<e.path, e.stream>> : e \in E}
    BY DEF Groups
  <2>2. A = {row(k, part[k]) : k \in {<<e.path, e.stream>> : e \in E}}
    BY DEF account_by_endpoint, Grouped
  <2>3. \A k \in Groups(E, key) : part[k] = Group(E, key, k) /\ rec[k] = row(k, Group(E, key, k))
    BY <1>1, <2>1
  <2> HIDE DEF row, rec, key, part, A
  <2> QED BY <2>1, <2>2, <2>3
<1>3. \A k, l \in Groups(E, key) : rec[k] = rec[l] => k = l
  <2>1. \A k \in Groups(E, key) : k = <<rec[k].path, rec[k].stream>>
    BY DEF Groups
  <2> HIDE DEF rec
  <2> QED BY <2>1
<1>4. \A k \in Groups(E, key) : w[rec[k]] = SumFunctionOnSet(v, Group(E, key, k))
  <2>1. \A k \in Groups(E, key) : rec[k] \in A /\ w[rec[k]] = Count(Group(E, key, k))
    BY <1>2
  <2> QED BY <1>1, <2>1, CountsAreSum
<1>5. /\ Tally(v, E) /\ DOMAIN key = E /\ DOMAIN w = A
      /\ rec = [k \in Groups(E, key) |-> rec[k]] /\ w = [x \in A |-> w[x]]
  BY WorthTally
<1>6. SumFunction(w) = SumFunctionOnSet(v, E)
  <2> HIDE DEF key, rec, A, w, v, row
  <2>1. Tally(v, E) /\ HasRows(E, key, A, rec) /\ SumsUp(E, key, A, rec, v, w)
    BY <1>2, <1>3, <1>4, <1>5 DEF HasRows, SumsUp
  <2> QED BY ONLY <2>1, RowsAgree
<1> QED BY <1>6 DEF SumOver

-----------------------------------------------------------------------------
(* The answer of the usage dialog and its quality tab. *)

\* The requests in the scope of a report.
LEMMA ScopeRecorded ==
  ASSUME NEW h \in Histories, NEW a, NEW r
  PROVE  Recorded(scope(h, a, r)) /\ Recorded(h.events)
<1>1. h.events \subseteq UsageEvent /\ IsFiniteSet(h.events)
  BY HistoriesTyped
<1>2. scope(h, a, r) \subseteq h.events
  BY DEF scope
<1> QED BY <1>1, <1>2, FS_Subset DEF Recorded

\* A part of some requests is no more than they are.
LEMMA PartCounted ==
  ASSUME NEW E, Recorded(E), NEW G, G \subseteq E
  PROVE  Count(G) \in Nat /\ Count(E) \in Nat /\ Count(G) <= Count(E)
<1>1. IsFiniteSet(E) /\ IsFiniteSet(G)
  BY FS_Subset DEF Recorded
<1>2. Cardinality(G) <= Cardinality(E)
  BY <1>1, FS_Subset
<1> QED BY <1>1, <1>2, FS_CardinalityType DEF Count

\* Two parts that are apart make the whole.
LEMMA PartsCounted ==
  ASSUME NEW E, Recorded(E)
  PROVE  Count({e \in E : ~Failing(e)}) + Count({e \in E : Failing(e)}) = Count(E)
<1> DEFINE A == {e \in E : ~Failing(e)}
           B == {e \in E : Failing(e)}
<1>1. IsFiniteSet(A) /\ IsFiniteSet(B)
  BY FS_Subset DEF Recorded
<1>2. A \cup B = E /\ A \cap B = {}
  OBVIOUS
<1> HIDE DEF A, B
<1>3. Cardinality(A \cup B) = Cardinality(A) + Cardinality(B) - Cardinality(A \cap B)
  BY <1>1, FS_Union
<1>4. Cardinality(A) \in Nat /\ Cardinality(B) \in Nat /\ Cardinality({}) = 0
  BY <1>1, FS_CardinalityType, FS_EmptySet
<1>5. Cardinality(A) + Cardinality(B) = Cardinality(E)
  <2>1. Cardinality(A \cup B) = Cardinality(E) /\ Cardinality(A \cap B) = 0
    BY <1>2, <1>4
  <2> QED BY <1>3, <1>4, <2>1
<1> QED BY <1>5 DEF Count, A, B

\* What the totals say besides what they sum up.
LEMMA TotalsOf ==
  ASSUME NEW E
  PROVE  LET t == account_totals(E)
         IN  /\ t.success = Count({e \in E : ~Failing(e)})
             /\ t.client_aborts = Count({e \in E : e.error = {"client disconnected"}})
             /\ t.cached_hits = Count({e \in E : e.cached > 0})
             /\ t.streams = Count({e \in E : e.stream})
<1> DEFINE own == [reasoning_tokens |-> Reasoning(E),
         success          |-> Count({e \in E : ~Failing(e)}),
         client_aborts    |-> Count({e \in E : e.error = {"client disconnected"}}),
         cached_hits      |-> Count({e \in E : e.cached > 0}),
         p50_latency_ms   |-> Percentile(Column(E, LAMBDA e : e.latency), 50),
         p95_latency_ms   |-> Percentile(Column(E, LAMBDA e : e.latency), 95),
         avg_ttft_ms      |-> AvgTtft(E),
         p50_ttft_ms      |-> IF Timed(E) = {} THEN {} ELSE {Percentile(Column(Timed(E), Ttft), 50)},
         streams          |-> Count({e \in E : e.stream}),
         first_ts         |-> IF E = {} THEN {} ELSE {Min({e.ts : e \in E})},
         last_ts          |-> Latest(E)]
<1>1. account_totals(E) = Priced(E, own)
  BY DEF account_totals
<1>2. /\ own.success = Count({e \in E : ~Failing(e)})
      /\ own.client_aborts = Count({e \in E : e.error = {"client disconnected"}})
      /\ own.cached_hits = Count({e \in E : e.cached > 0})
      /\ own.streams = Count({e \in E : e.stream})
      /\ {"success", "client_aborts", "cached_hits", "streams"} \subseteq DOMAIN own
  OBVIOUS
<1> HIDE DEF own
<1>3. \A c \in {"success", "client_aborts", "cached_hits", "streams"} : Priced(E, own)[c] = own[c]
  <2> DEFINE common == {"requests", "errors", "input_tokens", "output_tokens", "cached_tokens", "avg_latency_ms", "cost_usd"}
  <2>1. \A c \in {"success", "client_aborts", "cached_hits", "streams"} : c \in DOMAIN own /\ c \notin common
    BY <1>2
  <2>2. \A c \in DOMAIN own : c \notin common => Priced(E, own)[c] = own[c]
    BY PricedOwn
  <2> QED BY <2>1, <2>2
<1> QED BY <1>1, <1>2, <1>3

\* The columns of the totals that are sums.
LEMMA TotalsAreSums ==
  ASSUME NEW E, Recorded(E)
  PROVE  \A f \in SummedColumns : account_totals(E)[f] = SumFunctionOnSet(Worth(E, f), E)
<1>1. \A own : \A f \in SummedColumns : Priced(E, own)[f] = SumFunctionOnSet(Worth(E, f), E)
  BY PricedColumns
<1> QED BY ONLY <1>1 DEF account_totals

\* The splits of an answer have what its totals have.
LEMMA SplitsHold ==
  ASSUME NEW h \in Histories, NEW a, NEW r
  PROVE  SplitsAgree(h, a, r)
<1> DEFINE E == scope(h, a, r)
           u == account_usage(h, a, r)
<1>1. Recorded(E)
  BY ScopeRecorded
<1>2. /\ u.totals = account_totals(E) /\ u.by_model = account_by_model(E) /\ u.by_key = account_by_key(E)
      /\ u.by_status = account_by_status(E) /\ u.by_endpoint = account_by_endpoint(E)
  BY DEF account_usage
<1> HIDE DEF E, u
<1>3. \A f \in SummedColumns : /\ SumOver(u.by_model, LAMBDA x : x[f]) = u.totals[f]
                               /\ SumOver(u.by_key, LAMBDA x : x[f]) = u.totals[f]
  <2> SUFFICES ASSUME NEW f \in SummedColumns
               PROVE  /\ SumOver(u.by_model, LAMBDA x : x[f]) = u.totals[f]
                      /\ SumOver(u.by_key, LAMBDA x : x[f]) = u.totals[f]
    OBVIOUS
  <2>1. SumOver(account_by_model(E), LAMBDA x : x[f]) = SumFunctionOnSet(Worth(E, f), E)
    BY <1>1, ModelsAgree
  <2>2. SumOver(account_by_key(E), LAMBDA x : x[f]) = SumFunctionOnSet(Worth(E, f), E)
    BY <1>1, KeysAgree
  <2>3. u.totals[f] = SumFunctionOnSet(Worth(E, f), E)
    BY <1>1, <1>2, TotalsAreSums
  <2> QED BY <1>2, <2>1, <2>2, <2>3
<1>4. u.totals.requests = Count(E) /\ u.totals.errors = Count({e \in E : Failing(e)})
      /\ u.totals.success = Count({e \in E : ~Failing(e)})
  <2>1. "requests" \in SummedColumns /\ "errors" \in SummedColumns
    BY DEF SummedColumns
  <2>2. Count(E) = SumFunctionOnSet(Worth(E, "requests"), E)
    BY <1>1, CountsAreSum
  <2>3. Count({e \in E : Failing(e)}) = SumFunctionOnSet(Worth(E, "errors"), E)
    BY <1>1, FailuresAreSum
  <2>4. u.totals["requests"] = Count(E) /\ u.totals["errors"] = Count({e \in E : Failing(e)})
    BY <1>1, <1>2, <2>1, <2>2, <2>3, TotalsAreSums
  <2>5. u.totals.success = Count({e \in E : ~Failing(e)})
    BY <1>2, TotalsOf
  <2> QED BY <2>4, <2>5
<1>5. /\ SumOver(u.by_status, LAMBDA x : x.requests) = u.totals.requests
      /\ SumOver(u.by_endpoint, LAMBDA x : x.requests) = u.totals.requests
  BY <1>1, <1>2, <1>4, StatusesAgree, EndpointsAgree, CountsAreSum
<1>6. u.totals.success + u.totals.errors = u.totals.requests
  BY <1>1, <1>4, PartsCounted
<1> QED BY <1>3, <1>5, <1>6 DEF SplitsAgree, u

\* A part of a number is between none and all of it, in percent.
LEMMA RateBounded ==
  ASSUME NEW n \in Nat, NEW m \in Nat, n <= m
  PROVE  (IF m > 0 THEN (100 * n) \div m ELSE 0) \in 0..100
<1>1. CASE m > 0
  <2> DEFINE x == (100 * n) \div m
  <2>1. x \in Int /\ x * m <= 100 * n /\ 100 * n < x * m + m
    BY <1>1, DivBounds
  <2> HIDE DEF x
  <2>2. 100 * n <= 100 * m /\ 0 * m = 0
    OBVIOUS
  <2>3. (x + 1) * m = x * m + m /\ x * m \in Int /\ (x <= 100 <=> x * m <= 100 * m)
    BY <1>1, <2>1, Multiples
  <2>4. x <= 100
    BY <2>1, <2>2, <2>3
  <2>5. 0 <= x
    <3>1. x + 1 \in Int /\ (x + 1 <= 0 <=> (x + 1) * m <= 0 * m)
      BY <1>1, <2>1, Multiples
    <3> QED BY <2>1, <2>2, <2>3, <3>1
  <2> QED BY <1>1, <2>1, <2>4, <2>5 DEF x
<1>2. CASE m = 0
  BY <1>2
<1> QED BY <1>1, <1>2

\* The statuses of failures have all failures.
LEMMA FailedStatuses ==
  ASSUME NEW E, Recorded(E), NEW B,
         B = {<<s.status, s.requests, s.status >= 400>> : s \in account_by_status(E)}
  PROVE  SumOver({s \in B : s[3]}, LAMBDA s : s[2]) = Count({e \in E : Failing(e)})
<1> DEFINE F == {e \in E : Failing(e)}
           key == [e \in F |-> e.status]
           rec == [k \in Groups(F, key) |-> <<k, Count(Group(F, key, k)), TRUE>>]
           A == {s \in B : s[3]}
           w == [x \in A |-> x[2]]
           v == Worth(F, "requests")
           part == [k \in {e.status : e \in E} |-> {e \in E : e.status = k}]
<1>1. Recorded(F)
  <2>1. F \subseteq E
    OBVIOUS
  <2> QED BY <2>1, FS_Subset DEF Recorded
<1>2. \A x : x \in B <=> \E k \in {e.status : e \in E} : x = <<k, Count(part[k]), k >= 400>>
  <2> DEFINE row(k, G) == LET told == {e \in G : Known(e.error)}
                        IN [status |-> k, requests |-> Count(G), last_ts |-> Latest(G),
                            last_error |-> IF told = {} THEN {}
                                           ELSE (CHOOSE e \in told : \A f \in told : e.ts >= f.ts).error]
             one == [k \in {e.status : e \in E} |-> row(k, part[k])]
  <2>1. account_by_status(E) = {one[k] : k \in {e.status : e \in E}}
    <3>1. account_by_status(E) = {row(k, part[k]) : k \in {e.status : e \in E}}
      BY DEF account_by_status, Grouped
    <3>2. \A k \in {e.status : e \in E} : one[k] = row(k, part[k])
      OBVIOUS
    <3> HIDE DEF row, part, one
    <3> QED BY <3>1, <3>2
  <2>2. \A k \in {e.status : e \in E} : one[k].status = k /\ one[k].requests = Count(part[k])
    OBVIOUS
  <2> HIDE DEF one, part
  <2>4. \A x : x \in B <=> \E s \in account_by_status(E) : x = <<s.status, s.requests, s.status >= 400>>
    OBVIOUS
  <2>5. \A x : x \in B <=> \E k \in {e.status : e \in E} : x = <<one[k].status, one[k].requests, one[k].status >= 400>>
    BY <2>1, <2>4
  <2> QED BY <2>2, <2>5
<1>3. \A k : Group(F, key, k) = {e \in F : e.status = k} /\ Group(F, key, k) \subseteq F
  BY DEF Group
<1>4. Groups(F, key) = {k \in {e.status : e \in E} : k >= 400}
  BY DEF Groups, Failing
<1>5. \A k \in Groups(F, key) : part[k] = Group(F, key, k)
  <2>1. \A k \in Groups(F, key) : part[k] = {e \in E : e.status = k}
    BY <1>4
  <2>2. \A k \in Groups(F, key) : {e \in E : e.status = k} = {e \in F : e.status = k}
    BY <1>4 DEF Failing
  <2> HIDE DEF part, F, key
  <2> QED BY <1>3, <2>1, <2>2
<1>6. A = {rec[k] : k \in Groups(F, key)}
  <2>1. \A k \in Groups(F, key) : rec[k] = <<k, Count(part[k]), k >= 400>> /\ rec[k][3]
    BY <1>4, <1>5
  <2>2. ASSUME NEW x, x \in A PROVE \E k \in Groups(F, key) : x = rec[k]
    <3>1. x \in B /\ x[3]
      BY <2>2
    <3>2. PICK k \in {e.status : e \in E} : x = <<k, Count(part[k]), k >= 400>>
      <4> HIDE DEF part
      <4> QED BY <1>2, <3>1
    <3>3. k >= 400
      BY <3>1, <3>2
    <3>4. k \in Groups(F, key)
      BY <1>4, <3>2, <3>3
    <3> HIDE DEF rec, part, key, F
    <3> QED BY <2>1, <3>2, <3>3, <3>4
  <2>3. \A k \in Groups(F, key) : rec[k] \in A
    <3>1. \A k \in Groups(F, key) : k \in {e.status : e \in E}
      BY <1>4
    <3>2. \A k \in Groups(F, key) : rec[k] \in B
      <4> HIDE DEF rec, part, F, key
      <4> QED BY <1>2, <2>1, <3>1, SMTT(60)
    <3> QED BY <2>1, <3>2
  <2> HIDE DEF A, rec
  <2> QED BY <2>2, <2>3
<1>7. \A k, l \in Groups(F, key) : rec[k] = rec[l] => k = l
  OBVIOUS
<1>8. \A k \in Groups(F, key) : w[rec[k]] = SumFunctionOnSet(v, Group(F, key, k))
  <2>1. \A k \in Groups(F, key) : rec[k] \in A /\ w[rec[k]] = Count(Group(F, key, k))
    BY <1>6
  <2> QED BY <1>1, <1>3, <2>1, CountsAreSum
<1>9. /\ Tally(v, F) /\ DOMAIN key = F /\ DOMAIN w = A
      /\ rec = [k \in Groups(F, key) |-> rec[k]] /\ w = [x \in A |-> w[x]]
  BY <1>1, WorthTally
<1>10. SumFunction(w) = SumFunctionOnSet(v, F)
  <2> HIDE DEF key, rec, A, w, v, F
  <2>1. Tally(v, F) /\ HasRows(F, key, A, rec) /\ SumsUp(F, key, A, rec, v, w)
    BY <1>6, <1>7, <1>8, <1>9 DEF HasRows, SumsUp
  <2> QED BY ONLY <2>1, RowsAgree
<1>11. SumFunctionOnSet(v, F) = Count(F)
  BY <1>1, CountsAreSum
<1> QED BY <1>10, <1>11 DEF SumOver

\* The rates are percentages and the failing statuses have every failure.
LEMMA QualityHolds ==
  ASSUME NEW h \in Histories, NEW a, NEW r
  PROVE  QualityAddsUp(h, a, r)
<1> DEFINE E == scope(h, a, r)
           u == account_usage(h, a, r)
           t == account_totals(E)
           q == QualityTab(u)
           Of(n) == IF t.requests > 0 THEN (100 * n) \div t.requests ELSE 0
<1>1. Recorded(E)
  BY ScopeRecorded
<1>2. u.totals = t /\ u.by_status = account_by_status(E)
  BY DEF account_usage
<1>3. t.requests = Count(E) /\ t.errors = Count({e \in E : Failing(e)})
  <2>1. "requests" \in SummedColumns /\ "errors" \in SummedColumns
    BY DEF SummedColumns
  <2>2. Count(E) = SumFunctionOnSet(Worth(E, "requests"), E)
    BY <1>1, CountsAreSum
  <2>3. Count({e \in E : Failing(e)}) = SumFunctionOnSet(Worth(E, "errors"), E)
    BY <1>1, FailuresAreSum
  <2> QED BY <1>1, <2>1, <2>2, <2>3, TotalsAreSums
<1>4. /\ q.errorRate = Of(t.errors) /\ q.abortRate = Of(t.client_aborts)
      /\ q.streamRate = Of(t.streams) /\ q.cacheRate = Of(t.cached_hits)
      /\ q.byStatus = {<<s.status, s.requests, s.status >= 400>> : s \in account_by_status(E)}
  BY <1>2 DEF QualityTab
<1> HIDE DEF E, u, q
<1>5. \A n \in {t.errors, t.client_aborts, t.streams, t.cached_hits} : n \in Nat /\ t.requests \in Nat /\ n <= t.requests
  <2>1. \A G : G \subseteq E => Count(G) \in Nat /\ Count(E) \in Nat /\ Count(G) <= Count(E)
    BY <1>1, PartCounted
  <2>2. /\ Count({e \in E : Failing(e)}) <= Count(E) /\ Count({e \in E : Failing(e)}) \in Nat
        /\ Count({e \in E : e.error = {"client disconnected"}}) <= Count(E)
        /\ Count({e \in E : e.error = {"client disconnected"}}) \in Nat
        /\ Count({e \in E : e.cached > 0}) <= Count(E) /\ Count({e \in E : e.cached > 0}) \in Nat
        /\ Count({e \in E : e.stream}) <= Count(E) /\ Count({e \in E : e.stream}) \in Nat
        /\ Count(E) \in Nat
    BY <2>1
  <2>3. /\ t.client_aborts = Count({e \in E : e.error = {"client disconnected"}})
        /\ t.cached_hits = Count({e \in E : e.cached > 0})
        /\ t.streams = Count({e \in E : e.stream})
    BY TotalsOf
  <2> HIDE DEF t
  <2> QED BY <1>3, <2>2, <2>3
<1>6. {q.errorRate, q.abortRate, q.streamRate, q.cacheRate} \subseteq 0..100
  <2>1. \A n \in {t.errors, t.client_aborts, t.streams, t.cached_hits} : Of(n) \in 0..100
    BY <1>5, RateBounded
  <2> HIDE DEF Of
  <2> QED BY <1>4, <2>1
<1>7. SumOver({s \in q.byStatus : s[3]}, LAMBDA s : s[2]) = t.errors
  BY <1>1, <1>3, <1>4, FailedStatuses
<1> QED BY <1>2, <1>6, <1>7 DEF QualityAddsUp, q, u

-----------------------------------------------------------------------------
(* The accounts list and its health bar (admin_usage.rs, lib/health.ts). *)

\* A sequence made of a set has each of its elements once.
LEMMA SetSequence ==
  ASSUME NEW S, IsFiniteSet(S), NEW s, s = SetToSeq(S)
  PROVE  s \in Seq(S) /\ IsFiniteSet(DOMAIN s) /\ s \in Bijection(DOMAIN s, S)
<1> DEFINE n == Cardinality(S)
           P(f) == f \in [1..n -> S] /\ IsInjective(f)
<1>1. n \in Nat /\ \E f : f \in Bijection(1..n, S)
  BY FS_CardinalityType DEF ExistsBijection
<1>2. \E f : P(f)
  BY <1>1 DEF Bijection, Injection
<1>3. s = CHOOSE f \in [1..n -> S] : IsInjective(f)
  BY DEF SetToSeq
<1>4. P(s)
  BY <1>2, <1>3
<1>5. s \in Injection(1..n, S) /\ DOMAIN s = 1..n
  BY <1>4 DEF Injection
<1>6. IsFiniteSet(1..n) /\ Cardinality(1..n) = n
  BY <1>1, FS_Interval
<1>7. s \in Surjection(1..n, S)
  BY <1>5, <1>6, FS_Injection
<1>8. s \in Seq(S)
  BY <1>1, <1>4
<1> QED BY <1>5, <1>6, <1>7, <1>8 DEF Bijection

\* The floor of a moment is no later.
LEMMA FloorBelow ==
  ASSUME NEW t \in Nat, NEW d \in Nat \ {0}
  PROVE  Floor(t, d) \in Nat /\ Floor(t, d) <= t
<1> DEFINE q == t \div d
<1>1. q \in Int /\ q * d <= t /\ t < q * d + d
  BY DivBounds
<1>2. Floor(t, d) = q * d
  BY DEF Floor
<1> HIDE DEF q
<1>3. /\ q * d \in Int /\ (q + 1) * d = q * d + d
      /\ (q + 1 <= 0 <=> (q + 1) * d <= 0 * d) /\ (0 <= q <=> 0 * d <= q * d) /\ 0 * d = 0
  BY <1>1, Multiples
<1> QED BY <1>1, <1>2, <1>3

\* A moment is past a boundary when its floor is.
LEMMA FloorReaches ==
  ASSUME NEW t \in Nat, NEW d \in Nat \ {0}, NEW m \in Int
  PROVE  Floor(t, d) >= m * d <=> t >= m * d
<1> DEFINE q == t \div d
<1>1. q \in Int /\ q * d <= t /\ t < q * d + d
  BY DivBounds
<1>2. Floor(t, d) = q * d
  BY DEF Floor
<1> HIDE DEF q
<1>3. /\ q * d \in Int /\ m * d \in Int /\ (m <= q <=> m * d <= q * d)
      /\ (q + 1) * d = q * d + d /\ (q + 1 <= m <=> (q + 1) * d <= m * d)
  BY <1>1, Multiples
<1> QED BY <1>1, <1>2, <1>3

\* Where the first block and the one after the last begin.
LEMMA BarBegins ==
  ASSUME NEW h, HealthTyped(h)
  PROVE  /\ Begin(h, 1) \in Int /\ Begin(h, h.count + 1) \in Int
         /\ h.now < Begin(h, h.count + 1)
         /\ h.now - h.size * h.count < Begin(h, 1)
         /\ \E m \in Int : Begin(h, 1) = m * h.size
<1> DEFINE b == h.now \div h.size
           d == h.size
           c == h.count
<1>1. c \in Nat \ {0} /\ d \in Nat \ {0} /\ h.now \in Int /\ b \in Int
  BY HealthParts
<1>2. h.now < b * d + d /\ b * d \in Int
  BY <1>1, DivBounds
<1>3. Begin(h, 1) = (b + 1 - c) * d /\ Begin(h, c + 1) = (b + 1) * d
  <2>1. b + (c + 1) - c = b + 1
    BY <1>1
  <2> QED BY <2>1 DEF Begin
<1>4. (b + 1) * d = b * d + d /\ (b + 1 - c) * d = (b + 1) * d - c * d /\ c * d = d * c /\ c * d \in Int
  <2> HIDE DEF b, c, d
  <2> QED BY <1>1
<1>5. b + 1 - c \in Int
  BY <1>1
<1> HIDE DEF b, c, d
<1> QED BY <1>1, <1>2, <1>3, <1>4, <1>5 DEF c, d

\* The requests from a moment on.
From(E, moment) == {e \in E : e.ts >= moment}

\* A health listing of requests: one bucket, rec[k], of those with the floor k.
InBuckets(E, h, key, A, rec) ==
    /\ \A e \in E : e.ts <= h.now
    /\ DOMAIN key = E /\ \A e \in E : key[e] = Floor(e.ts, h.size)
    /\ h.buckets = SetToSeq(A)
    /\ rec \in Bijection(Groups(E, key), A) /\ \A k \in Groups(E, key) : rec[k].at = k

\* The buckets count the requests of one kind, X.
Counted(E, key, A, rec, X, n) ==
    n \in [A -> Nat] /\ \A k \in Groups(E, key) : n[rec[k]] = Count(Group(E, key, k) \cap X)

\* What is shown of them.
ShownOf(h, n, f) ==
    \A j \in DOMAIN h.buckets : f[j] = IF BlockOf(h)[j] \in 1..h.count THEN n[h.buckets[j]] ELSE 0

\* What a bar shows of a kind of request are those since its start.
LEMMA BarSide ==
  ASSUME NEW E, Recorded(E), NEW h, HealthTyped(h), NEW key, NEW A, NEW rec, InBuckets(E, h, key, A, rec),
         NEW X, NEW n, Counted(E, key, A, rec, X, n), NEW f, ShownOf(h, n, f)
  PROVE  SumFunctionOnSet(f, DOMAIN h.buckets) = Count(From(E, Begin(h, 1)) \cap X)
<1> USE DEF InBuckets, Counted, ShownOf
<1> DEFINE first == Begin(h, 1)
           D == DOMAIN h.buckets
           w == [x \in A |-> IF x.at >= first THEN n[x] ELSE 0]
           T == {e \in E : e \in X /\ key[e] >= first}
           v == [e \in E |-> IF e \in T THEN 1 ELSE 0]
<1>1. IsFiniteSet(E) /\ DOMAIN key = E
  BY DEF Recorded
<1>2. IsFiniteSet(Groups(E, key)) /\ IsFiniteSet(A)
  <2>1. IsFiniteSet(Groups(E, key))
    BY <1>1, ImageFinite DEF Groups
  <2>2. DOMAIN rec = Groups(E, key) /\ A = {rec[k] : k \in Groups(E, key)}
    BY DEF Bijection, Surjection, Injection
  <2> QED BY <2>1, <2>2, ImageFinite
<1>3. IsFiniteSet(D) /\ h.buckets \in Bijection(D, A)
  BY <1>2, SetSequence
<1>4. Tally(v, E)
  BY <1>1 DEF Tally
<1>5. \A U : U \subseteq E => SumFunctionOnSet(v, U) = Cardinality({e \in U : e \in T})
  <2> SUFFICES ASSUME NEW U, U \subseteq E PROVE SumFunctionOnSet(v, U) = Cardinality({e \in U : e \in T})
    OBVIOUS
  <2> HIDE DEF T
  <2>1. IsFiniteSet(E) /\ U \subseteq E
    BY <1>1
  <2>2. SumFunctionOnSet([e \in E |-> IF e \in T THEN 1 ELSE 0], U) = Cardinality({e \in U : e \in T})
    BY ONLY <2>1, CountIsSum
  <2> QED BY <2>2
<1>6. \A k \in Groups(E, key) : w[rec[k]] = SumFunctionOnSet(v, Group(E, key, k))
  <2> SUFFICES ASSUME NEW k \in Groups(E, key) PROVE w[rec[k]] = SumFunctionOnSet(v, Group(E, key, k))
    OBVIOUS
  <2> DEFINE G == Group(E, key, k)
  <2>1. G \subseteq E /\ \A e \in G : key[e] = k
    BY DEF Group
  <2>2. rec[k] \in A /\ w[rec[k]] = IF k >= first THEN n[rec[k]] ELSE 0
    BY DEF Bijection, Injection
  <2>3. SumFunctionOnSet(v, G) = Cardinality({e \in G : e \in T})
    BY <1>5, <2>1
  <2>4. CASE k >= first
    <3>1. {e \in G : e \in T} = G \cap X
      BY <2>1, <2>4
    <3> QED BY <2>2, <2>3, <2>4, <3>1 DEF Count
  <2>5. CASE ~(k >= first)
    <3>1. {e \in G : e \in T} = {}
      BY <2>1, <2>5
    <3> QED BY <2>2, <2>3, <2>5, <3>1, FS_EmptySet
  <2> QED BY <2>4, <2>5
<1>8. w = [x \in A |-> w[x]] /\ DOMAIN w = A
  OBVIOUS
<1>9. SumFunctionOnSet(w, A) = SumFunctionOnSet(v, E) /\ w \in [A -> Nat]
  <2>1. Tally(v, E) /\ DOMAIN key = E /\ rec \in Bijection(Groups(E, key), A) /\ w = [x \in A |-> w[x]]
    BY <1>1, <1>4
  <2> HIDE DEF w, v
  <2> QED BY ONLY <2>1, <1>6, SumOfRows
<1>10. SumFunctionOnSet(v, E) = Count(T)
  <2>1. {e \in E : e \in T} = T
    OBVIOUS
  <2> QED BY <1>5, <2>1 DEF Count
<1>11. SumFunctionOnSet(w, A) = SumFunctionOnSet([j \in D |-> w[h.buckets[j]]], D)
  <2>1. Tally(w, A)
    BY <1>2, <1>9 DEF Tally
  <2> HIDE DEF w, D
  <2> QED BY <1>3, <2>1, SumImage
<1>12. \A j \in D : w[h.buckets[j]] = f[j]
  <2> SUFFICES ASSUME NEW j \in D
               PROVE  w[h.buckets[j]] = f[j]
    OBVIOUS
  <2> DEFINE x == h.buckets[j]
  <2>1. x \in A
    BY <1>3 DEF Bijection, Surjection
  <2>2. x.at <= h.now /\ x.at \in Int
    <3>1. PICK k \in Groups(E, key) : x = rec[k]
      BY <2>1 DEF Bijection, Surjection
    <3>2. PICK e \in E : k = Floor(e.ts, h.size)
      BY DEF Groups
    <3>3. e.ts \in Nat /\ h.size \in Nat \ {0} /\ h.now \in Int
      BY EventParts, HealthParts
    <3>4. Floor(e.ts, h.size) <= e.ts /\ Floor(e.ts, h.size) \in Nat
      BY <3>3, FloorBelow
    <3>5. x.at = Floor(e.ts, h.size)
      BY <3>1, <3>2
    <3> QED BY <3>3, <3>4, <3>5
  <2>3. x.at >= first <=> BlockOf(h)[j] >= 1
    BY BlockOfBucket
  <2>4. BlockOf(h)[j] \in Int /\ h.count \in Int /\ h.now \in Int
    BY HealthParts
  <2>5. ~(BlockOf(h)[j] >= h.count + 1)
    <3>1. x.at >= Begin(h, h.count + 1) <=> BlockOf(h)[j] >= h.count + 1
      BY <2>4, BlockOfBucket
    <3>2. h.now < Begin(h, h.count + 1) /\ Begin(h, h.count + 1) \in Int
      BY BarBegins
    <3> QED BY <2>2, <2>4, <3>1, <3>2
  <2>6. BlockOf(h)[j] \in 1..h.count <=> x.at >= first
    BY <2>3, <2>4, <2>5
  <2>7. w[x] = IF x.at >= first THEN n[x] ELSE 0
    BY <2>1
  <2> HIDE DEF w, first
  <2> QED BY <2>6, <2>7
<1>13. T = From(E, first) \cap X
  <2>1. PICK m \in Int : first = m * h.size
    BY BarBegins
  <2>2. \A e \in E : key[e] >= first <=> e.ts >= first
    <3> SUFFICES ASSUME NEW e \in E PROVE Floor(e.ts, h.size) >= first <=> e.ts >= first
      OBVIOUS
    <3>1. e.ts \in Nat /\ h.size \in Nat \ {0}
      BY EventParts, HealthParts
    <3> QED BY <2>1, <3>1, FloorReaches
  <2> HIDE DEF first
  <2> QED BY <2>2 DEF From
<1>14. SumFunctionOnSet(f, D) = SumFunctionOnSet([j \in D |-> w[h.buckets[j]]], D)
  <2> DEFINE g == [j \in D |-> w[h.buckets[j]]]
  <2>1. \A j \in D : f[j] = g[j]
    BY <1>12
  <2> HIDE DEF g, D
  <2>2. SumFunctionOnSet(f, D) = SumFunctionOnSet(g, D)
    BY <1>3, <2>1, SumSame
  <2> QED BY <2>2 DEF g
<1> HIDE DEF w, v, T
<1>15. SumFunctionOnSet(w, A) = Count(T)
  BY <1>9, <1>10
<1> QED BY <1>11, <1>13, <1>14, <1>15

\* A cost is the sum of those of its requests.
LEMMA CostIsSum ==
  ASSUME NEW E, Recorded(E), NEW G, G \subseteq E
  PROVE  Cost(G) = SumFunctionOnSet(Worth(E, "cost_usd"), G) /\ Cost(G) \in Nat
<1> DEFINE v == [e \in G |-> e.cost]
<1>1. v = [e \in G |-> v[e]] /\ \A e \in G : v[e] = Adds("cost_usd", e)
  BY DEF Adds
<1>2. Cost(G) = SumFunction(v)
  BY DEF Cost, SumOver
<1> HIDE DEF v
<1>3. SumFunction(v) = SumFunctionOnSet(Worth(E, "cost_usd"), G)
  BY <1>1, SumOfSome
<1>4. SumFunctionOnSet(Worth(E, "cost_usd"), G) \in Nat
  BY WorthTally, SumNat
<1> QED BY <1>2, <1>3, <1>4

\* The last moment of some requests, if any.
LEMMA LatestTyped ==
  ASSUME NEW E, Recorded(E)
  PROVE  Latest(E) \in OptionalNat
<1> DEFINE f == [e \in E |-> e.ts]
           T == {f[e] : e \in E}
<1>1. IsFiniteSet(T) /\ T \subseteq Nat
  <2>1. IsFiniteSet(E) /\ DOMAIN f = E
    BY DEF Recorded
  <2>2. \A e \in E : f[e] \in Nat
    BY EventParts
  <2> HIDE DEF f
  <2> QED BY <2>1, <2>2, ImageFinite
<1>2. T = {e.ts : e \in E}
  OBVIOUS
<1>3. CASE E = {}
  BY <1>3, FS_EmptySet DEF Latest, OptionalNat, Count
<1>4. CASE E # {}
  <2>1. T # {}
    BY <1>4
  <2> HIDE DEF T
  <2>2. Max(T) \in Nat
    BY <1>1, <2>1, MaxOfNats
  <2>3. Cardinality({Max(T)}) = 1
    BY FS_Singleton
  <2>4. Latest(E) = {Max(T)}
    BY <1>2, <1>4 DEF Latest
  <2> QED BY <2>2, <2>3, <2>4 DEF OptionalNat, Count
<1> QED BY <1>3, <1>4

\* What the list of accounts says of one is of the types the panel declares.
LEMMA CountersTyped ==
  ASSUME NEW h \in Histories, NEW a
  PROVE  account_counters(h, a) \in AccountCounters
<1> DEFINE E == scope(h, a, "7d")
           v == [e \in E |-> e.input + e.output]
           c == account_counters(h, a)
<1>1. Recorded(E)
  BY ScopeRecorded
<1>2. \A G : G \subseteq E => Count(G) \in Nat /\ Cost(G) \in Nat
  BY <1>1, PartCounted, CostIsSum
<1>3. SumFunction(v) \in Nat
  <2>1. Tally(v, E) /\ DOMAIN v = E
    <3>1. \A e \in E : e.input + e.output \in Nat
      BY <1>1, EventParts
    <3>2. IsFiniteSet(E)
      BY <1>1 DEF Recorded
    <3> QED BY <3>1, <3>2 DEF Tally
  <2> HIDE DEF v, E
  <2> QED BY <2>1, SumNat DEF SumFunction
<1>4. c = [requests_7d  |-> Count(E), errors_7d |-> Count({e \in E : Failing(e)}),
           requests_24h |-> Count({e \in E : e.ts >= h.now - Day}),
           cost_7d      |-> Cost(E),
           cost_5h      |-> Cost({e \in E : e.ts >= h.now - 5 * Hour}),
           tokens_7d    |-> SumFunction(v),
           last_ts      |-> Latest(E)]
  BY DEF account_counters, SumOver
<1>5. /\ Count(E) \in Nat /\ Count({e \in E : Failing(e)}) \in Nat
      /\ Count({e \in E : e.ts >= h.now - Day}) \in Nat
      /\ Cost(E) \in Nat /\ Cost({e \in E : e.ts >= h.now - 5 * Hour}) \in Nat
  <2> HIDE DEF E
  <2> QED BY <1>2
<1>6. Latest(E) \in OptionalNat
  BY <1>1, LatestTyped
<1> HIDE DEF E, v, c
<1> QED BY <1>3, <1>4, <1>5, <1>6 DEF AccountCounters, c

\* It agrees with the totals of the dialog.
LEMMA CountersAgree ==
  ASSUME NEW h \in Histories, NEW a
  PROVE  LET c == account_counters(h, a)
             T(r) == account_totals(scope(h, a, r))
         IN  /\ c.requests_7d = T("7d").requests /\ c.errors_7d = T("7d").errors /\ c.cost_7d = T("7d").cost_usd
             /\ c.requests_24h = T("24h").requests /\ c.cost_5h <= T("24h").cost_usd
<1> DEFINE E == scope(h, a, "7d")
           F == scope(h, a, "24h")
           G == {e \in E : e.ts >= h.now - 5 * Hour}
           c == account_counters(h, a)
<1>1. Recorded(E) /\ Recorded(F)
  BY ScopeRecorded
<1>2. \A U : Recorded(U) => /\ account_totals(U).requests = Count(U)
                            /\ account_totals(U).errors = Count({e \in U : Failing(e)})
                            /\ account_totals(U).cost_usd = Cost(U)
  <2> SUFFICES ASSUME NEW U, Recorded(U)
               PROVE  /\ account_totals(U)["requests"] = Count(U)
                      /\ account_totals(U)["errors"] = Count({e \in U : Failing(e)})
                      /\ account_totals(U)["cost_usd"] = Cost(U)
    OBVIOUS
  <2>1. {"requests", "errors", "cost_usd"} \subseteq SummedColumns
    BY DEF SummedColumns
  <2>2. \A f \in SummedColumns : account_totals(U)[f] = SumFunctionOnSet(Worth(U, f), U)
    BY TotalsAreSums
  <2>3. /\ Count(U) = SumFunctionOnSet(Worth(U, "requests"), U)
        /\ Count({e \in U : Failing(e)}) = SumFunctionOnSet(Worth(U, "errors"), U)
        /\ Cost(U) = SumFunctionOnSet(Worth(U, "cost_usd"), U)
    BY CountsAreSum, FailuresAreSum, CostIsSum
  <2> QED BY <2>1, <2>2, <2>3
<1>3. /\ c.requests_7d = Count(E) /\ c.errors_7d = Count({e \in E : Failing(e)}) /\ c.cost_7d = Cost(E)
      /\ c.requests_24h = Count({e \in E : e.ts >= h.now - Day}) /\ c.cost_5h = Cost(G)
  BY DEF account_counters
<1>4. {e \in E : e.ts >= h.now - Day} = F /\ G \subseteq F
  <2>1. h.now \in Nat /\ \A e \in h.events : e.ts \in Nat
    BY HistoriesTyped, ScopeRecorded, EventParts
  <2>2. /\ E = {e \in h.events : e.account = {a} /\ e.ts >= h.now - 10080}
        /\ F = {e \in h.events : e.account = {a} /\ e.ts >= h.now - 1440}
    <3>1. RangeHours["7d"] = 7 * 24 /\ RangeHours["24h"] = 24
      BY DEF RangeHours
    <3>2. (7 * 24) * 60 = 10080 /\ 24 * 60 = 1440
      OBVIOUS
    <3> QED BY <3>1, <3>2 DEF scope, Hour
  <2>3. Day = 1440 /\ 5 * Hour = 300
    BY DEF Day, Hour
  <2> HIDE DEF E, F
  <2> QED BY <2>1, <2>2, <2>3
<1>5. Cost(G) <= Cost(F)
  <2> HIDE DEF F, G
  <2>1. Cost(G) = SumFunctionOnSet(Worth(F, "cost_usd"), G) /\ Cost(F) = SumFunctionOnSet(Worth(F, "cost_usd"), F)
    BY <1>1, <1>4, CostIsSum
  <2> QED BY <1>1, <1>4, <2>1, WorthTally, SumGrows
<1> HIDE DEF E, F, G, c
<1> QED BY <1>1, <1>2, <1>3, <1>4, <1>5 DEF E, F, G, c

\* The bar of an account's health has its requests since the bar starts, the failed as failed.
BarCounts(h, a, size, count) ==
    LET bar   == buildBlocks(health_buckets(h, a, size, count), count, size, h.now)
        since == {e \in h.events : e.account = {a} /\ e.ts >= bar[1].start}
    IN  /\ Total(bar, LAMBDA b : b.failed) = Count({e \in since : Failing(e)})
        /\ Total(bar, LAMBDA b : b.success) = Count({e \in since : ~Failing(e)})

\* It does for every history and every size and number of blocks.
LEMMA BarHolds ==
  ASSUME NEW h \in Histories, NEW a, NEW size \in Nat \ {0}, NEW count \in Nat \ {0}
  PROVE  BarCounts(h, a, size, count)
<1> DEFINE E == {e \in h.events : e.account = {a} /\ e.ts >= h.now - size * count}
           key == [e \in E |-> Floor(e.ts, size)]
           good(G) == {e \in G : ~Failing(e)}
           bad(G) == {e \in G : Failing(e)}
           row(k, G) == [at |-> k, success |-> Count(good(G)), failed |-> Count(bad(G))]
           rec == [k \in Groups(E, key) |-> row(k, Group(E, key, k))]
           A == {rec[k] : k \in Groups(E, key)}
           g == [buckets |-> SetToSeq(A), count |-> count, size |-> size, now |-> h.now]
           D == DOMAIN g.buckets
           C == 1..count
           bar == buildBlocks(g.buckets, count, size, h.now)
           since == {e \in h.events : e.account = {a} /\ e.ts >= bar[1].start}
<1>1. Recorded(E) /\ h.now \in Nat /\ (\A e \in E : e.ts <= h.now) /\ \A e \in h.events : e.ts \in Nat
  <2>1. Recorded(h.events)
    BY ScopeRecorded
  <2>2. E \subseteq h.events
    OBVIOUS
  <2>3. \A e \in h.events : e.ts \in Nat
    BY <2>1, EventParts
  <2>4. Recorded(E)
    <3> HIDE DEF E
    <3> QED BY <2>1, <2>2, FS_Subset DEF Recorded
  <2> QED BY <2>3, <2>4, HistoriesTyped
<1>2. health_buckets(h, a, size, count) = g.buckets
  <2> DEFINE part == [k \in {Floor(e.ts, size) : e \in E} |-> {e \in E : Floor(e.ts, size) = k}]
             rows == Grouped(E, LAMBDA e : Floor(e.ts, size), LAMBDA t, G : row(t, G))
  <2>1. Groups(E, key) = {Floor(e.ts, size) : e \in E}
    BY DEF Groups
  <2>2. rows = {row(k, part[k]) : k \in {Floor(e.ts, size) : e \in E}}
    BY DEF Grouped
  <2>3. \A k \in Groups(E, key) : part[k] = Group(E, key, k) /\ rec[k] = row(k, Group(E, key, k))
    BY <2>1 DEF Group
  <2>4. rows = A
    <3> HIDE DEF row, rec, key, part, rows, E
    <3> QED BY <2>1, <2>2, <2>3
  <2>5. health_buckets(h, a, size, count) = SetToSeq(rows)
    BY DEF health_buckets
  <2>6. g.buckets = SetToSeq(A)
    OBVIOUS
  <2> HIDE DEF rows, A, g
  <2> QED BY <2>4, <2>5, <2>6
<1>3. IsFiniteSet(A)
  <2>1. IsFiniteSet(Groups(E, key))
    <3>1. IsFiniteSet(E) /\ DOMAIN key = E
      BY <1>1 DEF Recorded
    <3> HIDE DEF key, E
    <3> QED BY <3>1, ImageFinite DEF Groups
  <2>2. DOMAIN rec = Groups(E, key)
    OBVIOUS
  <2> HIDE DEF rec, key, E
  <2> QED BY <2>1, <2>2, ImageFinite
<1>4. \A k \in Groups(E, key) :
         /\ Count(good(Group(E, key, k))) \in Nat /\ Count(bad(Group(E, key, k))) \in Nat /\ k \in Nat
  <2> SUFFICES ASSUME NEW k \in Groups(E, key)
               PROVE  Count(good(Group(E, key, k))) \in Nat /\ Count(bad(Group(E, key, k))) \in Nat /\ k \in Nat
    OBVIOUS
  <2>1. good(Group(E, key, k)) \subseteq E /\ bad(Group(E, key, k)) \subseteq E
    BY DEF Group
  <2>2. PICK e \in E : k = Floor(e.ts, size)
    BY DEF Groups
  <2>3. k \in Nat
    <3>1. e.ts \in Nat
      BY <1>1
    <3> QED BY <2>2, <3>1, FloorBelow
  <2> HIDE DEF good, bad, E, key
  <2> QED BY <1>1, <2>1, <2>3, PartCounted
<1>5. A \subseteq HealthBucket
  <2>1. \A k \in Groups(E, key) : rec[k] \in HealthBucket
    <3> SUFFICES ASSUME NEW k \in Groups(E, key) PROVE row(k, Group(E, key, k)) \in HealthBucket
      OBVIOUS
    <3> HIDE DEF good, bad
    <3> QED BY <1>4 DEF HealthBucket
  <2> QED BY <2>1
<1>6. HealthTyped(g)
  <2>1. SetToSeq(A) \in Seq(HealthBucket)
    <3> HIDE DEF A
    <3> QED BY <1>3, <1>5, SetSequence
  <2> HIDE DEF A
  <2> QED BY <1>1, <2>1 DEF HealthTyped
<1>7. \A j \in D : g.buckets[j] \in A
  <2> HIDE DEF A
  <2> QED BY <1>3, SetSequence DEF Bijection, Surjection
<1>8. /\ g.count = count /\ g.size = size /\ g.now = h.now /\ g.buckets = SetToSeq(A)
      /\ \A k \in Groups(E, key) : rec[k].at = k
      /\ rec = [k \in Groups(E, key) |-> rec[k]]
  OBVIOUS
<1>9. Begin(g, 1) > h.now - size * count
  <2> HIDE DEF g
  <2> QED BY <1>6, <1>8, BarBegins
<1>10. DOMAIN bar = C /\ \A i \in C : /\ bar[i].start = Begin(g, i)
                                     /\ bar[i].failed = Shown(g, Failures(g), i)
                                     /\ bar[i].success = Shown(g, Successes(g), i)
  <2>1. DOMAIN bar = C
    BY DEF buildBlocks
  <2>2. bar = buildBlocks(g.buckets, g.count, g.size, g.now) /\ C = 1..g.count
    BY <1>8
  <2> HIDE DEF g, bar, C
  <2> QED BY <1>6, <2>1, <2>2, BlockShows
<1>11. since = {e \in E : e.ts >= Begin(g, 1)}
  <2>1. bar[1].start = Begin(g, 1) /\ Begin(g, 1) \in Int
    <3>1. 1 \in C
      OBVIOUS
    <3> HIDE DEF g, bar, C
    <3> QED BY <1>6, <1>10, <3>1, BarBegins
  <2>2. h.now - size * count \in Int
    BY <1>1
  <2> HIDE DEF bar, g
  <2> QED BY <1>1, <1>9, <2>1, <2>2
<1> DEFINE In(f) == [j \in D |-> IF BlockOf(g)[j] \in C THEN f[j] ELSE 0]
<1>12. ASSUME NEW f, f \in [D -> Nat]
       PROVE  SumFunctionOnSet([i \in C |-> Shown(g, f, i)], C) = SumFunctionOnSet(In(f), D)
  <2>1. C = 1..g.count
    BY <1>8
  <2> HIDE DEF g
  <2> QED BY <1>6, <1>12, <2>1, BlocksCover
<1>13. ASSUME NEW X, NEW n, n \in [A -> Nat],
              \A k \in Groups(E, key) : n[rec[k]] = Count(Group(E, key, k) \cap X),
              NEW f, \A j \in D : f[j] = n[g.buckets[j]]
       PROVE  SumFunctionOnSet(In(f), D) = Count(From(E, Begin(g, 1)) \cap X)
  <2> DEFINE s == In(f)
  <2>1. /\ Recorded(E) /\ HealthTyped(g) /\ (\A e \in E : e.ts <= g.now)
        /\ DOMAIN key = E /\ (\A e \in E : key[e] = Floor(e.ts, g.size))
        /\ \A k \in Groups(E, key) : rec[k].at = k
    BY <1>1, <1>6
  <2>2. rec \in Bijection(Groups(E, key), A)
    <3>1. \A k, l \in Groups(E, key) : rec[k] = rec[l] => k = l
      OBVIOUS
    <3>2. rec = [k \in Groups(E, key) |-> rec[k]] /\ A = {rec[k] : k \in Groups(E, key)}
      OBVIOUS
    <3> HIDE DEF rec, key, E, A
    <3> QED BY <3>1, <3>2, Renumbered
  <2>3. g.buckets = SetToSeq(A)
    OBVIOUS
  <2>4. \A j \in DOMAIN g.buckets : s[j] = IF BlockOf(g)[j] \in 1..g.count THEN n[g.buckets[j]] ELSE 0
    <3>1. C = 1..g.count /\ D = DOMAIN g.buckets
      BY <1>8
    <3> HIDE DEF g, rec, key, E, A, C
    <3> QED BY <1>13, <3>1
  <2> HIDE DEF g, rec, key, E, A, C, s
  <2>5. Recorded(E) /\ HealthTyped(g) /\ InBuckets(E, g, key, A, rec) /\ Counted(E, key, A, rec, X, n) /\ ShownOf(g, n, s)
    BY <1>13, <2>1, <2>2, <2>3, <2>4 DEF InBuckets, Counted, ShownOf
  <2>6. SumFunctionOnSet(s, DOMAIN g.buckets) = Count(From(E, Begin(g, 1)) \cap X)
    BY ONLY <2>5, BarSide
  <2> QED BY <2>6 DEF s
<1>14. Total(bar, LAMBDA b : b.failed) = Count({e \in since : Failing(e)})
  <2> DEFINE f == Failures(g)
             n == [x \in A |-> x.failed]
             X == bad(E)
  <2>1. n \in [A -> Nat]
    BY <1>5 DEF HealthBucket
  <2>2. \A k \in Groups(E, key) : n[rec[k]] = Count(Group(E, key, k) \cap X)
    <3> SUFFICES ASSUME NEW k \in Groups(E, key) PROVE n[rec[k]] = Count(Group(E, key, k) \cap X)
      OBVIOUS
    <3>1. Group(E, key, k) \cap X = bad(Group(E, key, k))
      BY DEF Group
    <3>2. rec[k] \in A /\ rec[k].failed = Count(bad(Group(E, key, k)))
      OBVIOUS
    <3> QED BY <3>1, <3>2
  <2>3. \A j \in D : f[j] = n[g.buckets[j]]
    BY <1>7 DEF Failures
  <2>4. f \in [D -> Nat]
    <3>1. \A j \in D : g.buckets[j].failed \in Nat
      BY <1>5, <1>7 DEF HealthBucket
    <3> HIDE DEF g
    <3> QED BY <3>1 DEF Failures
  <2>5. Total(bar, LAMBDA b : b.failed) = SumFunctionOnSet([i \in C |-> bar[i].failed], C)
    <3> HIDE DEF bar
    <3> QED BY <1>10 DEF Total, SumOver, SumFunction
  <2>6. [i \in C |-> bar[i].failed] = [i \in C |-> Shown(g, f, i)]
    <3> HIDE DEF bar, C, g
    <3> QED BY <1>10
  <2>7. SumFunctionOnSet(In(f), D) = Count(From(E, Begin(g, 1)) \cap X)
    <3> HIDE DEF f, n, X, g, rec, key, E, A, D, In
    <3> QED BY <1>13, <2>1, <2>2, <2>3, ZenonT(60)
  <2>8. From(E, Begin(g, 1)) \cap X = {e \in since : Failing(e)}
    <3> HIDE DEF since, g
    <3> QED BY <1>11 DEF From
  <2> HIDE DEF f, n, X, g, rec, key, E, A, D, In, bar, since
  <2> QED BY <1>12, <2>4, <2>5, <2>6, <2>7, <2>8
<1>15. Total(bar, LAMBDA b : b.success) = Count({e \in since : ~Failing(e)})
  <2> DEFINE f == Successes(g)
             n == [x \in A |-> x.success]
             X == good(E)
  <2>1. n \in [A -> Nat]
    BY <1>5 DEF HealthBucket
  <2>2. \A k \in Groups(E, key) : n[rec[k]] = Count(Group(E, key, k) \cap X)
    <3> SUFFICES ASSUME NEW k \in Groups(E, key) PROVE n[rec[k]] = Count(Group(E, key, k) \cap X)
      OBVIOUS
    <3>1. Group(E, key, k) \cap X = good(Group(E, key, k))
      BY DEF Group
    <3>2. rec[k] \in A /\ rec[k].success = Count(good(Group(E, key, k)))
      OBVIOUS
    <3> QED BY <3>1, <3>2
  <2>3. \A j \in D : f[j] = n[g.buckets[j]]
    BY <1>7 DEF Successes
  <2>4. f \in [D -> Nat]
    <3>1. \A j \in D : g.buckets[j].success \in Nat
      BY <1>5, <1>7 DEF HealthBucket
    <3> HIDE DEF g
    <3> QED BY <3>1 DEF Successes
  <2>5. Total(bar, LAMBDA b : b.success) = SumFunctionOnSet([i \in C |-> bar[i].success], C)
    <3> HIDE DEF bar
    <3> QED BY <1>10 DEF Total, SumOver, SumFunction
  <2>6. [i \in C |-> bar[i].success] = [i \in C |-> Shown(g, f, i)]
    <3> HIDE DEF bar, C, g
    <3> QED BY <1>10
  <2>7. SumFunctionOnSet(In(f), D) = Count(From(E, Begin(g, 1)) \cap X)
    <3> HIDE DEF f, n, X, g, rec, key, E, A, D, In
    <3> QED BY <1>13, <2>1, <2>2, <2>3, ZenonT(60)
  <2>8. From(E, Begin(g, 1)) \cap X = {e \in since : ~Failing(e)}
    <3> HIDE DEF since, g
    <3> QED BY <1>11 DEF From
  <2> HIDE DEF f, n, X, g, rec, key, E, A, D, In, bar, since
  <2> QED BY <1>12, <2>4, <2>5, <2>6, <2>7, <2>8
<1> HIDE DEF g
<1> QED BY <1>2, <1>14, <1>15, Zenon DEF BarCounts

-----------------------------------------------------------------------------
(* The lanes of the overview (pages/Overview.tsx). *)

\* A lane is filled in percent, and full when the account is at its limit.
LEMMA FillBounded ==
  ASSUME NEW i \in Nat, NEW m \in Nat \ {0}
  PROVE  /\ AtMost(100, (200 * i + m) \div (2 * m)) \in 0..100
         /\ i >= m => AtMost(100, (200 * i + m) \div (2 * m)) = 100
<1> DEFINE d == 2 * m
           q == (200 * i + m) \div d
<1>1. d \in Nat \ {0} /\ 200 * i + m \in Nat
  OBVIOUS
<1>2. q \in Int /\ q * d <= 200 * i + m /\ 200 * i + m < q * d + d
  <2> HIDE DEF d
  <2> QED BY <1>1, DivBounds DEF q
<1>3. i >= m => 100 * d <= 200 * i + m
  OBVIOUS
<1>4. AtMost(100, q) = IF q < 100 THEN q ELSE 100
  BY <1>2 DEF AtMost
<1> HIDE DEF d, q
<1>5. /\ (q + 1) * d = q * d + d /\ q * d \in Int /\ 100 * d \in Int
      /\ (q + 1 <= 0 <=> (q + 1) * d <= 0 * d) /\ 0 * d = 0
      /\ (q + 1 <= 100 <=> (q + 1) * d <= 100 * d)
  BY <1>1, <1>2, Multiples
<1>6. q >= 0
  BY <1>1, <1>2, <1>5
<1>7. i >= m => q >= 100
  BY <1>1, <1>2, <1>3, <1>5
<1> QED BY <1>2, <1>4, <1>6, <1>7 DEF q, d

\* A sum is no less than what one element adds to it.
LEMMA SumHas ==
  ASSUME NEW S, NEW h, Tally(h, S), NEW x \in S
  PROVE  h[x] <= SumFunctionOnSet(h, S)
<1>1. S \subseteq S
  OBVIOUS
<1>2. SumFunctionOnSet(h, S) = h[x] + SumFunctionOnSet(h, S \ {x})
      /\ SumFunctionOnSet(h, S \ {x}) \in Nat /\ h[x] \in Nat
  BY <1>1, SumRemove
<1> QED BY <1>2

\* What a lane of the overview shows.
LEMMA LaneShows ==
  ASSUME NEW e
  PROVE  /\ Lane(e).fill = AtMost(100, (200 * e.inflight + AtLeast(1, e.max)) \div (2 * AtLeast(1, e.max)))
         /\ Lane(e).status = (IF e.enabled THEN e.status ELSE "stopped")
<1> DEFINE status == IF e.enabled THEN e.status ELSE "stopped"
           fill == AtMost(100, (200 * e.inflight + AtLeast(1, e.max)) \div (2 * AtLeast(1, e.max)))
           tone == CASE status = "running" -> "" [] status \in {"starting", "unhealthy"} -> "warn" [] OTHER -> "idle"
<1>1. Lane(e) = [status |-> status, fill |-> fill, tone |-> tone]
  BY Zenon DEF Lane
<1>2. Lane(e).fill = fill /\ Lane(e).status = status
  <2> HIDE DEF status, fill, tone
  <2> QED BY <1>1
<1> QED BY <1>2

\* The lanes of the overview are filled in percent and part of its capacity.
LEMMA LanesFilled ==
  ASSUME NEW p \in Pools
  PROVE  LanesHold(p)
<1> DEFINE o == Overview(p)
           cap == [i \in DOMAIN p |-> IF p[i].status = "running" THEN p[i].max ELSE 0]
<1>1. /\ IsFiniteSet(DOMAIN p)
      /\ \A i \in DOMAIN p : p[i] \in [status : STRING, enabled : BOOLEAN, inflight : Nat, max : Nat]
  BY PoolsTyped, Entries
<1>2. \A i \in DOMAIN p : p[i].inflight \in Nat /\ p[i].max \in Nat
  BY <1>1
<1>3. Tally(cap, DOMAIN p)
  BY <1>1, <1>2 DEF Tally
<1>4. o.capacity = SumFunctionOnSet(cap, DOMAIN p)
  BY DEF Overview, Total, SumOver, SumFunction
<1>5. ASSUME NEW i \in DOMAIN p
      PROVE  /\ o.lanes[i].fill \in 0..100
             /\ p[i].inflight >= AtLeast(1, p[i].max) => o.lanes[i].fill = 100
             /\ o.lanes[i].status = "running" => o.capacity >= p[i].max
  <2> DEFINE m == AtLeast(1, p[i].max)
             n == p[i].inflight
             fill == AtMost(100, (200 * n + m) \div (2 * m))
  <2>1. o.lanes[i] = Lane(p[i])
    BY DEF Overview
  <2>2. m \in Nat \ {0} /\ n \in Nat
    BY <1>2 DEF AtLeast
  <2>3. o.lanes[i].fill = fill
    BY <2>1, LaneShows
  <2>4. fill \in 0..100 /\ (n >= m => fill = 100)
    <3> HIDE DEF m, n, o
    <3> QED BY <2>2, FillBounded
  <2>5. ASSUME o.lanes[i].status = "running" PROVE o.capacity >= p[i].max
    <3>1. o.lanes[i].status = (IF p[i].enabled THEN p[i].status ELSE "stopped")
      BY <2>1, LaneShows
    <3>2. p[i].status = "running"
      BY <2>5, <3>1
    <3>3. cap[i] = p[i].max
      BY <3>2
    <3> HIDE DEF cap, o
    <3>4. cap[i] <= SumFunctionOnSet(cap, DOMAIN p)
      BY <1>3, SumHas
    <3> QED BY <1>4, <3>3, <3>4
  <2> HIDE DEF o, fill, m, n, cap
  <2>6. p[i].inflight >= AtLeast(1, p[i].max) => o.lanes[i].fill = 100
    BY <2>3, <2>4 DEF n, m
  <2> QED BY <2>3, <2>4, <2>5, <2>6
<1> HIDE DEF o
<1> QED BY <1>5 DEF LanesHold, o

\* For any histories and pools: what the server groups and counts, and the panel shows of it
\* in the dialog, the accounts list, the health bar and the overview, adds up.
THEOREM RecordsAreWhole == RecordsAddUp
<1>1. ASSUME NEW h \in Histories, NEW a \in Owners PROVE ListAgrees(h, a)
  <2> DEFINE c == account_counters(h, a)
             T(r) == account_totals(scope(h, a, r))
             bar == buildBlocks(health_buckets(h, a, 10, 3), 3, 10, h.now)
             since == {e \in h.events : e.account = {a} /\ e.ts >= bar[1].start}
  <2>1. c \in AccountCounters
    BY CountersTyped
  <2>2. /\ c.requests_7d = T("7d").requests /\ c.errors_7d = T("7d").errors /\ c.cost_7d = T("7d").cost_usd
        /\ c.requests_24h = T("24h").requests /\ c.cost_5h <= T("24h").cost_usd
    BY CountersAgree
  <2>3. /\ Total(bar, LAMBDA b : b.failed) = Count({e \in since : Failing(e)})
        /\ Total(bar, LAMBDA b : b.success) = Count({e \in since : ~Failing(e)})
    <3>1. 10 \in Nat \ {0} /\ 3 \in Nat \ {0}
      OBVIOUS
    <3>2. BarCounts(h, a, 10, 3)
      BY <3>1, BarHolds
    <3> QED BY <3>2, Zenon DEF BarCounts
  <2> QED BY <2>1, <2>2, <2>3, Zenon DEF ListAgrees
<1> QED BY <1>1, SplitsHold, QualityHolds, LanesFilled DEF RecordsAddUp
=============================================================================
