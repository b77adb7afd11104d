----------------------------- MODULE SumProofs -----------------------------
(***************************************************************************)
(* Induction over numbers and over finite sets, recursive functions, and   *)
(* the sums of the community modules: what the proofs about amounts of     *)
(* goods rest on.  (The library's induction theorems have an operator for  *)
(* a parameter; a set does as well.)                                       *)
(***************************************************************************)
EXTENDS Integers, Sequences, SequencesExt, FiniteSetsExt, Functions, FiniteSetTheorems,
        SequenceTheorems, WellFoundedInduction, TLAPS

-----------------------------------------------------------------------------
(* Induction, and sums over finite sets. *)

\* Induction over the naturals, without the library's theorem, whose parameter is an operator.
LEMMA SmallestNat ==
  ASSUME NEW S \in SUBSET Nat, S # {} PROVE \E n \in S : \A m \in S : n <= m
<1>1. PICK n \in S : \A m \in S : <<m, n>> \notin OpToRel(<, Nat)
  BY WFMin, NatLessThanWellFounded
<1>2. ASSUME NEW m \in S PROVE n <= m
  <2>1. ~(m < n)
    BY <1>1 DEF OpToRel
  <2>2. QED
    BY <2>1
<1>3. QED
  BY <1>2

LEMMA Inductively ==
  ASSUME NEW C, 0 \in C, \A n \in Nat : n \in C => n + 1 \in C PROVE \A n \in Nat : n \in C
<1> DEFINE Bad == {n \in Nat : n \notin C}
<1> SUFFICES ASSUME Bad # {} PROVE FALSE
  OBVIOUS
<1>1. Bad \in SUBSET Nat
  OBVIOUS
<1>2. \E n \in Bad : \A m \in Bad : n <= m
  <2> HIDE DEF Bad
  <2>1. QED
    BY <1>1, SmallestNat
<1>3. PICK n \in Bad : \A m \in Bad : n <= m
  BY <1>2
<1>4. n - 1 \in Nat /\ (n - 1) + 1 = n
  OBVIOUS
<1>5. n - 1 \in Bad
  BY <1>4
<1>6. QED
  BY <1>3, <1>5

LEMMA NumberInduction ==
  ASSUME NEW n \in Nat, NEW C, 0 \in C, \A i \in 1..n : i - 1 \in C => i \in C
  PROVE  \A i \in 0..n : i \in C
<1> DEFINE D == {i \in Nat : i <= n => i \in C}
<1>1. 0 \in D
  OBVIOUS
<1>2. ASSUME NEW i \in Nat, i \in D PROVE i + 1 \in D
  <2>1. CASE i + 1 <= n
    <3>1. i \in C /\ i + 1 \in 1..n /\ (i + 1) - 1 = i
      BY <1>2, <2>1
    <3>2. QED
      BY <3>1
  <2>2. CASE ~(i + 1 <= n)
    BY <2>2
  <2>3. QED
    BY <2>1, <2>2
<1> HIDE DEF D
<1>3. \A i \in Nat : i \in D
  BY <1>1, <1>2, Inductively
<1>4. QED
  BY <1>3 DEF D

\* A recursive function over the first numbers exists, if every step stays in a set.
Unrolls(g, n, X, base, step) ==
  g \in [0..n -> X] /\ g[0] = base /\ \A i \in 1..n : g[i] = step[i][g[i - 1]]

LEMMA Recursion ==
  ASSUME NEW n \in Nat, NEW X, NEW base \in X, NEW step \in [1..n -> [X -> X]]
  PROVE  \E g : Unrolls(g, n, X, base, step)
<1> DEFINE Good(k) == \E g \in [0..k -> X] : g[0] = base /\ \A i \in 1..k : g[i] = step[i][g[i - 1]]
           C == {k \in 0..n : Good(k)}
<1>1. 0 \in C
  <2> DEFINE g == [i \in 0..0 |-> base]
  <2>1. g \in [0..0 -> X] /\ g[0] = base /\ \A i \in 1..0 : g[i] = step[i][g[i - 1]]
    OBVIOUS
  <2> HIDE DEF g
  <2>2. QED
    BY <2>1
<1>2. ASSUME NEW k \in 1..n, k - 1 \in C PROVE k \in C
  <2>1. PICK g \in [0..(k - 1) -> X] : g[0] = base /\ \A i \in 1..(k - 1) : g[i] = step[i][g[i - 1]]
    BY <1>2
  <2> DEFINE h == [i \in 0..k |-> IF i = k THEN step[k][g[k - 1]] ELSE g[i]]
  <2>2. step[k][g[k - 1]] \in X
    <3>1. k - 1 \in 0..(k - 1)
      OBVIOUS
    <3>2. g[k - 1] \in X
      BY <3>1
    <3>3. QED
      BY <3>2
  <2>3. h \in [0..k -> X]
    BY <2>2
  <2>4. h[0] = base
    BY <2>1
  <2>5. ASSUME NEW i \in 1..k PROVE h[i] = step[i][h[i - 1]]
    BY <2>1
  <2> HIDE DEF h
  <2>6. QED
    BY <2>3, <2>4, <2>5
<1> HIDE DEF C
<1>3. \A k \in 0..n : k \in C
  BY <1>1, <1>2, NumberInduction
<1>4. n \in 0..n
  OBVIOUS
<1>5. Good(n)
  BY <1>3, <1>4 DEF C
<1>6. QED
  BY <1>5 DEF Unrolls

Chosen(s) == CHOOSE x \in s : TRUE

\* One step of a sum.
SumStep(f, g, s) == IF s = {} THEN 0 ELSE f[Chosen(s)] + g[s \ {Chosen(s)}]

LEMMA SumIsRecursive ==
  ASSUME NEW f, NEW S
  PROVE  SumFunctionOnSet(f, S) = (CHOOSE g : g = [s \in SUBSET S |-> SumStep(f, g, s)])[S]
BY DEF SumFunctionOnSet, FoldFunctionOnSet, MapThenFoldSet, SumStep, Chosen

LEMMA SumTables ==
  ASSUME NEW f, NEW S, IsFiniteSet(S)
  PROVE  \E g : g = [s \in SUBSET S |-> SumStep(f, g, s)]
<1> DEFINE Good(g, n) == \A s \in SUBSET S : Cardinality(s) <= n => g[s] = SumStep(f, g, s)
           Bad == {n \in Nat : ~\E g : Good(g, n)}
<1>0. \A s \in SUBSET S : IsFiniteSet(s) /\ Cardinality(s) \in Nat
  BY FS_Subset, FS_CardinalityType
<1>c. \A s \in SUBSET S : s # {} => Chosen(s) \in s /\ Cardinality(s \ {Chosen(s)}) = Cardinality(s) - 1
  BY <1>0, FS_RemoveElement DEF Chosen
<1>1. Bad = {}
  <2> SUFFICES ASSUME Bad # {} PROVE FALSE
    OBVIOUS
  <2>a. Bad \in SUBSET Nat
    OBVIOUS
  <2>b. \E n \in Bad : \A m \in Bad : n <= m
    <3> HIDE DEF Bad
    <3>1. QED
      BY <2>a, SmallestNat
  <2>1. PICK n \in Bad : \A m \in Bad : n <= m
    BY <2>b
  <2>2. n # 0
    <3>1. Good([s \in SUBSET S |-> 0], 0)
      BY <1>0, FS_EmptySet DEF SumStep
    <3>2. QED
      BY <3>1
  <2>3. PICK g : Good(g, n - 1)
    BY <2>1, <2>2
  <2> DEFINE h == [s \in SUBSET S |-> SumStep(f, g, s)]
  <2>4. ASSUME NEW s \in SUBSET S, Cardinality(s) <= n - 1 PROVE h[s] = g[s]
    BY <2>3, <2>4
  <2>5. ASSUME NEW s \in SUBSET S, Cardinality(s) <= n PROVE h[s] = SumStep(f, h, s)
    <3>1. h[s] = SumStep(f, g, s)
      OBVIOUS
    <3> HIDE DEF h
    <3>2. CASE s = {}
      BY <3>1, <3>2 DEF SumStep
    <3>3. CASE s # {}
      <4> DEFINE t == s \ {Chosen(s)}
      <4>1. t \in SUBSET S /\ Cardinality(t) <= n - 1
        BY <1>0, <1>c, <2>5, <3>3
      <4>2. h[t] = g[t]
        BY <2>4, <4>1
      <4>3. QED
        BY <3>1, <4>2 DEF SumStep
    <3>4. QED
      BY <3>2, <3>3
  <2>6. Good(h, n)
    BY <2>5
  <2>7. QED
    BY <2>6
<1>2. PICK g : Good(g, Cardinality(S))
  BY <1>0, <1>1
<1> DEFINE h == [s \in SUBSET S |-> g[s]]
<1>3. ASSUME NEW s \in SUBSET S PROVE g[s] = SumStep(f, h, s)
  <2>1. g[s] = SumStep(f, g, s)
    BY <1>0, <1>2, FS_Subset
  <2>2. s # {} => h[s \ {Chosen(s)}] = g[s \ {Chosen(s)}]
    OBVIOUS
  <2>3. QED
    BY <2>1, <2>2 DEF SumStep
<1>4. h = [s \in SUBSET S |-> SumStep(f, h, s)]
  BY <1>3
<1>5. QED
  BY <1>4

\* The sum of a function over a finite set, and over nothing.
LEMMA SumUnfolds ==
  ASSUME NEW f, NEW S, IsFiniteSet(S)
  PROVE  /\ SumFunctionOnSet(f, {}) = 0
         /\ S # {} => SumFunctionOnSet(f, S) =
                         f[Chosen(S)] + SumFunctionOnSet(f, S \ {Chosen(S)})
<1> DEFINE G(T) == CHOOSE g : g = [s \in SUBSET T |-> SumStep(f, g, s)]
<1>1. ASSUME NEW T, IsFiniteSet(T) PROVE G(T) = [s \in SUBSET T |-> SumStep(f, G(T), s)]
  BY <1>1, SumTables
<1>2. ASSUME NEW T \in SUBSET S PROVE IsFiniteSet(T)
  BY FS_Subset
<1>s. \A T : SumFunctionOnSet(f, T) = G(T)[T]
  BY SumIsRecursive
<1> HIDE DEF G
<1>3. ASSUME NEW A \in SUBSET S, NEW T \in SUBSET A PROVE G(A)[T] = SumStep(f, G(A), T)
  <2>1. G(A) = [s \in SUBSET A |-> SumStep(f, G(A), s)]
    BY <1>1, <1>2
  <2>2. QED
    BY <2>1
<1>n. \A T \in SUBSET S : Cardinality(T) \in Nat
  BY <1>2, FS_CardinalityType
<1>c. \A T \in SUBSET S : T # {} => Chosen(T) \in T /\ Cardinality(T \ {Chosen(T)}) = Cardinality(T) - 1
  BY <1>2, FS_RemoveElement DEF Chosen
<1> DEFINE Bad == {n \in Nat : \E A, B \in SUBSET S : \E T \in SUBSET (A \cap B) :
                                Cardinality(T) = n /\ G(A)[T] # G(B)[T]}
<1>4. Bad = {}
  <2> SUFFICES ASSUME Bad # {} PROVE FALSE
    OBVIOUS
  <2>1. Bad \in SUBSET Nat
    OBVIOUS
  <2>2. \E n \in Bad : \A m \in Bad : n <= m
    <3> HIDE DEF Bad
    <3>1. QED
      BY <2>1, SmallestNat
  <2>3. PICK n \in Bad : \A m \in Bad : n <= m
    BY <2>2
  <2>3x. PICK A \in SUBSET S, B \in SUBSET S :
           \E T \in SUBSET (A \cap B) : Cardinality(T) = n /\ G(A)[T] # G(B)[T]
    OBVIOUS
  <2>4. PICK T \in SUBSET (A \cap B) : Cardinality(T) = n /\ G(A)[T] # G(B)[T]
    BY <2>3x
  <2>5. G(A)[T] = SumStep(f, G(A), T) /\ G(B)[T] = SumStep(f, G(B), T)
    BY <1>3
  <2>6. T # {}
    BY <2>4, <2>5 DEF SumStep
  <2> DEFINE U == T \ {Chosen(T)}
  <2>7. U \in SUBSET (A \cap B) /\ Cardinality(U) = n - 1 /\ n - 1 \in Nat
    BY <1>c, <1>n, <2>4, <2>6
  <2>8. n - 1 \notin Bad
    BY <2>3
  <2>9. G(A)[U] = G(B)[U]
    BY <2>7, <2>8
  <2>10. QED
    BY <2>4, <2>5, <2>6, <2>9 DEF SumStep
<1>5. ASSUME NEW A \in SUBSET S, NEW B \in SUBSET S, NEW T \in SUBSET (A \cap B)
      PROVE  G(A)[T] = G(B)[T]
  BY <1>4, <1>n
<1>6. SumFunctionOnSet(f, {}) = 0
  <2>1. G({})[{}] = SumStep(f, G({}), {})
    BY <1>3
  <2>2. QED
    BY <1>s, <2>1 DEF SumStep
<1>7. ASSUME S # {}
      PROVE  SumFunctionOnSet(f, S) = f[Chosen(S)] + SumFunctionOnSet(f, S \ {Chosen(S)})
  <2> DEFINE U == S \ {Chosen(S)}
  <2>1. G(S)[S] = f[Chosen(S)] + G(S)[U]
    BY <1>3, <1>7 DEF SumStep
  <2>2. G(S)[U] = G(U)[U]
    BY <1>5
  <2>3. QED
    BY <1>s, <2>1, <2>2
<1>8. QED
  BY <1>6, <1>7

\* Induction over the subsets of a finite set.
LEMMA SubsetInduction ==
  ASSUME NEW S, IsFiniteSet(S), NEW C,
         \A T \in SUBSET S : (\A x \in T : T \ {x} \in C) => T \in C
  PROVE  S \in C
<1>0. \A T \in SUBSET S : /\ Cardinality(T) \in Nat
                          /\ \A x \in T : Cardinality(T \ {x}) = Cardinality(T) - 1
  BY FS_Subset, FS_CardinalityType, FS_RemoveElement
<1> DEFINE Bad == {n \in Nat : \E T \in SUBSET S : Cardinality(T) = n /\ T \notin C}
<1>1. Bad = {}
  <2> SUFFICES ASSUME Bad # {} PROVE FALSE
    OBVIOUS
  <2>1. Bad \in SUBSET Nat
    OBVIOUS
  <2>2. \E n \in Bad : \A m \in Bad : n <= m
    <3> HIDE DEF Bad
    <3>1. QED
      BY <2>1, SmallestNat
  <2>3. PICK n \in Bad : \A m \in Bad : n <= m
    BY <2>2
  <2>4. PICK T \in SUBSET S : Cardinality(T) = n /\ T \notin C
    OBVIOUS
  <2>5. PICK x \in T : T \ {x} \notin C
    BY <2>4
  <2>6. Cardinality(T \ {x}) = n - 1 /\ n - 1 \in Nat
    BY <1>0, <2>4
  <2>7. n - 1 \in Bad
    BY <2>5, <2>6
  <2>8. QED
    BY <2>3, <2>6, <2>7
<1>2. QED
  BY <1>0, <1>1

LEMMA SumType ==
  ASSUME NEW f, NEW S, IsFiniteSet(S), \A x \in S : f[x] \in Int
  PROVE  SumFunctionOnSet(f, S) \in Int
<1> DEFINE C == {T \in SUBSET S : SumFunctionOnSet(f, T) \in Int}
<1>1. ASSUME NEW T \in SUBSET S, \A x \in T : T \ {x} \in C PROVE T \in C
  <2>1. IsFiniteSet(T)
    BY FS_Subset
  <2>2. CASE T = {}
    BY <2>1, <2>2, SumUnfolds
  <2>3. CASE T # {}
    <3>1. Chosen(T) \in T
      BY <2>3 DEF Chosen
    <3>2. SumFunctionOnSet(f, T) = f[Chosen(T)] + SumFunctionOnSet(f, T \ {Chosen(T)})
      BY <2>1, <2>3, SumUnfolds
    <3>3. QED
      BY <1>1, <3>1, <3>2
  <2>4. QED
    BY <2>2, <2>3
<1> HIDE DEF C
<1>2. S \in C
  BY <1>1, SubsetInduction
<1>3. QED
  BY <1>2 DEF C

\* Any element may be taken out of a sum.
LEMMA SumOut ==
  ASSUME NEW f, NEW S, IsFiniteSet(S), \A x \in S : f[x] \in Int, NEW y \in S
  PROVE  SumFunctionOnSet(f, S) = f[y] + SumFunctionOnSet(f, S \ {y})
<1> DEFINE Sum(T) == SumFunctionOnSet(f, T)
           C == {T \in SUBSET S : \A x \in T : Sum(T) = f[x] + Sum(T \ {x})}
<1>i. \A T \in SUBSET S : IsFiniteSet(T) /\ Sum(T) \in Int
  BY FS_Subset, SumType
<1>u. \A T \in SUBSET S : T # {} => Sum(T) = f[Chosen(T)] + Sum(T \ {Chosen(T)})
  BY <1>i, SumUnfolds
<1> HIDE DEF Sum
<1>1. ASSUME NEW T \in SUBSET S, \A x \in T : T \ {x} \in C PROVE T \in C
  <2> SUFFICES ASSUME NEW x \in T PROVE Sum(T) = f[x] + Sum(T \ {x})
    OBVIOUS
  <2> DEFINE c == Chosen(T)
  <2>1. c \in T
    BY DEF Chosen
  <2>2. Sum(T) = f[c] + Sum(T \ {c})
    BY <1>u
  <2> HIDE DEF c
  <2>3. CASE x = c
    BY <2>2, <2>3
  <2>4. CASE x # c
    <3>1. Sum(T \ {c}) = f[x] + Sum((T \ {c}) \ {x})
      BY <1>1, <2>1, <2>4
    <3>2. Sum(T \ {x}) = f[c] + Sum((T \ {x}) \ {c})
      BY <1>1, <2>1, <2>4
    <3>3. (T \ {c}) \ {x} = (T \ {x}) \ {c}
      OBVIOUS
    <3>4. PICK r : r = Sum((T \ {c}) \ {x})
      OBVIOUS
    <3>5. r \in Int /\ f[c] \in Int /\ f[x] \in Int
      BY <1>i, <2>1, <3>4
    <3>6. Sum(T) = f[c] + (f[x] + r) /\ Sum(T \ {x}) = f[c] + r
      BY <2>2, <3>1, <3>2, <3>3, <3>4
    <3>7. QED
      BY <3>5, <3>6
  <2>5. QED
    BY <2>3, <2>4
<1> HIDE DEF C
<1>2. S \in C
  BY <1>1, SubsetInduction
<1>3. QED
  BY <1>2 DEF C, Sum

LEMMA SumEmpty == ASSUME NEW f PROVE SumFunctionOnSet(f, {}) = 0
BY SumUnfolds, FS_EmptySet

LEMMA SumLast ==
  ASSUME NEW f, NEW n \in Nat \ {0}, \A i \in 1..n : f[i] \in Int
  PROVE  SumFunctionOnSet(f, 1..n) = SumFunctionOnSet(f, 1..(n - 1)) + f[n]
<1>1. IsFiniteSet(1..n) /\ n \in 1..n /\ (1..n) \ {n} = 1..(n - 1)
  BY FS_Interval
<1>2. SumFunctionOnSet(f, 1..n) = f[n] + SumFunctionOnSet(f, (1..n) \ {n})
  BY <1>1, SumOut
<1>3. IsFiniteSet(1..(n - 1)) /\ \A i \in 1..(n - 1) : f[i] \in Int
  BY FS_Interval
<1>4. SumFunctionOnSet(f, 1..(n - 1)) \in Int
  BY <1>3, SumType
<1>5. f[n] \in Int
  BY <1>1
<1>6. PICK r : r = SumFunctionOnSet(f, 1..(n - 1))
  OBVIOUS
<1>7. SumFunctionOnSet(f, 1..n) = f[n] + r
  BY <1>1, <1>2, <1>6
<1>8. QED
  BY <1>4, <1>5, <1>6, <1>7

LEMMA SumSame ==
  ASSUME NEW f, NEW g, NEW S, IsFiniteSet(S), \A x \in S : f[x] = g[x]
  PROVE  SumFunctionOnSet(f, S) = SumFunctionOnSet(g, S)
<1> DEFINE C == {T \in SUBSET S : SumFunctionOnSet(f, T) = SumFunctionOnSet(g, T)}
<1>1. ASSUME NEW T \in SUBSET S, \A x \in T : T \ {x} \in C PROVE T \in C
  <2>1. IsFiniteSet(T)
    BY FS_Subset
  <2>2. CASE T = {}
    BY <2>2, SumEmpty
  <2>3. CASE T # {}
    <3>1. Chosen(T) \in T
      BY <2>3 DEF Chosen
    <3>2. /\ SumFunctionOnSet(f, T) = f[Chosen(T)] + SumFunctionOnSet(f, T \ {Chosen(T)})
          /\ SumFunctionOnSet(g, T) = g[Chosen(T)] + SumFunctionOnSet(g, T \ {Chosen(T)})
      BY <2>1, <2>3, SumUnfolds
    <3>3. QED
      BY <1>1, <3>1, <3>2
  <2>4. QED
    BY <2>2, <2>3
<1> HIDE DEF C
<1>2. S \in C
  BY <1>1, SubsetInduction
<1>3. QED
  BY <1>2 DEF C

LEMMA SumOfSums ==
  ASSUME NEW f, NEW g, NEW h, NEW S, IsFiniteSet(S),
         \A x \in S : f[x] \in Int /\ g[x] \in Int /\ h[x] = f[x] + g[x]
  PROVE  SumFunctionOnSet(h, S) = SumFunctionOnSet(f, S) + SumFunctionOnSet(g, S)
<1> DEFINE F(T) == SumFunctionOnSet(f, T)
           G(T) == SumFunctionOnSet(g, T)
           H(T) == SumFunctionOnSet(h, T)
           C == {T \in SUBSET S : H(T) = F(T) + G(T)}
<1>i. \A T \in SUBSET S : IsFiniteSet(T) /\ F(T) \in Int /\ G(T) \in Int /\ H(T) \in Int
  BY FS_Subset, SumType
<1>o. \A T \in SUBSET S : \A x \in T :
        F(T) = f[x] + F(T \ {x}) /\ G(T) = g[x] + G(T \ {x}) /\ H(T) = h[x] + H(T \ {x})
  <2> SUFFICES ASSUME NEW T \in SUBSET S, NEW x \in T
               PROVE  F(T) = f[x] + F(T \ {x}) /\ G(T) = g[x] + G(T \ {x}) /\ H(T) = h[x] + H(T \ {x})
    OBVIOUS
  <2>1. /\ IsFiniteSet(T) /\ (\A y \in T : f[y] \in Int) /\ (\A y \in T : g[y] \in Int)
        /\ \A y \in T : h[y] \in Int
    BY <1>i
  <2>2. F(T) = f[x] + F(T \ {x})
    BY <2>1, SumOut
  <2>3. G(T) = g[x] + G(T \ {x})
    BY <2>1, SumOut
  <2>4. H(T) = h[x] + H(T \ {x})
    BY <2>1, SumOut
  <2>5. QED
    BY <2>2, <2>3, <2>4
<1>e. F({}) = 0 /\ G({}) = 0 /\ H({}) = 0
  BY SumEmpty
<1> HIDE DEF F, G, H
<1>1. ASSUME NEW T \in SUBSET S, \A x \in T : T \ {x} \in C PROVE T \in C
  <2>2. CASE T = {}
    BY <1>e, <2>2
  <2>3. CASE T # {}
    <3>1. PICK x \in T : TRUE
      BY <2>3
    <3>2. /\ H(T \ {x}) = F(T \ {x}) + G(T \ {x}) /\ F(T) = f[x] + F(T \ {x})
          /\ G(T) = g[x] + G(T \ {x}) /\ H(T) = h[x] + H(T \ {x})
      BY <1>1, <1>o
    <3>3. /\ F(T \ {x}) \in Int /\ G(T \ {x}) \in Int /\ f[x] \in Int /\ g[x] \in Int
          /\ h[x] = f[x] + g[x]
      BY <1>i
    <3>4. QED
      BY <3>2, <3>3
  <2>4. QED
    BY <2>2, <2>3
<1> HIDE DEF C
<1>2. S \in C
  BY <1>1, SubsetInduction
<1>3. QED
  BY <1>2 DEF C, F, G, H

LEMMA SumOfNaturals ==
  ASSUME NEW f, NEW S, IsFiniteSet(S), \A x \in S : f[x] \in Nat
  PROVE  /\ SumFunctionOnSet(f, S) \in Nat
         /\ \A x \in S : f[x] <= SumFunctionOnSet(f, S)
         /\ \A T \in SUBSET S : SumFunctionOnSet(f, T) <= SumFunctionOnSet(f, S)
<1> DEFINE F(T) == SumFunctionOnSet(f, T)
           C == {T \in SUBSET S : F(T) \in Nat /\ \A U \in SUBSET T : F(U) \in Nat /\ F(U) <= F(T)}
<1>i. \A T \in SUBSET S : IsFiniteSet(T) /\ F(T) \in Int
  BY FS_Subset, SumType
<1>o. \A T \in SUBSET S : \A x \in T : F(T) = f[x] + F(T \ {x})
  <2> SUFFICES ASSUME NEW T \in SUBSET S, NEW x \in T PROVE F(T) = f[x] + F(T \ {x})
    OBVIOUS
  <2>1. IsFiniteSet(T) /\ \A y \in T : f[y] \in Int
    BY <1>i
  <2>2. QED
    BY <2>1, SumOut
<1>e. F({}) = 0
  BY SumEmpty
<1> HIDE DEF F
<1>1. ASSUME NEW T \in SUBSET S, \A x \in T : T \ {x} \in C PROVE T \in C
  <2>1. F(T) \in Nat
    <3>1. CASE T = {}
      BY <1>e, <3>1
    <3>2. CASE T # {}
      <4>1. PICK x \in T : TRUE
        BY <3>2
      <4>2. F(T \ {x}) \in Nat /\ F(T) = f[x] + F(T \ {x}) /\ f[x] \in Nat
        BY <1>1, <1>o
      <4>3. QED
        BY <4>2
    <3>3. QED
      BY <3>1, <3>2
  <2>2. ASSUME NEW U \in SUBSET T PROVE F(U) \in Nat /\ F(U) <= F(T)
    <3>1. CASE U = T
      BY <2>1, <3>1
    <3>2. CASE U # T
      <4>1. PICK x \in T : x \notin U
        BY <3>2
      <4>2. U \in SUBSET (T \ {x})
        BY <4>1
      <4>3. F(U) \in Nat /\ F(U) <= F(T \ {x}) /\ F(T \ {x}) \in Nat
        BY <1>1, <4>2
      <4>4. F(T) = f[x] + F(T \ {x}) /\ f[x] \in Nat
        BY <1>o
      <4>5. QED
        BY <4>3, <4>4
    <3>3. QED
      BY <3>1, <3>2
  <2>3. QED
    BY <2>1, <2>2
<1> HIDE DEF C
<1>2. S \in C
  BY <1>1, SubsetInduction
<1>3. F(S) \in Nat /\ \A T \in SUBSET S : F(T) \in Nat /\ F(T) <= F(S)
  BY <1>2 DEF C
<1>4. ASSUME NEW x \in S PROVE f[x] <= F(S)
  <2>1. F(S) = f[x] + F(S \ {x}) /\ F(S \ {x}) \in Nat /\ f[x] \in Nat
    BY <1>o, <1>3
  <2>2. QED
    BY <2>1
<1>5. QED
  BY <1>3, <1>4 DEF F

LEMMA SumOfNothing ==
  ASSUME NEW f, NEW S, IsFiniteSet(S), \A x \in S : f[x] = 0
  PROVE  SumFunctionOnSet(f, S) = 0
<1> DEFINE C == {T \in SUBSET S : SumFunctionOnSet(f, T) = 0}
<1>1. ASSUME NEW T \in SUBSET S, \A x \in T : T \ {x} \in C PROVE T \in C
  <2>1. CASE T = {}
    BY <2>1, SumEmpty
  <2>2. CASE T # {}
    <3>1. PICK x \in T : TRUE
      BY <2>2
    <3>2. IsFiniteSet(T) /\ \A y \in T : f[y] \in Int
      BY FS_Subset
    <3>3. SumFunctionOnSet(f, T) = f[x] + SumFunctionOnSet(f, T \ {x})
      BY <3>2, SumOut
    <3>4. SumFunctionOnSet(f, T \ {x}) = 0 /\ f[x] = 0
      BY <1>1
    <3>5. QED
      BY <3>3, <3>4
  <2>3. QED
    BY <2>1, <2>2
<1> HIDE DEF C
<1>2. S \in C
  BY <1>1, SubsetInduction
<1>3. QED
  BY <1>2 DEF C

\* All terms but one are the same.
LEMMA SumChangesAt ==
  ASSUME NEW f, NEW g, NEW S, IsFiniteSet(S), NEW y \in S,
         \A x \in S : f[x] \in Int /\ g[x] \in Int, \A x \in S \ {y} : g[x] = f[x]
  PROVE  SumFunctionOnSet(g, S) = SumFunctionOnSet(f, S) - f[y] + g[y]
<1>1. IsFiniteSet(S \ {y}) /\ (\A x \in S : f[x] \in Int) /\ (\A x \in S : g[x] \in Int)
  BY FS_Subset
<1>2. SumFunctionOnSet(f, S) = f[y] + SumFunctionOnSet(f, S \ {y})
  BY <1>1, SumOut
<1>3. SumFunctionOnSet(g, S) = g[y] + SumFunctionOnSet(g, S \ {y})
  BY <1>1, SumOut
<1>4. SumFunctionOnSet(g, S \ {y}) = SumFunctionOnSet(f, S \ {y})
  BY <1>1, SumSame
<1>5. PICK r : r = SumFunctionOnSet(f, S \ {y})
  OBVIOUS
<1>6. r \in Int
  BY <1>1, <1>5, SumType
<1>7. SumFunctionOnSet(f, S) = f[y] + r /\ SumFunctionOnSet(g, S) = g[y] + r
  BY <1>2, <1>3, <1>4, <1>5
<1>8. f[y] \in Int /\ g[y] \in Int
  OBVIOUS
<1>9. QED
  BY <1>6, <1>7, <1>8

\* Only one term counts.
LEMMA SumOfOne ==
  ASSUME NEW f, NEW S, IsFiniteSet(S), NEW y \in S, f[y] \in Int, \A x \in S \ {y} : f[x] = 0
  PROVE  SumFunctionOnSet(f, S) = f[y]
<1>1. IsFiniteSet(S \ {y}) /\ \A x \in S : f[x] \in Int
  BY FS_Subset
<1>2. SumFunctionOnSet(f, S) = f[y] + SumFunctionOnSet(f, S \ {y})
  BY <1>1, SumOut
<1>3. SumFunctionOnSet(f, S \ {y}) = 0
  BY <1>1, SumOfNothing
<1>4. QED
  BY <1>2, <1>3

\* A sum of sums may be taken in either order.
LEMMA SumSwap ==
  ASSUME NEW S, IsFiniteSet(S), NEW T, IsFiniteSet(T), NEW A,
         \A x \in S : \A y \in T : A[x][y] \in Int
  PROVE  SumFunctionOnSet([x \in S |-> SumFunctionOnSet(A[x], T)], S)
           = SumFunctionOnSet([y \in T |-> SumFunctionOnSet([x \in S |-> A[x][y]], S)], T)
<1> DEFINE R == [x \in S |-> SumFunctionOnSet(A[x], T)]
           Column(y) == [x \in S |-> A[x][y]]
           P(U) == [y \in T |-> SumFunctionOnSet(Column(y), U)]
           C == {U \in SUBSET S : SumFunctionOnSet(R, U) = SumFunctionOnSet(P(U), T)}
<1>r. \A x \in S : R[x] = SumFunctionOnSet(A[x], T) /\ R[x] \in Int
  BY SumType
<1>c. \A y \in T : \A x \in S : Column(y)[x] = A[x][y] /\ Column(y)[x] \in Int
  OBVIOUS
<1>p. \A U \in SUBSET S : \A y \in T : P(U)[y] = SumFunctionOnSet(Column(y), U)
  OBVIOUS
<1>f. \A U \in SUBSET S : IsFiniteSet(U)
  BY FS_Subset
<1> HIDE DEF Column
<1>t. \A U \in SUBSET S : \A y \in T : SumFunctionOnSet(Column(y), U) \in Int
  BY <1>c, <1>f, SumType
<1> HIDE DEF R, P
<1>1. ASSUME NEW U \in SUBSET S, \A x \in U : U \ {x} \in C PROVE U \in C
  <2>1. CASE U = {}
    <3>1. SumFunctionOnSet(R, U) = 0
      BY <2>1, SumEmpty
    <3>2. \A y \in T : P(U)[y] = 0
      BY <1>p, <2>1, SumEmpty
    <3>3. SumFunctionOnSet(P(U), T) = 0
      BY <3>2, SumOfNothing
    <3>4. QED
      BY <3>1, <3>3
  <2>2. CASE U # {}
    <3>1. PICK x \in U : TRUE
      BY <2>2
    <3>2. SumFunctionOnSet(R, U) = R[x] + SumFunctionOnSet(R, U \ {x})
      BY <1>f, <1>r, SumOut
    <3>3. ASSUME NEW y \in T PROVE P(U)[y] = A[x][y] + P(U \ {x})[y]
      <4>1. SumFunctionOnSet(Column(y), U) = Column(y)[x] + SumFunctionOnSet(Column(y), U \ {x})
        BY <1>c, <1>f, SumOut
      <4>2. QED
        BY <1>c, <1>p, <4>1
    <3>4. \A y \in T : A[x][y] \in Int /\ P(U \ {x})[y] \in Int
      BY <1>p, <1>t
    <3>5. SumFunctionOnSet(P(U), T) = SumFunctionOnSet(A[x], T) + SumFunctionOnSet(P(U \ {x}), T)
      <4>1. PICK a, p, q : a = A[x] /\ p = P(U \ {x}) /\ q = P(U)
        OBVIOUS
      <4>2. \A y \in T : a[y] \in Int /\ p[y] \in Int /\ q[y] = a[y] + p[y]
        BY <3>3, <3>4, <4>1
      <4>3. SumFunctionOnSet(q, T) = SumFunctionOnSet(a, T) + SumFunctionOnSet(p, T)
        BY <4>2, SumOfSums
      <4>4. QED
        BY <4>1, <4>3
    <3>6. SumFunctionOnSet(R, U \ {x}) = SumFunctionOnSet(P(U \ {x}), T)
      BY <1>1
    <3>7. QED
      BY <1>r, <3>2, <3>5, <3>6
  <2>3. QED
    BY <2>1, <2>2
<1> HIDE DEF C
<1>2. S \in C
  BY <1>1, SubsetInduction
<1>3. SumFunctionOnSet(R, S) = SumFunctionOnSet(P(S), T)
  BY <1>2 DEF C
<1>4. QED
  BY <1>3 DEF R, P, Column

\* A finite set of integers has a least and a greatest element.
LEMMA Extremes ==
  ASSUME NEW S, IsFiniteSet(S), S # {}, NEW f, \A x \in S : f[x] \in Int
  PROVE  /\ \E x \in S : \A y \in S : f[x] <= f[y]
         /\ \E x \in S : \A y \in S : f[y] <= f[x]
<1> DEFINE C == {T \in SUBSET S : T # {} =>
                   /\ \E x \in T : \A y \in T : f[x] <= f[y]
                   /\ \E x \in T : \A y \in T : f[y] <= f[x]}
<1>1. ASSUME NEW T \in SUBSET S, \A x \in T : T \ {x} \in C PROVE T \in C
  <2> SUFFICES ASSUME T # {}
               PROVE  /\ \E x \in T : \A y \in T : f[x] <= f[y]
                      /\ \E x \in T : \A y \in T : f[y] <= f[x]
    OBVIOUS
  <2>1. PICK c \in T : TRUE
    OBVIOUS
  <2>2. CASE T \ {c} = {}
    BY <2>1, <2>2
  <2>3. CASE T \ {c} # {}
    <3>1. PICK a \in T \ {c} : \A y \in T \ {c} : f[a] <= f[y]
      BY <1>1, <2>3
    <3>2. PICK b \in T \ {c} : \A y \in T \ {c} : f[y] <= f[b]
      BY <1>1, <2>3
    <3>3. f[a] \in Int /\ f[b] \in Int /\ f[c] \in Int /\ \A y \in T : f[y] \in Int
      OBVIOUS
    <3>4. \E x \in T : \A y \in T : f[x] <= f[y]
      <4>1. CASE f[a] <= f[c]
        BY <3>1, <4>1
      <4>2. CASE f[c] < f[a]
        BY <3>1, <3>3, <4>2
      <4>3. QED
        BY <3>3, <4>1, <4>2
    <3>5. \E x \in T : \A y \in T : f[y] <= f[x]
      <4>1. CASE f[c] <= f[b]
        BY <3>2, <4>1
      <4>2. CASE f[b] < f[c]
        BY <3>2, <3>3, <4>2
      <4>3. QED
        BY <3>3, <4>1, <4>2
    <3>6. QED
      BY <3>4, <3>5
  <2>4. QED
    BY <2>2, <2>3
<1> HIDE DEF C
<1>2. S \in C
  BY <1>1, SubsetInduction
<1>3. QED
  BY <1>2 DEF C

LEMMA ImageIsFinite == ASSUME NEW S, IsFiniteSet(S), NEW f PROVE IsFiniteSet({f[x] : x \in S})
<1> DEFINE T == {f[x] : x \in S}
           g == [x \in S |-> f[x]]
<1>1. g \in Surjection(S, T)
  BY DEF Surjection
<1>2. QED
  BY <1>1, FS_Surjection
=============================================================================
