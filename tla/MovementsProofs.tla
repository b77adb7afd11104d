--------------------------- MODULE MovementsProofs ---------------------------
(***************************************************************************)
(* The reservations are kept right, for any rows, movements, orders and    *)
(* requests: a new movement is never promised what others claim, the depth *)
(* shown adds up, and the orders hold what their movements use.            *)
(*                                                                         *)
(* All three are about sums over finite sets and about folds of sequences, *)
(* whose lemmas are in SumProofs.                                          *)
(***************************************************************************)
EXTENDS Movements, SumProofs

-----------------------------------------------------------------------------
(* Amounts that are dealt out in an order. *)

\* What is dealt to x of an amount, after those ranked before it.
Earlier(rank, S, x) == {y \in S : rank[y] < rank[x]}
Dealt(f, rank, amount, S) ==
  [x \in S |-> Least(f[x], Positive(amount - SumFunctionOnSet(f, Earlier(rank, S, x))))]

\* Nothing is dealt twice or lost: together they get the amount, or all they ask for.
LEMMA AllIsDealt ==
  ASSUME NEW S, IsFiniteSet(S), NEW f, NEW rank, NEW amount \in Nat,
         \A x \in S : f[x] \in Nat /\ rank[x] \in Int,
         \A x, y \in S : rank[x] = rank[y] => x = y
  PROVE  SumFunctionOnSet(Dealt(f, rank, amount, S), S) = Least(amount, SumFunctionOnSet(f, S))
<1> DEFINE C == {T \in SUBSET S : SumFunctionOnSet(Dealt(f, rank, amount, T), T)
                                    = Least(amount, SumFunctionOnSet(f, T))}
<1>f. \A T \in SUBSET S : IsFiniteSet(T) /\ SumFunctionOnSet(f, T) \in Nat
  BY FS_Subset, SumOfNaturals
<1>d. ASSUME NEW T \in SUBSET S, NEW x \in T
      PROVE  /\ Dealt(f, rank, amount, T)[x] =
                  Least(f[x], Positive(amount - SumFunctionOnSet(f, Earlier(rank, T, x))))
             /\ Dealt(f, rank, amount, T)[x] \in Int
  <2>1. Dealt(f, rank, amount, T)[x] =
          Least(f[x], Positive(amount - SumFunctionOnSet(f, Earlier(rank, T, x))))
    BY DEF Dealt
  <2>2. Earlier(rank, T, x) \in SUBSET S
    BY DEF Earlier
  <2>3. PICK a : a = SumFunctionOnSet(f, Earlier(rank, T, x))
    OBVIOUS
  <2>4. a \in Nat
    BY <1>f, <2>2, <2>3
  <2>5. Least(f[x], Positive(amount - a)) \in Int
    BY <2>4 DEF Least, Positive
  <2>6. QED
    BY <2>1, <2>3, <2>5
<1>1. ASSUME NEW T \in SUBSET S, \A x \in T : T \ {x} \in C PROVE T \in C
  <2> SUFFICES SumFunctionOnSet(Dealt(f, rank, amount, T), T) = Least(amount, SumFunctionOnSet(f, T))
    OBVIOUS
  <2>1. CASE T = {}
    <3>1. SumFunctionOnSet(Dealt(f, rank, amount, T), T) = 0 /\ SumFunctionOnSet(f, T) = 0
      BY <2>1, SumEmpty
    <3>2. QED
      BY <3>1 DEF Least
  <2>2. CASE T # {}
    <3>1. PICK x \in T : \A y \in T : rank[y] <= rank[x]
      BY <1>f, <2>2, Extremes
    <3> DEFINE U == T \ {x}
    <3>2. U \in SUBSET S /\ U \in C
      BY <1>1
    <3>3. Earlier(rank, T, x) = U
      BY <3>1 DEF Earlier
    <3>4. \A y \in U : Earlier(rank, T, y) = Earlier(rank, U, y)
      BY <3>1 DEF Earlier
    <3>5. \A y \in U : Dealt(f, rank, amount, T)[y] = Dealt(f, rank, amount, U)[y]
      <4> SUFFICES ASSUME NEW y \in U
                   PROVE  Dealt(f, rank, amount, T)[y] = Dealt(f, rank, amount, U)[y]
        OBVIOUS
      <4>1. y \in T
        OBVIOUS
      <4>2. Earlier(rank, T, y) = Earlier(rank, U, y)
        BY <3>4
      <4> HIDE DEF U
      <4>3. Dealt(f, rank, amount, U)[y] =
              Least(f[y], Positive(amount - SumFunctionOnSet(f, Earlier(rank, U, y))))
        BY DEF Dealt
      <4>4. Dealt(f, rank, amount, T)[y] =
              Least(f[y], Positive(amount - SumFunctionOnSet(f, Earlier(rank, T, y))))
        BY <4>1 DEF Dealt
      <4>5. QED
        BY <4>2, <4>3, <4>4
    <3>6. SumFunctionOnSet(Dealt(f, rank, amount, T), U) = SumFunctionOnSet(Dealt(f, rank, amount, U), U)
      BY <1>f, <3>2, <3>5, SumSame
    <3>7. PICK s : s = SumFunctionOnSet(f, U)
      OBVIOUS
    <3>8. s \in Nat /\ f[x] \in Nat
      BY <1>f, <3>2, <3>7
    <3>9. SumFunctionOnSet(Dealt(f, rank, amount, T), U) = Least(amount, s)
      BY <3>2, <3>6, <3>7
    <3>10. Dealt(f, rank, amount, T)[x] = Least(f[x], Positive(amount - s))
      BY <1>d, <3>3, <3>7
    <3>11. SumFunctionOnSet(Dealt(f, rank, amount, T), T)
             = Dealt(f, rank, amount, T)[x] + SumFunctionOnSet(Dealt(f, rank, amount, T), U)
      BY <1>d, <1>f, SumOut
    <3>12. SumFunctionOnSet(f, T) = f[x] + s
      BY <1>f, <3>7, SumOut
    <3>13. Least(f[x], Positive(amount - s)) + Least(amount, s) = Least(amount, f[x] + s)
      BY <3>8 DEF Least, Positive
    <3>14. QED
      BY <3>9, <3>10, <3>11, <3>12, <3>13
  <2>3. QED
    BY <2>1, <2>2
<1> HIDE DEF C
<1>2. S \in C
  BY <1>1, SubsetInduction
<1>3. QED
  BY <1>2 DEF C

-----------------------------------------------------------------------------
(* The claims of a movement that ends are taken away one after the other. *)

TakenAway(claims, amounts, g, s) ==
  IF s = {} THEN amounts ELSE Without(g[s \ {Max(s)}], claims[Max(s)])

Remaining(amounts, claims) == FoldLeft(Without, amounts, claims)

LEMMA FoldIsRecursive ==
  ASSUME NEW claims, NEW amounts
  PROVE  Remaining(amounts, claims) =
           (CHOOSE g : g = [s \in SUBSET DOMAIN claims |-> TakenAway(claims, amounts, g, s)])[DOMAIN claims]
BY DEF Remaining, FoldLeft, MapThenFoldSet, TakenAway

\* The table of what is left after the first claims, for every set of claims.
LEMMA FoldTables ==
  ASSUME NEW claims, NEW amounts, IsFiniteSet(DOMAIN claims), DOMAIN claims \subseteq Int
  PROVE  \E g : g = [s \in SUBSET DOMAIN claims |-> TakenAway(claims, amounts, g, s)]
<1> DEFINE S == DOMAIN claims
           Step(g, s) == TakenAway(claims, amounts, g, s)
           Good(g, n) == \A s \in SUBSET S : Cardinality(s) <= n => g[s] = Step(g, s)
           Bad == {n \in Nat : ~\E g : Good(g, n)}
<1>0. \A s \in SUBSET S : IsFiniteSet(s) /\ Cardinality(s) \in Nat
  BY FS_Subset, FS_CardinalityType
<1>m. ASSUME NEW s \in SUBSET S, s # {} PROVE Max(s) \in s
  <2>1. \A x \in s : [y \in s |-> y][x] \in Int
    OBVIOUS
  <2>2. \E x \in s : \A y \in s : [z \in s |-> z][y] <= [z \in s |-> z][x]
    BY <1>0, <1>m, <2>1, Extremes
  <2>3. \E x \in s : \A y \in s : x >= y
    BY <2>2
  <2>4. QED
    BY <2>3 DEF Max
<1>c. \A s \in SUBSET S : s # {} => Cardinality(s \ {Max(s)}) = Cardinality(s) - 1
  BY <1>0, <1>m, FS_RemoveElement
<1> HIDE DEF S
<1>1. Bad = {}
  <2> SUFFICES ASSUME Bad # {} PROVE FALSE
    OBVIOUS
  <2>a. Bad \in SUBSET Nat
    OBVIOUS
  <2>b. \E n \in Bad : \A m \in Bad : n <= m
    <3> HIDE DEF Bad
    <3>1. QED
      BY <2>a, SmallestNat
  <2>1. PICK n \in Bad : \A m \in Bad : n <= m
    BY <2>b
  <2>2. n # 0
    <3>1. Good([s \in SUBSET S |-> amounts], 0)
      BY <1>0, FS_EmptySet DEF TakenAway
    <3>2. QED
      BY <3>1
  <2>3. PICK g : Good(g, n - 1)
    BY <2>1, <2>2
  <2> DEFINE h == [s \in SUBSET S |-> Step(g, s)]
  <2>4. ASSUME NEW s \in SUBSET S, Cardinality(s) <= n - 1 PROVE h[s] = g[s]
    BY <2>3, <2>4
  <2>5. ASSUME NEW s \in SUBSET S, Cardinality(s) <= n PROVE h[s] = Step(h, s)
    <3>1. h[s] = Step(g, s)
      OBVIOUS
    <3> HIDE DEF h
    <3>2. CASE s = {}
      BY <3>1, <3>2 DEF TakenAway
    <3>3. CASE s # {}
      <4> DEFINE t == s \ {Max(s)}
      <4>1. t \in SUBSET S /\ Cardinality(t) <= n - 1
        BY <1>0, <1>c, <2>5, <3>3
      <4>2. h[t] = g[t]
        BY <2>4, <4>1
      <4>3. QED
        BY <3>1, <4>2 DEF TakenAway
    <3>4. QED
      BY <3>2, <3>3
  <2>6. Good(h, n)
    BY <2>5
  <2>7. QED
    BY <2>6
<1>2. PICK g : Good(g, Cardinality(S))
  BY <1>0, <1>1
<1> DEFINE h == [s \in SUBSET S |-> g[s]]
<1>3. ASSUME NEW s \in SUBSET S PROVE g[s] = Step(h, s)
  <2>1. g[s] = Step(g, s)
    BY <1>0, <1>2, FS_Subset DEF S
  <2>2. s # {} => h[s \ {Max(s)}] = g[s \ {Max(s)}]
    OBVIOUS
  <2>3. QED
    BY <2>1, <2>2 DEF TakenAway
<1>4. h = [s \in SUBSET S |-> Step(h, s)]
  BY <1>3
<1>5. QED
  BY <1>4 DEF S

\* The table, along the claims.
LEMMA FoldPrefixes ==
  ASSUME NEW C, NEW claims \in Seq(C), NEW amounts
  PROVE  \E left : /\ left[0] = amounts
                   /\ left[Len(claims)] = Remaining(amounts, claims)
                   /\ \A i \in 1..Len(claims) : left[i] = Without(left[i - 1], claims[i])
<1> DEFINE G == CHOOSE g : g = [s \in SUBSET DOMAIN claims |-> TakenAway(claims, amounts, g, s)]
<1>1. DOMAIN claims = 1..Len(claims) /\ Len(claims) \in Nat
  OBVIOUS
<1>2. IsFiniteSet(DOMAIN claims) /\ DOMAIN claims \subseteq Int
  BY <1>1, FS_Interval
<1>3. G = [s \in SUBSET DOMAIN claims |-> TakenAway(claims, amounts, G, s)]
  BY <1>2, FoldTables
<1>4. Remaining(amounts, claims) = G[DOMAIN claims]
  BY FoldIsRecursive
<1> HIDE DEF G
<1> DEFINE left == [i \in 0..Len(claims) |-> G[1..i]]
<1>5. \A s \in SUBSET DOMAIN claims : G[s] = TakenAway(claims, amounts, G, s)
  BY <1>3
<1>6. left[0] = amounts
  <2>1. left[0] = G[1..0] /\ 1..0 = {}
    BY <1>1
  <2>2. QED
    BY <1>5, <2>1 DEF TakenAway
<1>7. left[Len(claims)] = Remaining(amounts, claims)
  BY <1>1, <1>4
<1>8. ASSUME NEW i \in 1..Len(claims) PROVE left[i] = Without(left[i - 1], claims[i])
  <2>0. i \in Nat /\ 1 <= i /\ i <= Len(claims)
    BY <1>1
  <2>1. 1..i \in SUBSET DOMAIN claims /\ 1..i # {}
    <3>1. \A x \in 1..i : x \in 1..Len(claims)
      BY <1>1, <2>0
    <3>2. 1 \in 1..i
      BY <2>0
    <3>3. QED
      BY <1>1, <3>1, <3>2
  <2>2. i \in Int /\ i \in 1..i /\ \A y \in 1..i : y \in Int /\ i >= y
    BY <1>1
  <2>3. Max(1..i) = i
    BY <1>1, <2>2 DEF Max
  <2>4. (1..i) \ {i} = 1..(i - 1)
    BY <2>0
  <2>5. G[1..i] = Without(G[1..(i - 1)], claims[i])
    BY <1>5, <2>1, <2>3, <2>4 DEF TakenAway
  <2>6. QED
    BY <1>1, <2>5
<1>9. QED
  BY <1>6, <1>7, <1>8

-----------------------------------------------------------------------------
(* Claims and the amounts kept of them. *)

LotNames == [kind : STRING, lot : Int]
Amounts == UNION {[K -> Int] : K \in SUBSET LotNames}
At(amounts, k) == IF k \in DOMAIN amounts THEN amounts[k] ELSE 0

\* A claim that is granted names a row of a book or a place, and wants something.
GoodClaims == {c \in ResolvedClaims : c.quantity > 0 /\ c.key \in Keys /\ c.key.kind = c.kind}

Claimed(claims, k) == [i \in DOMAIN claims |-> IF claims[i].key = k THEN Positive(claims[i].quantity) ELSE 0]

LEMMA ClaimedIsSum ==
  ASSUME NEW claims \in Seq(ResolvedClaims), NEW k
  PROVE  /\ IsFiniteSet(DOMAIN claims)
         /\ \A i \in DOMAIN claims : Claimed(claims, k)[i] \in Nat
         /\ ClaimedOf(claims, k) = SumFunctionOnSet(Claimed(claims, k), DOMAIN claims)
         /\ ClaimedOf(claims, k) \in Nat
         /\ \A i \in DOMAIN claims : claims[i].key = k => claims[i].quantity <= ClaimedOf(claims, k)
<1>1. DOMAIN claims = 1..Len(claims) /\ Len(claims) \in Nat /\ \A i \in DOMAIN claims : claims[i] \in ResolvedClaims
  OBVIOUS
<1>2. IsFiniteSet(DOMAIN claims)
  BY <1>1, FS_Interval
<1>3. \A i \in DOMAIN claims : Claimed(claims, k)[i] \in Nat
  BY <1>1 DEF Claimed, ResolvedClaims, Positive
<1>4. ClaimedOf(claims, k) = SumFunctionOnSet(Claimed(claims, k), DOMAIN claims)
  BY DEF ClaimedOf, Claimed, SumFunction
<1>5. /\ SumFunctionOnSet(Claimed(claims, k), DOMAIN claims) \in Nat
      /\ \A i \in DOMAIN claims : Claimed(claims, k)[i] <= SumFunctionOnSet(Claimed(claims, k), DOMAIN claims)
  BY <1>2, <1>3, SumOfNaturals
<1>6. ASSUME NEW i \in DOMAIN claims, claims[i].key = k PROVE claims[i].quantity <= ClaimedOf(claims, k)
  <2>1. Claimed(claims, k)[i] = Positive(claims[i].quantity) /\ claims[i].quantity \in Int
    BY <1>1, <1>6 DEF Claimed, ResolvedClaims
  <2>2. Claimed(claims, k)[i] <= ClaimedOf(claims, k) /\ ClaimedOf(claims, k) \in Nat
    BY <1>4, <1>5
  <2>3. QED
    BY <2>1, <2>2 DEF Positive
<1>7. QED
  BY <1>2, <1>3, <1>4, <1>5, <1>6

LEMMA WithoutType ==
  ASSUME NEW amounts \in Amounts, NEW c \in ResolvedClaims
  PROVE  Without(amounts, c) \in Amounts
<1>0. c.quantity \in Int /\ c.key \in LotNames
  BY DEF ResolvedClaims, LotNames
<1>1. PICK K \in SUBSET LotNames : amounts \in [K -> Int]
  BY DEF Amounts
<1>2. CASE c.key \notin DOMAIN amounts
  BY <1>2 DEF Without
<1>3. CASE c.key \in DOMAIN amounts /\ amounts[c.key] = c.quantity
  <2>1. Without(amounts, c) = [k \in K \ {c.key} |-> amounts[k]]
    BY <1>1, <1>3 DEF Without
  <2>2. Without(amounts, c) \in [K \ {c.key} -> Int] /\ K \ {c.key} \in SUBSET LotNames
    BY <1>1, <2>1
  <2>3. QED
    BY <2>2 DEF Amounts
<1>4. CASE c.key \in DOMAIN amounts /\ amounts[c.key] # c.quantity
  <2>1. Without(amounts, c) = [amounts EXCEPT ![c.key] = @ - c.quantity]
    BY <1>4 DEF Without
  <2>2. Without(amounts, c) \in [K -> Int]
    <3>1. PICK k, n : k = c.key /\ n = amounts[c.key] - c.quantity
      OBVIOUS
    <3>2. n \in Int /\ Without(amounts, c) = [amounts EXCEPT ![k] = n]
      BY <1>0, <1>1, <1>4, <2>1, <3>1
    <3>3. QED
      BY <1>1, <3>2
  <2>3. QED
    BY <2>2 DEF Amounts
<1>5. QED
  BY <1>2, <1>3, <1>4

\* A claim that is taken away is missing at its own key only.
LEMMA WithoutTakes ==
  ASSUME NEW amounts \in Amounts, NEW c \in GoodClaims, At(amounts, c.key) >= c.quantity, NEW k
  PROVE  At(Without(amounts, c), k) = At(amounts, k) - (IF c.key = k THEN Positive(c.quantity) ELSE 0)
<1>0. c.quantity \in Int /\ c.quantity > 0 /\ Positive(c.quantity) = c.quantity
  BY DEF GoodClaims, ResolvedClaims, Positive
<1>1. PICK K \in SUBSET LotNames : amounts \in [K -> Int]
  BY DEF Amounts
<1>2. c.key \in K
  BY <1>0, <1>1 DEF At
<1>3. At(amounts, k) \in Int
  BY <1>1 DEF At
<1>4. CASE amounts[c.key] = c.quantity
  <2>1. Without(amounts, c) = [q \in K \ {c.key} |-> amounts[q]]
    BY <1>1, <1>2, <1>4 DEF Without
  <2>2. CASE c.key = k
    BY <1>0, <1>1, <1>2, <1>4, <2>1, <2>2 DEF At
  <2>3. CASE c.key # k
    BY <1>0, <1>1, <1>3, <2>1, <2>3 DEF At
  <2>4. QED
    BY <2>2, <2>3
<1>5. CASE amounts[c.key] # c.quantity
  <2>1. Without(amounts, c) = [amounts EXCEPT ![c.key] = @ - c.quantity]
    BY <1>1, <1>2, <1>5 DEF Without
  <2>2. CASE c.key = k
    BY <1>0, <1>1, <1>2, <2>1, <2>2 DEF At
  <2>3. CASE c.key # k
    BY <1>0, <1>1, <1>3, <2>1, <2>3 DEF At
  <2>4. QED
    BY <2>2, <2>3
<1>6. QED
  BY <1>4, <1>5

LEMMA FoldType ==
  ASSUME NEW amounts \in Amounts, NEW claims \in Seq(ResolvedClaims)
  PROVE  Remaining(amounts, claims) \in Amounts
<1>1. PICK left : /\ left[0] = amounts
                  /\ left[Len(claims)] = Remaining(amounts, claims)
                  /\ \A i \in 1..Len(claims) : left[i] = Without(left[i - 1], claims[i])
  BY FoldPrefixes
<1> DEFINE C == {i \in Nat : i <= Len(claims) => left[i] \in Amounts}
<1>2. 0 \in C
  BY <1>1
<1>3. ASSUME NEW i \in Nat, i \in C PROVE i + 1 \in C
  <2> SUFFICES ASSUME i + 1 <= Len(claims) PROVE left[i + 1] \in Amounts
    OBVIOUS
  <2>1. i + 1 \in 1..Len(claims) /\ (i + 1) - 1 = i
    OBVIOUS
  <2>2. left[i + 1] = Without(left[i], claims[i + 1])
    BY <1>1, <2>1
  <2>3. left[i] \in Amounts /\ claims[i + 1] \in ResolvedClaims
    BY <1>3, <2>1
  <2>4. QED
    BY <2>2, <2>3, WithoutType
<1> HIDE DEF C
<1>4. \A i \in Nat : i \in C
  BY <1>2, <1>3, Inductively
<1>5. Len(claims) \in Nat
  OBVIOUS
<1>6. QED
  BY <1>1, <1>4, <1>5 DEF C

\* A movement that ends gives back what it claimed, if that much is kept.
LEMMA FoldTakes ==
  ASSUME NEW amounts \in Amounts, NEW claims \in Seq(GoodClaims),
         \A k \in Keys : At(amounts, k) >= ClaimedOf(claims, k)
  PROVE  \A k \in Keys : At(Remaining(amounts, claims), k) = At(amounts, k) - ClaimedOf(claims, k)
<1>0. /\ claims \in Seq(ResolvedClaims) /\ Len(claims) \in Nat /\ DOMAIN claims = 1..Len(claims)
      /\ \A i \in DOMAIN claims : claims[i] \in GoodClaims
  BY DEF GoodClaims
<1>a. \A b \in Amounts : \A k : At(b, k) \in Int
  BY DEF Amounts, At
<1>1. PICK left : /\ left[0] = amounts
                  /\ left[Len(claims)] = Remaining(amounts, claims)
                  /\ \A i \in 1..Len(claims) : left[i] = Without(left[i - 1], claims[i])
  BY FoldPrefixes
<1> DEFINE UpTo(k, i) == SumFunctionOnSet(Claimed(claims, k), 1..i)
           P(i) == left[i] \in Amounts /\ \A k \in Keys : At(left[i], k) = At(amounts, k) - UpTo(k, i)
           C == {i \in Nat : i <= Len(claims) => P(i)}
<1>2. \A k : UpTo(k, 0) = 0
  <2>1. 1..0 = {}
    OBVIOUS
  <2>2. QED
    BY <2>1, SumEmpty
<1>3. ASSUME NEW k, NEW i \in Nat, i + 1 <= Len(claims)
      PROVE  /\ UpTo(k, i + 1) = Claimed(claims, k)[i + 1] + UpTo(k, i)
             /\ UpTo(k, i + 1) <= ClaimedOf(claims, k)
             /\ UpTo(k, i) \in Nat
             /\ Claimed(claims, k)[i + 1] \in Nat
             /\ UpTo(k, i + 1) \in Nat
  <2>0. IsFiniteSet(1..(i + 1)) /\ 1..(i + 1) \in SUBSET DOMAIN claims /\ i + 1 \in 1..(i + 1)
    <3>1. \A x \in 1..(i + 1) : x \in 1..Len(claims)
      BY <1>0, <1>3
    <3>2. QED
      BY <1>0, <1>3, <3>1, FS_Interval
  <2>1. (1..(i + 1)) \ {i + 1} = 1..i
    OBVIOUS
  <2>2. IsFiniteSet(DOMAIN claims) /\ \A j \in DOMAIN claims : Claimed(claims, k)[j] \in Nat
    BY <1>0, ClaimedIsSum
  <2>3. \A j \in 1..(i + 1) : Claimed(claims, k)[j] \in Nat
    BY <2>0, <2>2
  <2>4. UpTo(k, i + 1) = Claimed(claims, k)[i + 1] + SumFunctionOnSet(Claimed(claims, k), (1..(i + 1)) \ {i + 1})
    BY <2>0, <2>3, SumOut
  <2>5. UpTo(k, i + 1) <= SumFunctionOnSet(Claimed(claims, k), DOMAIN claims)
    BY <2>0, <2>2, SumOfNaturals
  <2>6. IsFiniteSet(1..i) /\ \A j \in 1..i : Claimed(claims, k)[j] \in Nat
    BY <2>3, FS_Interval
  <2>7. UpTo(k, i) \in Nat /\ UpTo(k, i + 1) \in Nat
    BY <2>0, <2>3, <2>6, SumOfNaturals
  <2>8. QED
    BY <1>0, <2>0, <2>1, <2>3, <2>4, <2>5, <2>7, ClaimedIsSum
<1> HIDE DEF UpTo
<1>4. 0 \in C
  BY <1>1, <1>2, <1>a
<1>5. ASSUME NEW i \in Nat, i \in C PROVE i + 1 \in C
  <2> SUFFICES ASSUME i + 1 <= Len(claims) PROVE P(i + 1)
    OBVIOUS
  <2>1. i + 1 \in 1..Len(claims) /\ (i + 1) - 1 = i /\ i <= Len(claims)
    BY <1>0
  <2>2. left[i + 1] = Without(left[i], claims[i + 1])
    BY <1>1, <2>1
  <2>3. P(i) /\ claims[i + 1] \in GoodClaims
    BY <1>0, <1>5, <2>1
  <2> DEFINE c == claims[i + 1]
  <2>4. Claimed(claims, c.key)[i + 1] = c.quantity /\ c.key \in Keys /\ c.quantity \in Int
    BY <1>0, <2>1, <2>3 DEF Claimed, Positive, GoodClaims, ResolvedClaims
  <2>5. At(left[i], c.key) >= c.quantity
    <3>1. At(left[i], c.key) = At(amounts, c.key) - UpTo(c.key, i)
      BY <2>3, <2>4
    <3>2. UpTo(c.key, i + 1) = c.quantity + UpTo(c.key, i) /\ UpTo(c.key, i) \in Nat
      BY <1>3, <2>4
    <3>3. UpTo(c.key, i + 1) <= ClaimedOf(claims, c.key) /\ ClaimedOf(claims, c.key) \in Nat
      BY <1>0, <1>3, ClaimedIsSum
    <3>4. At(amounts, c.key) >= ClaimedOf(claims, c.key) /\ At(amounts, c.key) \in Int
      BY <1>a, <2>4
    <3>5. PICK a, u, v, w : a = At(amounts, c.key) /\ u = UpTo(c.key, i) /\ v = UpTo(c.key, i + 1)
                         /\ w = ClaimedOf(claims, c.key)
      OBVIOUS
    <3>6. a \in Int /\ u \in Nat /\ w \in Nat /\ a >= w /\ v <= w /\ v = c.quantity + u
      BY <3>2, <3>3, <3>4, <3>5
    <3>7. a - u >= c.quantity
      BY <2>4, <3>6
    <3>8. QED
      BY <3>1, <3>5, <3>7
  <2>6. ASSUME NEW k \in Keys PROVE At(left[i + 1], k) = At(amounts, k) - UpTo(k, i + 1)
    <3>1. At(left[i + 1], k) = At(left[i], k) - (IF c.key = k THEN Positive(c.quantity) ELSE 0)
      BY <2>2, <2>3, <2>5, WithoutTakes
    <3>2. Claimed(claims, k)[i + 1] = IF c.key = k THEN Positive(c.quantity) ELSE 0
      BY <1>0, <2>1 DEF Claimed
    <3>3. UpTo(k, i + 1) = Claimed(claims, k)[i + 1] + UpTo(k, i) /\ UpTo(k, i) \in Nat
          /\ Claimed(claims, k)[i + 1] \in Nat
      BY <1>3
    <3>4. At(left[i], k) = At(amounts, k) - UpTo(k, i) /\ At(amounts, k) \in Int
      BY <1>a, <2>3
    <3>5. PICK a, u, v : a = At(amounts, k) /\ u = UpTo(k, i) /\ v = Claimed(claims, k)[i + 1]
      OBVIOUS
    <3>6. At(left[i + 1], k) = (a - u) - v /\ UpTo(k, i + 1) = v + u /\ a \in Int /\ u \in Nat /\ v \in Nat
      BY <3>1, <3>2, <3>3, <3>4, <3>5
    <3>7. QED
      BY <3>5, <3>6
  <2>7. left[i + 1] \in Amounts
    BY <2>2, <2>3, WithoutType DEF GoodClaims
  <2>8. QED
    BY <2>6, <2>7
<1> HIDE DEF P
<1> HIDE DEF C
<1>6. \A i \in Nat : i \in C
  BY <1>4, <1>5, Inductively
<1>7. P(Len(claims))
  BY <1>0, <1>6 DEF C
<1>8. \A k \in Keys : UpTo(k, Len(claims)) = ClaimedOf(claims, k)
  BY <1>0, ClaimedIsSum DEF UpTo
<1>9. QED
  BY <1>1, <1>7, <1>8 DEF P

-----------------------------------------------------------------------------
(* Orders. *)

\* An order that may be kept: a fixed one is not filled and held beyond its quantity.
SoundOrders ==
  {o \in VirtualOrders :
     /\ o.quantity > 0
     /\ Fixed(o) => Positive(o.reserved) + Positive(o.filled) <= o.quantity}
SoundBooks == UNION {[O -> SoundOrders] : O \in SUBSET OrderIds}

LEMMA SoundType ==
  ASSUME NEW o \in SoundOrders
  PROVE  /\ o \in VirtualOrders /\ o.quantity \in Int /\ o.quantity > 0 /\ o.reserved \in Int /\ o.filled \in Int
         /\ o.tipping \in Int /\ o.dumping \in BOOLEAN /\ o.side \in MarketSides \cup CraftActions
         /\ Fixed(o) => Positive(o.reserved) + Positive(o.filled) <= o.quantity
BY DEF SoundOrders, VirtualOrders

LEMMA NormalizedSound ==
  ASSUME NEW o \in VirtualOrders, Kept(o)
  PROVE  Normalized(o) \in SoundOrders
<1> DEFINE filled == IF Fixed(o) THEN Least(Positive(o.filled), o.quantity) ELSE 0
           tips == o.side = "sell_until" /\ o.tipping > 0
           held == CASE Fixed(o) -> Least(Positive(o.reserved), o.quantity - filled)
                     [] o.side = "credit_floor" -> 0
                     [] OTHER -> Positive(o.reserved)
           tipping == IF tips THEN o.tipping ELSE 0
           dumping == tips /\ o.dumping
           n == [o EXCEPT !.filled = filled, !.reserved = held, !.tipping = tipping, !.dumping = dumping]
<1>1. o.quantity \in Int /\ o.quantity > 0 /\ o.reserved \in Int /\ o.filled \in Int /\ o.tipping \in Int
  BY DEF VirtualOrders, Kept
<1>2. filled \in Int /\ tipping \in Int /\ dumping \in BOOLEAN
  BY <1>1 DEF Least, Positive, VirtualOrders
<1>3. CASE Fixed(o)
  <2>1. held = Least(Positive(o.reserved), o.quantity - filled)
    <3>1. o.side # "credit_floor"
      BY <1>3 DEF Fixed
    <3>2. QED
      BY <1>3, <3>1
  <2>2. held \in Int /\ Positive(held) + Positive(filled) <= o.quantity
    BY <1>1, <1>3, <2>1 DEF Least, Positive
  <2> HIDE DEF held, filled, tipping, dumping
  <2>3. n \in VirtualOrders /\ n.quantity = o.quantity /\ n.reserved = held /\ n.filled = filled
    BY <1>2, <2>2 DEF VirtualOrders
  <2>4. n \in SoundOrders
    BY <1>1, <2>2, <2>3 DEF SoundOrders
  <2>5. QED
    BY <2>4 DEF Normalized, held, filled, tipping, dumping
<1>4. CASE ~Fixed(o)
  <2>2. held \in Int
    BY <1>1, <1>4 DEF Positive
  <2> HIDE DEF held, filled, tipping, dumping
  <2>3. n \in VirtualOrders /\ n.quantity = o.quantity /\ n.side = o.side
    BY <1>2, <2>2 DEF VirtualOrders
  <2>4. n \in SoundOrders
    BY <1>1, <1>4, <2>3 DEF SoundOrders, Fixed
  <2>5. QED
    BY <2>4 DEF Normalized, held, filled, tipping, dumping
<1>5. QED
  BY <1>3, <1>4

\* An order that holds what it accepts is sound, and holds that much more.
LEMMA HeldSound ==
  ASSUME NEW o \in SoundOrders, NEW n \in Nat, Accepts(o, n)
  PROVE  /\ WithHeld(o, n) \in SoundOrders
         /\ WithHeld(o, n).reserved = o.reserved + n
         /\ WithHeld(o, n).side = o.side
<1> DEFINE dumping == o.dumping \/ (n > 0 /\ o.side = "sell_until" /\ o.tipping > 0)
           held == o.reserved + n
           w == [o EXCEPT !.reserved = held, !.dumping = dumping]
<1>1. dumping \in BOOLEAN /\ held \in Int
  BY SoundType
<1>2. Fixed(o) => Positive(held) + Positive(o.filled) <= o.quantity
  BY SoundType DEF Accepts, FixedLeft, Unlimited, Fixed, Positive
<1>3. WithHeld(o, n) = w
  BY DEF WithHeld, VirtualOrders, SoundOrders
<1> HIDE DEF dumping
<1>4. w \in VirtualOrders /\ w.reserved = held /\ w.side = o.side /\ w.quantity = o.quantity /\ w.filled = o.filled
  BY <1>1, SoundType DEF VirtualOrders
<1>5. w \in SoundOrders
  BY <1>2, <1>4, SoundType DEF SoundOrders, Fixed
<1>6. QED
  BY <1>3, <1>4, <1>5

\* An order that is settled is sound, and what it held of a market order is given back.
LEMMA SettledSound ==
  ASSUME NEW o \in SoundOrders, NEW n \in Nat, NEW done \in BOOLEAN
  PROVE  /\ Settled(o, n, done) \in SoundOrders
         /\ Settled(o, n, done).reserved = (IF o.side \in MarketSides THEN o.reserved - n ELSE o.reserved)
         /\ Settled(o, n, done).side = o.side
<1>1. CASE n = 0 \/ o.side \notin MarketSides
  BY <1>1, SoundType DEF Settled
<1>2. CASE n # 0 /\ o.side \in MarketSides
  <2> DEFINE filled == IF done /\ ~Unlimited(o) THEN Least(o.filled + n, o.quantity) ELSE o.filled
             held == o.reserved - n
             w == [o EXCEPT !.reserved = held, !.filled = filled]
  <2>1. filled \in Int /\ held \in Int
    BY SoundType DEF Least
  <2>2. Fixed(o) => Positive(held) + Positive(filled) <= o.quantity
    BY SoundType DEF Least, Positive, Fixed, Unlimited
  <2>3. Settled(o, n, done) = w
    BY <1>2 DEF Settled, VirtualOrders, SoundOrders
  <2> HIDE DEF filled
  <2>4. w \in VirtualOrders /\ w.reserved = held /\ w.side = o.side /\ w.quantity = o.quantity /\ w.filled = filled
    BY <2>1, SoundType DEF VirtualOrders
  <2>5. w \in SoundOrders
    BY <2>2, <2>4, SoundType DEF SoundOrders, Fixed
  <2>6. QED
    BY <1>2, <2>3, <2>4, <2>5
<1>3. QED
  BY <1>1, <1>2

\* An administrator ends what an order holds.
LEMMA EndedSound ==
  ASSUME NEW o \in SoundOrders
  PROVE  /\ FilledByHand(o) \in SoundOrders /\ ReleasedByHand(o) \in SoundOrders
         /\ FilledByHand(o).reserved = 0 /\ ReleasedByHand(o).reserved = 0
<1> DEFINE filled == IF Unlimited(o) THEN 0 ELSE o.filled + Positive(o.reserved)
           w == [o EXCEPT !.filled = filled, !.reserved = 0]
           v == [o EXCEPT !.reserved = 0]
<1>1. filled \in Int /\ (Fixed(o) => Positive(0) + Positive(filled) <= o.quantity)
  BY SoundType DEF Positive, Fixed, Unlimited
<1>2. Fixed(o) => Positive(0) + Positive(o.filled) <= o.quantity
  BY SoundType DEF Positive
<1>3. FilledByHand(o) = w /\ ReleasedByHand(o) = v
  BY DEF FilledByHand, ReleasedByHand
<1> HIDE DEF filled
<1>a. o \in VirtualOrders
  BY SoundType
<1>4. w \in VirtualOrders /\ w.reserved = 0 /\ w.side = o.side /\ w.quantity = o.quantity /\ w.filled = filled
  <2>1. PICK f, n : f = filled /\ n = 0
    OBVIOUS
  <2>2. f \in Int /\ n \in Int /\ w = [o EXCEPT !.filled = f, !.reserved = n]
    BY <1>1, <2>1
  <2>3. w \in VirtualOrders
    BY <1>a, <2>2 DEF VirtualOrders
  <2>4. w.reserved = n /\ w.side = o.side /\ w.quantity = o.quantity /\ w.filled = f
    BY <1>a, <2>2 DEF VirtualOrders
  <2>5. QED
    BY <2>1, <2>3, <2>4
<1>5. v \in VirtualOrders /\ v.reserved = 0 /\ v.side = o.side /\ v.quantity = o.quantity /\ v.filled = o.filled
  BY <1>a DEF VirtualOrders
<1>6. w \in SoundOrders /\ v \in SoundOrders
  BY <1>1, <1>2, <1>4, <1>5, SoundType DEF SoundOrders, Fixed
<1>7. QED
  BY <1>3, <1>4, <1>5, <1>6

\* Books of orders.
LEMMA SoundBook ==
  ASSUME NEW book \in SoundBooks
  PROVE  DOMAIN book \subseteq OrderIds /\ \A o \in DOMAIN book : book[o] \in SoundOrders
BY DEF SoundBooks

LEMMA MakesSoundBook ==
  ASSUME NEW O \in SUBSET OrderIds, NEW book, book = [o \in O |-> book[o]], \A o \in O : book[o] \in SoundOrders
  PROVE  book \in SoundBooks /\ DOMAIN book = O
<1>1. book \in [O -> SoundOrders]
  OBVIOUS
<1>2. QED
  BY <1>1 DEF SoundBooks

LEMMA PrunedSound ==
  ASSUME NEW O \in SUBSET OrderIds, NEW book \in [O -> SoundOrders]
  PROVE  /\ Pruned(book) \in SoundBooks /\ DOMAIN Pruned(book) \subseteq O
         /\ \A o \in DOMAIN Pruned(book) : Pruned(book)[o] = book[o]
<1> DEFINE P == {i \in DOMAIN book : ~SettledFor(book[i])}
<1>1. Pruned(book) = [i \in P |-> book[i]]
  BY DEF Pruned
<1>2. P \in SUBSET O
  OBVIOUS
<1> HIDE DEF P
<1>3. \A i \in P : book[i] \in SoundOrders
  BY <1>2
<1>4. Pruned(book) \in [P -> SoundOrders]
  BY <1>1, <1>3
<1>5. Pruned(book) \in SoundBooks
  BY <1>2, <1>4 DEF SoundBooks
<1>6. QED
  BY <1>1, <1>2, <1>5

LEMMA BookOfSound ==
  ASSUME NEW book, DOMAIN book \subseteq OrderIds, \A o \in DOMAIN book : book[o] \in VirtualOrders
  PROVE  BookOf(book) \in SoundBooks
<1> DEFINE O == {o \in DOMAIN book : Kept(book[o])}
           b == [o \in O |-> Normalized(book[o])]
<1>1. \A o \in O : Normalized(book[o]) \in SoundOrders
  BY NormalizedSound
<1>2. b \in [O -> SoundOrders] /\ O \in SUBSET OrderIds
  BY <1>1
<1> HIDE DEF b
<1>3. Pruned(b) \in SoundBooks
  BY <1>2, PrunedSound
<1>4. QED
  BY <1>3 DEF BookOf, b

LEMMA DumpModesSound ==
  ASSUME NEW book \in SoundBooks, NEW storage \in Int
  PROVE  /\ DumpModes(book, storage) \in SoundBooks /\ DOMAIN DumpModes(book, storage) = DOMAIN book
         /\ \A o \in DOMAIN book : /\ DumpModes(book, storage)[o].reserved = book[o].reserved
                                   /\ DumpModes(book, storage)[o].side = book[o].side
<1> DEFINE D == DumpModes(book, storage)
<1>1. DOMAIN D = DOMAIN book /\ D = [o \in DOMAIN book |-> D[o]]
  BY DEF DumpModes
<1>2. ASSUME NEW id \in DOMAIN book
      PROVE  D[id] \in SoundOrders /\ D[id].reserved = book[id].reserved /\ D[id].side = book[id].side
  <2> DEFINE o == book[id]
             excess == Positive(storage) - o.quantity
             dumping == excess > 0 /\ (excess >= o.tipping \/ o.dumping)
             w == [o EXCEPT !.dumping = dumping]
  <2>1. o \in SoundOrders
    BY SoundBook
  <2>2. D[id] = IF o.side = "sell_until" /\ o.tipping > 0 THEN w ELSE o
    BY DEF DumpModes
  <2>3. w \in SoundOrders /\ w.reserved = o.reserved /\ w.side = o.side
    <3>1. dumping \in BOOLEAN
      OBVIOUS
    <3> HIDE DEF dumping, o
    <3>2. w \in VirtualOrders /\ w.reserved = o.reserved /\ w.side = o.side /\ w.quantity = o.quantity
          /\ w.filled = o.filled
      BY <2>1, <3>1, SoundType DEF VirtualOrders
    <3>3. QED
      BY <2>1, <3>2, SoundType DEF SoundOrders, Fixed
  <2> HIDE DEF D, w, o
  <2>4. D[id] \in SoundOrders /\ D[id].reserved = o.reserved /\ D[id].side = o.side
    BY <2>1, <2>2, <2>3
  <2>5. QED
    BY <2>4 DEF o
<1> HIDE DEF D
<1>3. D \in SoundBooks
  BY <1>1, <1>2, SoundBook, MakesSoundBook
<1>4. QED
  BY <1>1, <1>2, <1>3 DEF D

\* What settling, holding and ending do to a whole book.
LEMMA SettledBookSound ==
  ASSUME orders \in SoundBooks, NEW uses \in [OrderIds -> Nat], NEW done \in BOOLEAN
  PROVE  /\ SettledBook(uses, done) \in SoundBooks /\ DOMAIN SettledBook(uses, done) \subseteq DOMAIN orders
         /\ \A o \in DOMAIN SettledBook(uses, done) : SettledBook(uses, done)[o] = Settled(orders[o], uses[o], done)
<1> DEFINE b == [o \in DOMAIN orders |-> Settled(orders[o], uses[o], done)]
<1>1. \A o \in DOMAIN orders : Settled(orders[o], uses[o], done) \in SoundOrders
  BY SoundBook, SettledSound
<1>2. b \in [DOMAIN orders -> SoundOrders] /\ DOMAIN orders \in SUBSET OrderIds
  BY <1>1, SoundBook
<1>3. \A o \in DOMAIN orders : b[o] = Settled(orders[o], uses[o], done)
  OBVIOUS
<1>4. SettledBook(uses, done) = Pruned(b)
  BY DEF SettledBook
<1> HIDE DEF b
<1>5. QED
  BY <1>2, <1>3, <1>4, PrunedSound

LEMMA HeldBookSound ==
  ASSUME NEW book \in SoundBooks, NEW uses \in [OrderIds -> Nat], HoldsAll(book, uses),
         NEW b, b = [o \in DOMAIN book |-> IF uses[o] > 0 THEN WithHeld(book[o], uses[o]) ELSE book[o]]
  PROVE  /\ b \in SoundBooks /\ DOMAIN b = DOMAIN book
         /\ \A o \in DOMAIN book : b[o].reserved = book[o].reserved + uses[o] /\ b[o].side = book[o].side
<1>1. DOMAIN book \in SUBSET OrderIds
  BY SoundBook
<1>2. ASSUME NEW o \in DOMAIN book
      PROVE  /\ b[o] \in SoundOrders
             /\ b[o].reserved = book[o].reserved + uses[o] /\ b[o].side = book[o].side
  <2>1. book[o] \in SoundOrders /\ o \in OrderIds /\ uses[o] \in Nat
    BY SoundBook
  <2>2. CASE uses[o] > 0
    <3>1. Accepts(book[o], uses[o])
      BY <2>1, <2>2, SoundType DEF HoldsAll, Accepts, FixedLeft, Positive
    <3>2. b[o] = WithHeld(book[o], uses[o])
      BY <2>2
    <3>3. QED
      BY <2>1, <3>1, <3>2, HeldSound
  <2>3. CASE ~(uses[o] > 0)
    <3>1. b[o] = book[o] /\ uses[o] = 0
      BY <2>1, <2>3
    <3>2. QED
      BY <2>1, <3>1, SoundType
  <2>4. QED
    BY <2>2, <2>3
<1>3. QED
  BY <1>1, <1>2, MakesSoundBook

LEMMA HeldEachSound ==
  ASSUME NEW book \in SoundBooks, NEW uses \in [OrderIds -> Nat]
  PROVE  LET b == Pruned(HeldEach(book, uses))
         IN  /\ b \in SoundBooks /\ DOMAIN b \subseteq DOMAIN book
             /\ \A o \in DOMAIN b :
                  /\ b[o].reserved = book[o].reserved + (IF Accepts(book[o], uses[o]) THEN uses[o] ELSE 0)
                  /\ b[o].side = book[o].side
<1> DEFINE h == HeldEach(book, uses)
           b == Pruned(h)
<1>0. DOMAIN book \in SUBSET OrderIds
  BY SoundBook
<1>1. h = [o \in DOMAIN book |-> h[o]] /\ DOMAIN h = DOMAIN book
  BY DEF HeldEach
<1>2. ASSUME NEW o \in DOMAIN book
      PROVE  /\ h[o] \in SoundOrders
             /\ h[o].reserved = book[o].reserved + (IF Accepts(book[o], uses[o]) THEN uses[o] ELSE 0)
             /\ h[o].side = book[o].side
  <2>1. book[o] \in SoundOrders /\ o \in OrderIds /\ uses[o] \in Nat
    BY SoundBook
  <2>2. h[o] = IF uses[o] > 0 /\ Accepts(book[o], uses[o]) THEN WithHeld(book[o], uses[o]) ELSE book[o]
    BY DEF HeldEach
  <2> HIDE DEF h
  <2>3. CASE uses[o] > 0 /\ Accepts(book[o], uses[o])
    BY <2>1, <2>2, <2>3, HeldSound
  <2>4. CASE ~(uses[o] > 0 /\ Accepts(book[o], uses[o]))
    <3>1. (IF Accepts(book[o], uses[o]) THEN uses[o] ELSE 0) = 0
      BY <2>1, <2>4
    <3>2. QED
      BY <2>1, <2>2, <2>4, <3>1, SoundType
  <2>5. QED
    BY <2>3, <2>4
<1> HIDE DEF h
<1>3. h \in [DOMAIN book -> SoundOrders]
  BY <1>1, <1>2
<1>4. b \in SoundBooks /\ DOMAIN b \subseteq DOMAIN book /\ \A o \in DOMAIN b : b[o] = h[o]
  BY <1>0, <1>3, PrunedSound
<1> SUFFICES /\ b \in SoundBooks /\ DOMAIN b \subseteq DOMAIN book
             /\ \A o \in DOMAIN b :
                  /\ b[o].reserved = book[o].reserved + (IF Accepts(book[o], uses[o]) THEN uses[o] ELSE 0)
                  /\ b[o].side = book[o].side
  BY DEF h
<1> HIDE DEF b
<1>5. QED
  BY <1>2, <1>4

LEMMA EndedBookSound ==
  ASSUME NEW book \in SoundBooks, NEW o \in DOMAIN book, NEW ended \in {FilledByHand(book[o]), ReleasedByHand(book[o])}
  PROVE  LET b == Pruned([book EXCEPT ![o] = ended])
         IN  /\ b \in SoundBooks /\ DOMAIN b \subseteq DOMAIN book
             /\ o \in DOMAIN b => b[o].reserved = 0
             /\ \A p \in DOMAIN b : p # o => b[p] = book[p]
<1> DEFINE h == [book EXCEPT ![o] = ended]
           b == Pruned(h)
<1>0. DOMAIN book \in SUBSET OrderIds /\ book \in [DOMAIN book -> SoundOrders]
  BY DEF SoundBooks
<1>1. ended \in SoundOrders /\ ended.reserved = 0
  BY EndedSound, SoundBook
<1>2. h \in [DOMAIN book -> SoundOrders] /\ h[o] = ended /\ \A p \in DOMAIN book : p # o => h[p] = book[p]
  BY <1>0, <1>1
<1> HIDE DEF h
<1>4. b \in SoundBooks /\ DOMAIN b \subseteq DOMAIN book /\ \A p \in DOMAIN b : b[p] = h[p]
  BY <1>0, <1>2, PrunedSound
<1> SUFFICES /\ b \in SoundBooks /\ DOMAIN b \subseteq DOMAIN book
             /\ o \in DOMAIN b => b[o].reserved = 0
             /\ \A p \in DOMAIN b : p # o => b[p] = book[p]
  BY DEF h
<1> HIDE DEF b
<1>5. QED
  BY <1>1, <1>2, <1>4

-----------------------------------------------------------------------------
(* The ledger's state. *)

Statuses == Active \cup {"Unborn", "Completed", "Failed", "Released"}
MovementStates == [status : Statuses, claims : Seq(GoodClaims), uses : [OrderIds -> Nat]]
SettlingRecords == [movement : MovementIds, done : BOOLEAN, from : Statuses]

\* Of what a request names, what was seen is there.
AskIsReal ==
  ask # NoAsk => \A i \in DOMAIN ask.claims :
    LET c == ask.claims[i] IN c.observed > 0 => c.key \in Keys /\ c.key.kind = c.kind

LedgerTypeOK ==
  /\ stock \in [Rows -> Nat]
  /\ reserved \in Amounts
  /\ movements \in [MovementIds -> MovementStates]
  /\ orders \in SoundBooks
  /\ ask = NoAsk \/ (ask \in PendingAsks /\ ask.movement \in MovementIds \cup {0})
  /\ settling \in SUBSET SettlingRecords /\ IsFiniteSet(settling)
  /\ byHand \in [OrderIds -> Int]
  /\ reopened \in SUBSET MovementIds
  /\ AskIsReal

LEMMA KeysAreFinite ==
  /\ IsFiniteSet(Keys) /\ IsFiniteSet(Rows) /\ IsFiniteSet(MovementIds) /\ Keys \subseteq LotNames
  /\ \A m \in MovementIds : m \in Nat /\ m > 0
<1>1. IsFiniteSet(Rows) /\ IsFiniteSet(MovementIds) /\ MovementIds \subseteq Nat \ {0}
      /\ \A r \in Rows : r \in [kind : STRING, level : Nat \ {0}]
  BY LedgerAssumption
<1>2. IsFiniteSet({LotOf(r) : r \in Rows})
  <2> DEFINE f == [r \in Rows |-> LotOf(r)]
  <2>1. IsFiniteSet({f[r] : r \in Rows})
    BY <1>1, ImageIsFinite
  <2>2. {f[r] : r \in Rows} = {LotOf(r) : r \in Rows}
    OBVIOUS
  <2>3. QED
    BY <2>1, <2>2
<1>3. IsFiniteSet(Kinds)
  <2> DEFINE f == [r \in Rows |-> r.kind]
  <2>1. IsFiniteSet({f[r] : r \in Rows})
    BY <1>1, ImageIsFinite
  <2>2. {f[r] : r \in Rows} = Kinds
    BY DEF Kinds
  <2>3. QED
    BY <2>1, <2>2
<1>4. IsFiniteSet({Compound(k) : k \in Kinds})
  <2> DEFINE f == [k \in Kinds |-> Compound(k)]
  <2>1. IsFiniteSet({f[k] : k \in Kinds})
    BY <1>3, ImageIsFinite
  <2>2. {f[k] : k \in Kinds} = {Compound(k) : k \in Kinds}
    OBVIOUS
  <2>3. QED
    BY <2>1, <2>2
<1>5. IsFiniteSet(Keys)
  BY <1>2, <1>4, FS_Union DEF Keys
<1>6. ASSUME NEW r \in Rows PROVE LotOf(r) \in LotNames
  <2>1. r.kind \in STRING /\ Level(r) \in Int
    BY <1>1 DEF Level
  <2>2. QED
    BY <2>1 DEF LotOf, LotNames
<1>7. ASSUME NEW k \in Kinds PROVE Compound(k) \in LotNames
  <2>1. k \in STRING
    BY <1>1 DEF Kinds
  <2>2. QED
    BY <2>1 DEF Compound, LotNames
<1>8. QED
  BY <1>1, <1>5, <1>6, <1>7 DEF Keys

LEMMA EmptyAmounts == <<>> \in Amounts /\ \A k : At(<<>>, k) = 0
<1>1. <<>> \in [{} -> Int] /\ {} \in SUBSET LotNames /\ DOMAIN <<>> = {}
  OBVIOUS
<1>2. QED
  BY <1>1 DEF Amounts, At

LEMMA UnbornType == Unborn \in MovementStates
<1>1. <<>> \in Seq(GoodClaims) /\ [o \in OrderIds |-> 0] \in [OrderIds -> Nat]
  OBVIOUS
<1>2. QED
  BY <1>1 DEF Unborn, MovementStates, Statuses

LEMMA StorageType == ASSUME NEW st \in [Rows -> Nat], NEW s PROVE Storage(st, s) \in Int
BY DEF Storage, Unknown

\* A claim resolved against the stock: where something was seen, the key exists.
LEMMA ResolvedType ==
  ASSUME NEW c \in AskedClaims, NEW st \in [Rows -> Nat], NEW s
  PROVE  /\ Resolved(c, st, s) \in ResolvedClaims
         /\ Resolved(c, st, s).observed > 0 =>
              Resolved(c, st, s).key \in Keys /\ Resolved(c, st, s).key.kind = Resolved(c, st, s).kind
<1> DEFINE M == Matching(c, st, s)
           one == CHOOSE r \in M : TRUE
           key == CASE c.lot # AnyLot -> [kind |-> c.kind, lot |-> c.lot]
                    [] c.lot = AnyLot /\ Cardinality(M) = 1 -> LotOf(one)
                    [] OTHER -> Compound(c.kind)
           r == Resolved(c, st, s)
<1>1. c.kind \in STRING /\ c.lot \in Int /\ c.quantity \in Int
  BY DEF AskedClaims
<1>2. M \in SUBSET Rows /\ IsFiniteSet(M)
  <2>1. M \in SUBSET Rows
    BY DEF Matching
  <2>2. QED
    BY <2>1, KeysAreFinite, FS_Subset
<1>3. Observed(c, st, s) \in Nat
  <2>1. \A x \in M : st[x] \in Nat
    BY <1>2
  <2>2. QED
    BY <1>2, <2>1, SumOfNaturals DEF Observed
<1>4. Observed(c, st, s) > 0 => M # {}
  <2>1. M = {} => Observed(c, st, s) = 0
    BY SumEmpty DEF Observed
  <2>2. QED
    BY <2>1
<1>5. r.kind = c.kind /\ r.quantity = c.quantity /\ r.observed = Observed(c, st, s)
  BY DEF Resolved
<1>6. r.key = IF c.lot # AnyLot THEN [kind |-> c.kind, lot |-> c.lot]
              ELSE IF Cardinality(M) = 1 THEN LotOf(one) ELSE Compound(c.kind)
  <2>1. r.key = key
    BY DEF Resolved
  <2> HIDE DEF M
  <2>2. QED
    BY <2>1
<1>7. M # {} => one \in M
  OBVIOUS
<1>8. \A x \in M : x \in Rows /\ x.kind = c.kind /\ c.lot \in {AnyLot, 0, Level(x)}
  BY DEF Matching
<1>9. M # {} => r.key \in Keys /\ r.key.kind = c.kind
  <2> SUFFICES ASSUME M # {} PROVE r.key \in Keys /\ r.key.kind = c.kind
    OBVIOUS
  <2>1. c.kind \in Kinds
    BY <1>8 DEF Kinds
  <2>2. CASE c.lot # AnyLot
    <3>1. r.key = [kind |-> c.kind, lot |-> c.lot]
      BY <1>6, <2>2
    <3>2. PICK x \in M : TRUE
      OBVIOUS
    <3>3. CASE c.lot = 0
      BY <2>1, <3>1, <3>3 DEF Keys, Compound
    <3>4. CASE c.lot = Level(x)
      BY <1>8, <3>1, <3>4 DEF Keys, LotOf
    <3>5. QED
      BY <1>8, <2>2, <3>3, <3>4
  <2>3. CASE c.lot = AnyLot /\ Cardinality(M) = 1
    <3>1. r.key = LotOf(one) /\ one \in Rows /\ one.kind = c.kind
      BY <1>6, <1>7, <1>8, <2>3
    <3>2. LotOf(one) \in Keys
      BY <3>1 DEF Keys
    <3>3. LotOf(one).kind = one.kind
      BY DEF LotOf
    <3>4. QED
      BY <3>1, <3>2, <3>3
  <2>4. CASE c.lot = AnyLot /\ Cardinality(M) # 1
    BY <1>6, <2>1, <2>4 DEF Keys, Compound
  <2>5. QED
    BY <2>2, <2>3, <2>4
<1>10. r.key \in [kind : STRING, lot : Int]
  <2>1. CASE M # {}
    BY <1>9, <2>1, KeysAreFinite DEF LotNames
  <2>2. CASE M = {}
    <3>1. Cardinality(M) # 1
      BY <2>2, FS_EmptySet
    <3>2. QED
      BY <1>1, <1>6, <3>1 DEF Compound
  <2>3. QED
    BY <2>1, <2>2
<1>11. r = [kind |-> r.kind, quantity |-> r.quantity, observed |-> r.observed, key |-> r.key]
  BY DEF Resolved
<1> HIDE DEF r, M
<1>12. r \in ResolvedClaims
  <2>1. r.observed \in Int
    BY <1>3, <1>5
  <2>2. QED
    BY <1>1, <1>5, <1>10, <1>11, <2>1 DEF ResolvedClaims
<1>13. QED
  BY <1>3, <1>4, <1>5, <1>9, <1>12 DEF r

LEMMA EmptyBook == <<>> \in SoundBooks /\ DOMAIN <<>> = {}
<1>1. <<>> \in [{} -> SoundOrders] /\ {} \in SUBSET OrderIds /\ DOMAIN <<>> = {}
  OBVIOUS
<1>2. QED
  BY <1>1 DEF SoundBooks

LEMMA PutBook == ASSUME NEW b \in Books PROVE BookOf(b) \in SoundBooks
BY LedgerAssumption, BookOfSound

LEMMA HeldInType == ASSUME NEW book \in SoundBooks PROVE HeldIn(book) \in [OrderIds -> Int]
<1>1. ASSUME NEW o \in OrderIds PROVE (IF o \in DOMAIN book THEN book[o].reserved ELSE 0) \in Int
  BY SoundBook, SoundType
<1>2. QED
  BY <1>1 DEF HeldIn

LEMMA LedgerTypeInit == LedgerInit => LedgerTypeOK
<1> SUFFICES ASSUME LedgerInit PROVE LedgerTypeOK
  OBVIOUS
<1>1. orders \in SoundBooks
  BY EmptyBook, PutBook DEF LedgerInit
<1>2. byHand \in [OrderIds -> Int]
  BY <1>1, HeldInType DEF LedgerInit
<1>3. movements \in [MovementIds -> MovementStates]
  BY UnbornType DEF LedgerInit
<1>4. settling \in SUBSET SettlingRecords /\ IsFiniteSet(settling)
  BY FS_EmptySet DEF LedgerInit
<1>5. QED
  BY <1>1, <1>2, <1>3, <1>4, EmptyAmounts DEF LedgerInit, LedgerTypeOK, AskIsReal

LEMMA LookType == ASSUME LedgerTypeOK, NEW s \in Sights, Look(s) PROVE LedgerTypeOK'
<1>1. stock' \in [Rows -> Nat]
  BY LedgerAssumption DEF LedgerTypeOK, Look
<1>2. orders' \in SoundBooks
  BY <1>1, StorageType, DumpModesSound DEF LedgerTypeOK, Look
<1>3. QED
  BY <1>1, <1>2 DEF LedgerTypeOK, Look, AskIsReal

LEMMA AskedType == ASSUME LedgerTypeOK, NEW a \in Asks, Asked(a) PROVE LedgerTypeOK'
<1> DEFINE claims == [i \in DOMAIN a.claims |-> Resolved(a.claims[i], stock, seen)]
<1>1. a.claims \in Seq(AskedClaims) /\ a.uses \in [OrderIds -> Nat]
  BY LedgerAssumption
<1>2. ASSUME NEW i \in DOMAIN a.claims
      PROVE  /\ claims[i] \in ResolvedClaims
             /\ claims[i].observed > 0 => claims[i].key \in Keys /\ claims[i].key.kind = claims[i].kind
  <2>1. a.claims[i] \in AskedClaims
    BY <1>1
  <2>2. claims[i] = Resolved(a.claims[i], stock, seen)
    OBVIOUS
  <2>3. QED
    BY <2>1, <2>2, ResolvedType DEF LedgerTypeOK
<1>3. claims \in Seq(ResolvedClaims)
  <2>1. DOMAIN a.claims = 1..Len(a.claims) /\ Len(a.claims) \in Nat
    BY <1>1
  <2>2. claims = [i \in 1..Len(a.claims) |-> claims[i]]
    BY <2>1
  <2>3. \A i \in 1..Len(a.claims) : claims[i] \in ResolvedClaims
    BY <1>2, <2>1
  <2> HIDE DEF claims
  <2>4. claims \in [1..Len(a.claims) -> ResolvedClaims]
    BY <2>2, <2>3
  <2>5. QED
    BY <2>1, <2>4
<1>4. ask' = [claims |-> claims, uses |-> a.uses, movement |-> 0]
  BY DEF Asked
<1>5. ask' \in PendingAsks /\ ask'.movement = 0
  BY <1>1, <1>3, <1>4 DEF PendingAsks
<1>6. AskIsReal'
  BY <1>2, <1>4 DEF AskIsReal
<1>7. QED
  BY <1>5, <1>6 DEF LedgerTypeOK, Asked

\* What is granted: claims on what is there, and the request is a pending one.
LEMMA AskType ==
  ASSUME LedgerTypeOK, ask # NoAsk
  PROVE  /\ ask \in PendingAsks /\ ask.claims \in Seq(ResolvedClaims) /\ ask.uses \in [OrderIds -> Nat]
         /\ ask.movement \in MovementIds \cup {0}
BY DEF LedgerTypeOK, PendingAsks

LEMMA GrantedClaims ==
  ASSUME LedgerTypeOK, ask # NoAsk, ClaimsFit
  PROVE  ask.claims \in Seq(GoodClaims)
<1>1. ask.claims \in Seq(ResolvedClaims)
  BY AskType
<1>2. ASSUME NEW i \in DOMAIN ask.claims PROVE ask.claims[i] \in GoodClaims
  <2>1. ask.claims[i] \in ResolvedClaims
    BY <1>1
  <2>2. ask.claims[i].quantity > 0 /\ ask.claims[i].observed > 0
    BY DEF ClaimsFit
  <2>3. QED
    BY <2>1, <2>2 DEF LedgerTypeOK, AskIsReal, GoodClaims
<1>3. DOMAIN ask.claims = 1..Len(ask.claims) /\ Len(ask.claims) \in Nat
      /\ ask.claims = [i \in 1..Len(ask.claims) |-> ask.claims[i]]
  BY <1>1
<1>4. QED
  BY <1>2, <1>3

LEMMA MovementType ==
  ASSUME LedgerTypeOK, NEW m \in MovementIds
  PROVE  /\ movements[m].status \in Statuses /\ movements[m].claims \in Seq(GoodClaims)
         /\ movements[m].claims \in Seq(ResolvedClaims) /\ movements[m].uses \in [OrderIds -> Nat]
<1>1. movements[m].status \in Statuses /\ movements[m].claims \in Seq(GoodClaims)
      /\ movements[m].uses \in [OrderIds -> Nat]
  BY DEF LedgerTypeOK, MovementStates
<1>2. QED
  BY <1>1 DEF GoodClaims

LEMMA TakenType ==
  ASSUME LedgerTypeOK, NEW claims \in Seq(ResolvedClaims)
  PROVE  /\ Taken(claims) \in Amounts
         /\ \A k : At(Taken(claims), k) = At(reserved, k) + ClaimedOf(claims, k)
<1> DEFINE D == DOMAIN reserved \cup {claims[i].key : i \in DOMAIN claims}
<1>1. \A k : ReservedAt(k) = At(reserved, k) /\ At(reserved, k) \in Int
  BY DEF ReservedAt, At, LedgerTypeOK, Amounts
<1>2. \A k : ClaimedOf(claims, k) \in Nat
  BY ClaimedIsSum
<1>3. D \in SUBSET LotNames
  <2>1. DOMAIN reserved \in SUBSET LotNames
    BY DEF LedgerTypeOK, Amounts
  <2>2. \A i \in DOMAIN claims : claims[i] \in ResolvedClaims
    OBVIOUS
  <2>3. \A i \in DOMAIN claims : claims[i].key \in LotNames
    BY <2>2 DEF ResolvedClaims, LotNames
  <2>4. QED
    BY <2>1, <2>3
<1>4. Taken(claims) = [k \in D |-> ReservedAt(k) + ClaimedOf(claims, k)]
  BY DEF Taken
<1>5. \A k : k \notin D => ClaimedOf(claims, k) = 0 /\ At(reserved, k) = 0
  <2> SUFFICES ASSUME NEW k, k \notin D PROVE ClaimedOf(claims, k) = 0 /\ At(reserved, k) = 0
    OBVIOUS
  <2>1. At(reserved, k) = 0
    BY DEF At
  <2>2. \A i \in DOMAIN claims : Claimed(claims, k)[i] = 0
    BY DEF Claimed
  <2>3. QED
    BY <2>1, <2>2, ClaimedIsSum, SumOfNothing
<1> HIDE DEF D
<1>6. Taken(claims) \in [D -> Int]
  BY <1>1, <1>2, <1>4
<1>7. Taken(claims) \in Amounts
  BY <1>3, <1>6 DEF Amounts
<1>8. ASSUME NEW k PROVE At(Taken(claims), k) = At(reserved, k) + ClaimedOf(claims, k)
  <2>1. CASE k \in D
    BY <1>1, <1>4, <2>1 DEF At
  <2>2. CASE k \notin D
    <3>1. At(Taken(claims), k) = 0
      BY <1>4, <2>2 DEF At
    <3>2. QED
      BY <1>5, <2>2, <3>1
  <2>3. QED
    BY <2>1, <2>2
<1>9. QED
  BY <1>7, <1>8

LEMMA ClaimType == ASSUME LedgerTypeOK, Claim PROVE LedgerTypeOK'
<1>1. ask # NoAsk /\ ClaimsFit
  BY DEF Claim, Granted
<1>2. ask \in PendingAsks /\ ask.claims \in Seq(GoodClaims) /\ ask.claims \in Seq(ResolvedClaims)
      /\ ask.uses \in [OrderIds -> Nat]
  BY <1>1, AskType, GrantedClaims
<1>3. PICK m \in MovementIds \ Born :
        /\ movements' = [movements EXCEPT ![m] =
                           [status |-> "Reserved", claims |-> ask.claims, uses |-> ask.uses]]
        /\ ask' = IF ask.uses = None THEN NoAsk ELSE [ask EXCEPT !.movement = m]
  BY DEF Claim
<1>4. movements' \in [MovementIds -> MovementStates]
  <2>1. [status |-> "Reserved", claims |-> ask.claims, uses |-> ask.uses] \in MovementStates
    BY <1>2 DEF MovementStates, Statuses, Active
  <2>2. QED
    BY <1>3, <2>1 DEF LedgerTypeOK
<1>5. reserved' \in Amounts
  BY <1>2, TakenType DEF Claim
<1>6. ask' = NoAsk \/ (ask' \in PendingAsks /\ ask'.movement = m /\ ask'.claims = ask.claims)
  BY <1>2, <1>3, KeysAreFinite DEF PendingAsks
<1>7. AskIsReal'
  BY <1>1, <1>6 DEF LedgerTypeOK, AskIsReal
<1>8. QED
  BY <1>4, <1>5, <1>6, <1>7 DEF LedgerTypeOK, Claim

LEMMA FreedIs ==
  ASSUME NEW m, NEW to
  PROVE  Freed(m, to) = IF IsActive(m) /\ to \notin Active THEN Remaining(reserved, movements[m].claims)
                        ELSE reserved
BY DEF Freed, Remaining, FoldLeft, MapThenFoldSet

LEMMA FreedType == ASSUME LedgerTypeOK, NEW m \in MovementIds, NEW to PROVE Freed(m, to) \in Amounts
BY FreedIs, MovementType, FoldType DEF LedgerTypeOK

\* A movement whose status changes keeps its claims and uses.
LEMMA StatusType ==
  ASSUME LedgerTypeOK, NEW m \in MovementIds, NEW to \in Statuses,
         movements' = [movements EXCEPT ![m].status = to]
  PROVE  /\ movements' \in [MovementIds -> MovementStates]
         /\ movements'[m].status = to
         /\ \A n \in MovementIds : /\ n # m => movements'[n] = movements[n]
                                   /\ movements'[n].claims = movements[n].claims
                                   /\ movements'[n].uses = movements[n].uses
<1>1. movements \in [MovementIds -> MovementStates]
  BY DEF LedgerTypeOK
<1> DEFINE s == [movements[m] EXCEPT !.status = to]
<1>2. movements' = [movements EXCEPT ![m] = s]
  BY <1>1
<1>3. s \in MovementStates /\ s.status = to /\ s.claims = movements[m].claims /\ s.uses = movements[m].uses
  BY <1>1 DEF MovementStates
<1> HIDE DEF s
<1>4. QED
  BY <1>1, <1>2, <1>3

LEMMA TransitionType ==
  ASSUME LedgerTypeOK, NEW m \in MovementIds, NEW to \in Active \cup {"Completed", "Failed", "Released"},
         Transition(m, to)
  PROVE  LedgerTypeOK'
<1>1. movements' \in [MovementIds -> MovementStates]
  BY StatusType DEF Transition, Statuses
<1>2. reserved' \in Amounts
  BY FreedType DEF Transition
<1>3. settling' \in SUBSET SettlingRecords /\ IsFiniteSet(settling')
  <2>0. settling \in SUBSET SettlingRecords /\ IsFiniteSet(settling)
    BY DEF LedgerTypeOK
  <2> DEFINE t == [movement |-> m, done |-> to = "Completed", from |-> movements[m].status]
  <2>1. t \in SettlingRecords
    BY MovementType DEF SettlingRecords
  <2>2. settling' = settling \cup {t} \/ settling' = settling
    BY DEF Transition
  <2> HIDE DEF t
  <2>3. IsFiniteSet(settling \cup {t})
    BY <2>0, FS_AddElement
  <2>4. QED
    BY <2>0, <2>1, <2>2, <2>3
<1>4. reopened' \in SUBSET MovementIds
  BY DEF Transition, LedgerTypeOK
<1>5. QED
  BY <1>1, <1>2, <1>3, <1>4 DEF LedgerTypeOK, Transition, AskIsReal

LEMMA SettleType == ASSUME LedgerTypeOK, NEW t \in settling, Settle(t) PROVE LedgerTypeOK'
<1>1. t \in SettlingRecords /\ settling' \in SUBSET SettlingRecords /\ IsFiniteSet(settling')
  BY FS_Subset DEF LedgerTypeOK, Settle
<1>2. t.movement \in MovementIds /\ t.done \in BOOLEAN
  BY <1>1 DEF SettlingRecords
<1>3. SettledBook(movements[t.movement].uses, t.done) \in SoundBooks
  BY <1>2, SettledBookSound, MovementType DEF LedgerTypeOK
<1>4. QED
  BY <1>1, <1>3 DEF LedgerTypeOK, Settle, AskIsReal

LEMMA HoldOrdersType == ASSUME LedgerTypeOK, HoldOrders PROVE LedgerTypeOK'
<1>1. ask # NoAsk /\ ask.uses \in [OrderIds -> Nat] /\ ask.movement \in MovementIds /\ ask' = NoAsk
  BY AskType, KeysAreFinite DEF HoldOrders
<1>2. orders' \in SoundBooks
  <2>1. CASE HoldsAll(orders, ask.uses)
    BY <1>1, <2>1, HeldBookSound DEF LedgerTypeOK, HoldOrders
  <2>2. CASE ~HoldsAll(orders, ask.uses)
    BY <2>2 DEF LedgerTypeOK, HoldOrders
  <2>3. QED
    BY <2>1, <2>2
<1>3. movements' \in [MovementIds -> MovementStates] /\ reserved' \in Amounts
  <2>1. CASE UNCHANGED <<movements, reserved>>
    BY <2>1 DEF LedgerTypeOK
  <2>2. CASE /\ movements' = [movements EXCEPT ![ask.movement].status = "Released"]
             /\ reserved' = Freed(ask.movement, "Released")
    BY <1>1, <2>2, StatusType, FreedType DEF Statuses
  <2>3. QED
    BY <2>1, <2>2 DEF HoldOrders
<1>4. QED
  BY <1>1, <1>2, <1>3 DEF LedgerTypeOK, HoldOrders, AskIsReal

LEMMA PutType == ASSUME LedgerTypeOK, NEW b \in Books, Put(b) PROVE LedgerTypeOK'
<1>1. orders' \in SoundBooks /\ byHand' \in [OrderIds -> Int]
  BY PutBook, HeldInType DEF Put
<1>2. QED
  BY <1>1 DEF LedgerTypeOK, Put, ByHand, AskIsReal

LEMMA HoldByHandType == ASSUME LedgerTypeOK, NEW a \in Asks, HoldByHand(a.uses) PROVE LedgerTypeOK'
<1>1. a.uses \in [OrderIds -> Nat]
  BY LedgerAssumption
<1>2. orders' \in SoundBooks
  BY <1>1, HeldEachSound DEF LedgerTypeOK, HoldByHand
<1>3. byHand' \in [OrderIds -> Int]
  BY <1>1 DEF LedgerTypeOK, HoldByHand
<1>4. QED
  BY <1>2, <1>3 DEF LedgerTypeOK, HoldByHand, ByHand, AskIsReal

LEMMA EndByHandType ==
  ASSUME LedgerTypeOK, NEW o \in OrderIds, FillByHand(o) \/ ReleaseByHand(o)
  PROVE  LedgerTypeOK'
<1>1. orders' \in SoundBooks
  <2>1. o \in DOMAIN orders /\ orders \in SoundBooks
    BY DEF LedgerTypeOK, FillByHand, ReleaseByHand, EndByHand
  <2>2. CASE FillByHand(o)
    BY <2>1, <2>2, EndedBookSound DEF FillByHand, EndByHand
  <2>3. CASE ReleaseByHand(o)
    BY <2>1, <2>3, EndedBookSound DEF ReleaseByHand, EndByHand
  <2>4. QED
    BY <2>2, <2>3
<1>2. byHand' \in [OrderIds -> Int]
  BY DEF LedgerTypeOK, FillByHand, ReleaseByHand, EndByHand
<1>3. QED
  BY <1>1, <1>2 DEF LedgerTypeOK, FillByHand, ReleaseByHand, EndByHand, ByHand, AskIsReal

LEMMA RestartType == ASSUME LedgerTypeOK, RestartLedger PROVE LedgerTypeOK'
<1>1. stock' \in [Rows -> Nat]
  BY DEF LedgerTypeOK, RestartLedger
<1>2. movements' \in [MovementIds -> MovementStates]
  BY UnbornType DEF RestartLedger
<1>3. QED
  BY <1>1, <1>2, EmptyAmounts, FS_EmptySet DEF LedgerTypeOK, RestartLedger, AskIsReal

LEMMA LedgerTypeNext == LedgerTypeOK /\ [LedgerNext]_ledgerVars => LedgerTypeOK'
<1> SUFFICES ASSUME LedgerTypeOK, [LedgerNext]_ledgerVars PROVE LedgerTypeOK'
  OBVIOUS
<1>1. CASE Refuse
  BY <1>1 DEF LedgerTypeOK, Refuse, AskIsReal
<1>2. CASE UNCHANGED ledgerVars
  BY <1>2 DEF LedgerTypeOK, ledgerVars, AskIsReal
<1>3. QED
  BY <1>1, <1>2, LookType, AskedType, ClaimType, HoldOrdersType, TransitionType, SettleType, PutType,
     HoldByHandType, EndByHandType, RestartType DEF LedgerNext

-----------------------------------------------------------------------------
(* What is kept as reserved is what the active movements claim. *)

OwedBy(moves, k) ==
  [m \in MovementIds |-> IF moves[m].status \in Active THEN ClaimedOf(moves[m].claims, k) ELSE 0]

\* A movement that left Completed takes its claims away a second time when it ends.
Balanced == reopened = {} => \A k \in Keys : At(reserved, k) = Owed(k)

LedgerInv == LedgerTypeOK /\ Balanced

LEMMA OwedIsSum ==
  ASSUME NEW moves \in [MovementIds -> MovementStates], NEW k
  PROVE  /\ \A m \in MovementIds : OwedBy(moves, k)[m] \in Nat
         /\ \A m \in MovementIds : OwedBy(moves, k)[m] <= SumFunctionOnSet(OwedBy(moves, k), MovementIds)
         /\ SumFunctionOnSet(OwedBy(moves, k), MovementIds) \in Nat
<1>1. ASSUME NEW m \in MovementIds PROVE OwedBy(moves, k)[m] \in Nat
  <2>0. moves[m].claims \in Seq(GoodClaims)
    BY DEF MovementStates
  <2>1. moves[m].claims \in Seq(ResolvedClaims)
    BY <2>0 DEF GoodClaims
  <2>2. ClaimedOf(moves[m].claims, k) \in Nat
    BY <2>1, ClaimedIsSum
  <2>3. QED
    BY <2>2 DEF OwedBy
<1>2. QED
  BY <1>1, KeysAreFinite, SumOfNaturals

LEMMA OwedIs ==
  ASSUME NEW k
  PROVE  /\ Owed(k) = SumFunctionOnSet(OwedBy(movements, k), MovementIds)
         /\ Owed(k)' = SumFunctionOnSet(OwedBy(movements', k), MovementIds)
BY DEF Owed, OwedBy, SumFunction, IsActive

\* What is owed when one movement goes from one state to another.
LEMMA OwedChangesAt ==
  ASSUME LedgerTypeOK, LedgerTypeOK', NEW m \in MovementIds,
         \A n \in MovementIds \ {m} : movements'[n] = movements[n], NEW k
  PROVE  /\ Owed(k)' = Owed(k) - OwedBy(movements, k)[m] + OwedBy(movements', k)[m]
         /\ Owed(k) \in Nat /\ OwedBy(movements, k)[m] \in Nat /\ OwedBy(movements', k)[m] \in Nat
         /\ OwedBy(movements, k)[m] <= Owed(k)
<1>1. movements \in [MovementIds -> MovementStates] /\ movements' \in [MovementIds -> MovementStates]
  BY DEF LedgerTypeOK
<1>2. PICK f, g : f = OwedBy(movements, k) /\ g = OwedBy(movements', k)
  OBVIOUS
<1>3. \A n \in MovementIds : f[n] \in Nat /\ f[n] <= SumFunctionOnSet(f, MovementIds)
  BY <1>1, <1>2, OwedIsSum
<1>4. \A n \in MovementIds : g[n] \in Nat
  BY <1>1, <1>2, OwedIsSum
<1>5. \A n \in MovementIds \ {m} : g[n] = f[n]
  BY <1>2 DEF OwedBy
<1>6. \A n \in MovementIds : f[n] \in Int /\ g[n] \in Int
  BY <1>3, <1>4
<1>7. SumFunctionOnSet(g, MovementIds) = SumFunctionOnSet(f, MovementIds) - f[m] + g[m]
  BY <1>5, <1>6, KeysAreFinite, SumChangesAt
<1>8. SumFunctionOnSet(f, MovementIds) \in Nat
  BY <1>1, <1>2, OwedIsSum
<1>9. QED
  BY <1>2, <1>3, <1>4, <1>7, <1>8, OwedIs

LEMMA BalancedInit == LedgerInit => Balanced
<1> SUFFICES ASSUME LedgerInit, NEW k \in Keys PROVE At(reserved, k) = Owed(k)
  BY DEF Balanced
<1>1. At(reserved, k) = 0
  BY EmptyAmounts DEF LedgerInit
<1>2. \A m \in MovementIds : OwedBy(movements, k)[m] = 0
  BY DEF LedgerInit, OwedBy, Unborn, Active
<1>3. QED
  BY <1>1, <1>2, OwedIs, KeysAreFinite, SumOfNothing

\* A movement that is granted adds its claims on both sides.
LEMMA ClaimBalances == ASSUME LedgerInv, LedgerTypeOK', Claim PROVE Balanced'
<1> SUFFICES ASSUME reopened' = {}, NEW k \in Keys PROVE At(reserved', k) = Owed(k)'
  BY DEF Balanced
<1>1. LedgerTypeOK /\ At(reserved, k) = Owed(k)
  BY DEF LedgerInv, Balanced, Claim
<1>2. PICK m \in MovementIds \ Born :
        movements' = [movements EXCEPT ![m] =
                        [status |-> "Reserved", claims |-> ask.claims, uses |-> ask.uses]]
  BY DEF Claim
<1>3. movements[m].status = "Unborn"
  BY DEF Born
<1>4. /\ movements'[m] = [status |-> "Reserved", claims |-> ask.claims, uses |-> ask.uses]
      /\ \A n \in MovementIds \ {m} : movements'[n] = movements[n]
  BY <1>1, <1>2 DEF LedgerTypeOK
<1>5. OwedBy(movements, k)[m] = 0 /\ OwedBy(movements', k)[m] = ClaimedOf(ask.claims, k)
  BY <1>3, <1>4 DEF OwedBy, Active
<1>6. ask.claims \in Seq(ResolvedClaims)
  BY <1>1, AskType DEF Claim
<1>7. At(reserved', k) = At(reserved, k) + ClaimedOf(ask.claims, k)
  BY <1>1, <1>6, TakenType DEF Claim
<1>8. Owed(k)' = Owed(k) - OwedBy(movements, k)[m] + OwedBy(movements', k)[m] /\ Owed(k) \in Nat
  BY <1>1, <1>4, OwedChangesAt
<1>9. ClaimedOf(ask.claims, k) \in Nat
  BY <1>6, ClaimedIsSum
<1>10. QED
  BY <1>1, <1>5, <1>7, <1>8, <1>9

\* A movement that stops being active takes its claims away on both sides.
LEMMA StatusBalances ==
  ASSUME LedgerInv, LedgerTypeOK', NEW m \in MovementIds, NEW to \in Statuses,
         movements' = [movements EXCEPT ![m].status = to], reserved' = Freed(m, to),
         reopened' = {} => reopened = {} /\ (IsActive(m) \/ to \notin Active)
  PROVE  Balanced'
<1> SUFFICES ASSUME reopened' = {} PROVE \A k \in Keys : At(reserved', k) = Owed(k)'
  BY DEF Balanced
<1>1. LedgerTypeOK /\ \A k \in Keys : At(reserved, k) = Owed(k)
  BY DEF LedgerInv, Balanced
<1>2. /\ movements'[m].status = to
      /\ movements'[m].claims = movements[m].claims
      /\ \A n \in MovementIds \ {m} : movements'[n] = movements[n]
  BY <1>1, StatusType
<1>3. \A k : /\ Owed(k)' = Owed(k) - OwedBy(movements, k)[m] + OwedBy(movements', k)[m]
             /\ Owed(k) \in Nat /\ OwedBy(movements, k)[m] \in Nat /\ OwedBy(movements', k)[m] \in Nat
             /\ OwedBy(movements, k)[m] <= Owed(k)
  BY <1>1, <1>2, OwedChangesAt
<1>4. CASE IsActive(m) /\ to \notin Active
  <2>1. reserved' = Remaining(reserved, movements[m].claims)
    BY <1>4, FreedIs
  <2>2. \A k : /\ OwedBy(movements, k)[m] = ClaimedOf(movements[m].claims, k)
               /\ OwedBy(movements', k)[m] = 0
    BY <1>2, <1>4 DEF OwedBy, IsActive
  <2>3. \A k \in Keys : At(reserved, k) >= ClaimedOf(movements[m].claims, k)
    BY <1>1, <1>3, <2>2
  <2>4. \A k \in Keys : At(reserved', k) = At(reserved, k) - ClaimedOf(movements[m].claims, k)
    <3>1. movements[m].claims \in Seq(GoodClaims) /\ reserved \in Amounts
      BY <1>1, MovementType DEF LedgerTypeOK
    <3>2. QED
      BY <2>1, <2>3, <3>1, FoldTakes
  <2>5. ASSUME NEW k \in Keys PROVE At(reserved', k) = Owed(k)'
    <3>1. PICK a, b, c : a = Owed(k) /\ b = ClaimedOf(movements[m].claims, k) /\ c = Owed(k)'
      OBVIOUS
    <3>2. c = a - b + 0 /\ a \in Nat /\ b \in Nat
      BY <1>3, <2>2, <3>1
    <3>3. At(reserved', k) = a - b
      BY <1>1, <2>4, <3>1
    <3>4. QED
      BY <3>1, <3>2, <3>3
  <2>6. QED
    BY <2>5
<1>5. CASE ~(IsActive(m) /\ to \notin Active)
  <2>1. reserved' = reserved
    BY <1>5, FreedIs
  <2>2. \A k : OwedBy(movements', k)[m] = OwedBy(movements, k)[m]
    <3>1. movements'[m].status \in Active <=> movements[m].status \in Active
      BY <1>2, <1>5 DEF IsActive
    <3>2. QED
      BY <1>2, <3>1 DEF OwedBy
  <2>3. ASSUME NEW k \in Keys PROVE At(reserved', k) = Owed(k)'
    <3>1. PICK a, b, c : a = Owed(k) /\ b = OwedBy(movements, k)[m] /\ c = Owed(k)'
      OBVIOUS
    <3>2. c = a - b + b /\ a \in Nat /\ b \in Nat
      BY <1>3, <2>2, <3>1
    <3>3. At(reserved', k) = a
      BY <1>1, <2>1, <3>1
    <3>4. QED
      BY <3>1, <3>2, <3>3
  <2>4. QED
    BY <2>3
<1>6. QED
  BY <1>4, <1>5

LEMMA NothingBalances ==
  ASSUME LedgerInv, UNCHANGED <<reserved, movements, reopened>> PROVE Balanced'
<1>1. \A k : Owed(k)' = Owed(k)
  BY OwedIs
<1>2. QED
  BY <1>1 DEF LedgerInv, Balanced

LEMMA RestartBalances == ASSUME LedgerInv, RestartLedger PROVE Balanced'
<1> SUFFICES ASSUME NEW k \in Keys PROVE At(reserved', k) = Owed(k)'
  BY DEF Balanced
<1>1. At(reserved', k) = 0
  BY EmptyAmounts DEF RestartLedger
<1>2. \A m \in MovementIds : OwedBy(movements', k)[m] = 0
  BY DEF RestartLedger, OwedBy, Unborn, Active
<1>3. QED
  BY <1>1, <1>2, OwedIs, KeysAreFinite, SumOfNothing

LEMMA LedgerInvInit == LedgerInit => LedgerInv
BY LedgerTypeInit, BalancedInit DEF LedgerInv

LEMMA LedgerInvNext == LedgerInv /\ [LedgerNext]_ledgerVars => LedgerInv'
<1> SUFFICES ASSUME LedgerInv, [LedgerNext]_ledgerVars PROVE LedgerInv'
  OBVIOUS
<1>1. LedgerTypeOK /\ LedgerTypeOK'
  BY LedgerTypeNext DEF LedgerInv
<1>2. ASSUME NEW s \in Sights, Look(s) PROVE Balanced'
  BY <1>2, NothingBalances DEF Look
<1>3. ASSUME NEW a \in Asks, Asked(a) PROVE Balanced'
  BY <1>3, NothingBalances DEF Asked
<1>4. ASSUME Refuse PROVE Balanced'
  BY <1>4, NothingBalances DEF Refuse
<1>5. ASSUME HoldOrders PROVE Balanced'
  <2>1. CASE UNCHANGED <<movements, reserved>>
    BY <1>5, <2>1, NothingBalances DEF HoldOrders
  <2>2. CASE /\ movements' = [movements EXCEPT ![ask.movement].status = "Released"]
             /\ reserved' = Freed(ask.movement, "Released")
    <3>1. ask.movement \in MovementIds
      BY <1>1, <1>5, AskType, KeysAreFinite DEF HoldOrders
    <3>2. reopened' = reopened /\ "Released" \in Statuses /\ "Released" \notin Active
      BY <1>5 DEF HoldOrders, Statuses, Active
    <3>3. QED
      BY <1>1, <2>2, <3>1, <3>2, StatusBalances
  <2>3. QED
    BY <1>5, <2>1, <2>2 DEF HoldOrders
<1>6. ASSUME NEW m \in MovementIds, NEW to \in Active \cup {"Completed", "Failed", "Released"}, Transition(m, to)
      PROVE  Balanced'
  <2>1. movements' = [movements EXCEPT ![m].status = to] /\ reserved' = Freed(m, to) /\ to \in Statuses
    BY <1>6 DEF Transition, Statuses
  <2>2. reopened' = {} => reopened = {} /\ movements[m].status # "Completed"
    BY <1>6 DEF Transition
  <2>3. movements[m].status # "Completed" => IsActive(m) \/ to \notin Active
    BY <1>6 DEF Transition, Allowed, IsActive, Active
  <2>4. QED
    BY <1>1, <2>1, <2>2, <2>3, StatusBalances
<1>7. ASSUME NEW t \in settling, Settle(t) PROVE Balanced'
  BY <1>7, NothingBalances DEF Settle
<1>8. ASSUME NEW b \in Books, Put(b) PROVE Balanced'
  BY <1>8, NothingBalances DEF Put, ByHand
<1>9. ASSUME NEW a \in Asks, HoldByHand(a.uses) PROVE Balanced'
  BY <1>9, NothingBalances DEF HoldByHand, ByHand
<1>10. ASSUME NEW o \in OrderIds, FillByHand(o) \/ ReleaseByHand(o) PROVE Balanced'
  BY <1>10, NothingBalances DEF FillByHand, ReleaseByHand, EndByHand, ByHand
<1>11. ASSUME UNCHANGED ledgerVars PROVE Balanced'
  BY <1>11, NothingBalances DEF ledgerVars
<1>12. Balanced'
  BY <1>1, <1>2, <1>3, <1>4, <1>5, <1>6, <1>7, <1>8, <1>9, <1>10, <1>11, ClaimBalances, RestartBalances
     DEF LedgerNext
<1>13. QED
  BY <1>1, <1>12 DEF LedgerInv

-----------------------------------------------------------------------------
(* Nothing is promised twice. *)

\* Only a reservation that is granted brings a movement into the world.
LEMMA BornByClaim ==
  ASSUME LedgerTypeOK, [LedgerNext]_ledgerVars, NEW m \in MovementIds, movements[m].status = "Unborn",
         movements'[m].status = "Reserved"
  PROVE  Claim
<1>1. UNCHANGED movements => FALSE
  OBVIOUS
<1>2. ASSUME NEW n \in MovementIds, NEW to \in Active \cup {"Completed", "Failed", "Released"}, Transition(n, to)
      PROVE  FALSE
  <2>1. n # m
    BY <1>2 DEF Transition, Allowed
  <2>2. movements'[m] = movements[m]
    BY <1>2, <2>1, StatusType DEF Transition, Statuses
  <2>3. QED
    BY <2>2
<1>3. ASSUME HoldOrders PROVE FALSE
  <2>1. ask.movement \in MovementIds
    BY <1>3, AskType, KeysAreFinite DEF HoldOrders
  <2>2. movements' = [movements EXCEPT ![ask.movement].status = "Released"]
    BY <1>1, <1>3 DEF HoldOrders
  <2>3. movements'[m].status = "Released" \/ movements'[m] = movements[m]
    BY <2>1, <2>2, StatusType DEF Statuses
  <2>4. QED
    BY <2>3
<1>4. ASSUME RestartLedger PROVE FALSE
  BY <1>4 DEF RestartLedger, Unborn
<1>5. QED
  BY <1>1, <1>2, <1>3, <1>4 DEF LedgerNext, Look, Asked, Refuse, Settle, Put, HoldByHand, FillByHand, ReleaseByHand,
     EndByHand, ByHand, ledgerVars

LEMMA LeastIsLeast ==
  ASSUME NEW S, IsFiniteSet(S), S \subseteq Int, NEW x \in S PROVE Min(S) \in Int /\ Min(S) <= x
<1> DEFINE f == [y \in S |-> y]
<1>1. \A y \in S : f[y] \in Int
  OBVIOUS
<1>2. \E y \in S : \A z \in S : f[y] <= f[z]
  BY <1>1, Extremes
<1>3. \E y \in S : \A z \in S : y =< z
  BY <1>2
<1>4. Min(S) \in S /\ \A z \in S : Min(S) =< z
  BY <1>3 DEF Min
<1>5. QED
  BY <1>4

LEMMA GrantedOnce ==
  ASSUME LedgerInv, LedgerInv', Claim, reopened = {}, NEW k \in Keys, NEW i \in DOMAIN ask.claims,
         ask.claims[i].key = k
  PROVE  Owed(k)' <= ask.claims[i].observed
<1> DEFINE Same == {j \in DOMAIN ask.claims : ask.claims[j].key = k}
           Seen == {ask.claims[j].observed : j \in Same}
<1>1. LedgerTypeOK /\ ask # NoAsk /\ ClaimsFit /\ reopened' = {}
  BY DEF LedgerInv, Claim, Granted
<1>2. ask.claims \in Seq(ResolvedClaims) /\ IsFiniteSet(DOMAIN ask.claims)
  BY <1>1, AskType, ClaimedIsSum
<1>3. \A j \in DOMAIN ask.claims : ask.claims[j].observed \in Int
  <2>1. \A j \in DOMAIN ask.claims : ask.claims[j] \in ResolvedClaims
    BY <1>2
  <2>2. QED
    BY <2>1 DEF ResolvedClaims
<1>4. IsFiniteSet(Seen) /\ Seen \subseteq Int /\ ask.claims[i].observed \in Seen
  <2> DEFINE f == [j \in Same |-> ask.claims[j].observed]
  <2>1. IsFiniteSet(Same)
    BY <1>2, FS_Subset
  <2>2. IsFiniteSet({f[j] : j \in Same})
    BY <2>1, ImageIsFinite
  <2>3. {f[j] : j \in Same} = Seen
    OBVIOUS
  <2>4. QED
    BY <1>3, <2>2, <2>3
<1>5. Min(Seen) \in Int /\ Min(Seen) <= ask.claims[i].observed
  BY <1>4, LeastIsLeast
<1>6. Min(Seen) - ReservedAt(k) >= ClaimedOf(ask.claims, k)
  BY <1>1 DEF ClaimsFit
<1>7. At(reserved', k) = ReservedAt(k) + ClaimedOf(ask.claims, k)
  BY <1>1, <1>2, TakenType DEF Claim, At, ReservedAt
<1>8. Owed(k)' = At(reserved', k)
  BY <1>1 DEF LedgerInv, Balanced
<1>9. ReservedAt(k) \in Int /\ ClaimedOf(ask.claims, k) \in Nat
  BY <1>1, <1>2, ClaimedIsSum DEF ReservedAt, LedgerTypeOK, Amounts
<1>10. PICK a, b, c, d : a = Min(Seen) /\ b = ReservedAt(k) /\ c = ClaimedOf(ask.claims, k) /\ d = ask.claims[i].observed
  OBVIOUS
<1>11. a \in Int /\ b \in Int /\ c \in Int /\ d \in Int /\ a <= d /\ a - b >= c
  BY <1>3, <1>5, <1>6, <1>9, <1>10
<1>12. b + c <= d
  BY <1>11
<1>13. QED
  BY <1>7, <1>8, <1>10, <1>12

LEMMA LedgerInvariant == LedgerSpec => []LedgerInv
<1>1. LedgerInit => LedgerInv
  BY LedgerInvInit
<1>2. LedgerInv /\ [LedgerNext]_ledgerVars => LedgerInv'
  BY LedgerInvNext
<1>3. QED
  BY <1>1, <1>2, PTL DEF LedgerSpec

\* Nothing is promised twice on one key, whatever ended, failed or was reconciled
\* before, for any numbers of rows, movements, claims and orders.
THEOREM NothingIsPromisedTwice == LedgerSpec => StockPromisedOnce
<1> DEFINE Promised ==
      \A m \in MovementIds :
        movements[m].status = "Unborn" /\ movements'[m].status = "Reserved" /\ reopened = {} =>
          \A k \in Keys, i \in DOMAIN ask.claims :
            ask.claims[i].key = k => Owed(k)' <= ask.claims[i].observed
<1>1. LedgerInv /\ LedgerInv' /\ [LedgerNext]_ledgerVars => Promised
  <2> SUFFICES ASSUME LedgerInv, LedgerInv', [LedgerNext]_ledgerVars, NEW m \in MovementIds,
                      movements[m].status = "Unborn", movements'[m].status = "Reserved", reopened = {},
                      NEW k \in Keys, NEW i \in DOMAIN ask.claims, ask.claims[i].key = k
               PROVE  Owed(k)' <= ask.claims[i].observed
    OBVIOUS
  <2>1. Claim
    BY BornByClaim DEF LedgerInv
  <2>2. QED
    BY <2>1, GrantedOnce
<1>2. QED
  BY <1>1, LedgerInvariant, PTL DEF LedgerSpec, StockPromisedOnce

-----------------------------------------------------------------------------
(* What is shown of a book adds up. *)

\* The claims of a movement on a kind, claim by claim and key by key.
OfKind(claims, kind) == [i \in DOMAIN claims |-> IF claims[i].kind = kind THEN claims[i].quantity ELSE 0]
KeysOf(kind) == {k \in Keys : k.kind = kind}

LEMMA ClaimsByKey ==
  ASSUME NEW claims \in Seq(GoodClaims), NEW kind
  PROVE  /\ SumFunctionOnSet([k \in KeysOf(kind) |-> ClaimedOf(claims, k)], KeysOf(kind))
              = SumFunctionOnSet(OfKind(claims, kind), DOMAIN claims)
         /\ SumFunctionOnSet(OfKind(claims, kind), DOMAIN claims) \in Nat
<1> DEFINE I == DOMAIN claims
           K == KeysOf(kind)
           A == [i \in I |-> [k \in K |-> Claimed(claims, k)[i]]]
<1>1. claims \in Seq(ResolvedClaims) /\ \A i \in I : claims[i] \in GoodClaims
  BY DEF GoodClaims
<1>2. IsFiniteSet(I) /\ \A k : \A i \in I : Claimed(claims, k)[i] \in Nat
  BY <1>1, ClaimedIsSum
<1>3. IsFiniteSet(K)
  BY KeysAreFinite, FS_Subset DEF KeysOf
<1>4. \A i \in I : \A k \in K : A[i][k] = Claimed(claims, k)[i] /\ A[i][k] \in Int
  BY <1>2
<1>5. ASSUME NEW i \in I
      PROVE  /\ SumFunctionOnSet(A[i], K) = OfKind(claims, kind)[i]
             /\ OfKind(claims, kind)[i] \in Nat
  <2> DEFINE c == claims[i]
  <2>1. c \in GoodClaims /\ c.quantity \in Int /\ c.quantity > 0 /\ c.key \in Keys /\ c.key.kind = c.kind
    BY <1>1 DEF GoodClaims, ResolvedClaims
  <2>2. OfKind(claims, kind)[i] = IF c.kind = kind THEN c.quantity ELSE 0
    BY DEF OfKind
  <2>3. \A k \in K : A[i][k] = IF c.key = k THEN c.quantity ELSE 0
    BY <1>4, <2>1 DEF Claimed, Positive
  <2>4. CASE c.kind = kind
    <3>1. c.key \in K
      BY <2>1, <2>4 DEF KeysOf
    <3>2. A[i][c.key] = c.quantity /\ \A k \in K \ {c.key} : A[i][k] = 0
      BY <2>3, <3>1
    <3>3. SumFunctionOnSet(A[i], K) = A[i][c.key]
      BY <1>3, <2>1, <3>1, <3>2, SumOfOne
    <3>4. QED
      BY <2>1, <2>2, <2>4, <3>2, <3>3
  <2>5. CASE c.kind # kind
    <3>1. \A k \in K : A[i][k] = 0
      BY <2>1, <2>3, <2>5 DEF KeysOf
    <3>2. SumFunctionOnSet(A[i], K) = 0
      BY <1>3, <3>1, SumOfNothing
    <3>3. QED
      BY <2>2, <2>5, <3>2
  <2>6. QED
    BY <2>4, <2>5
<1>6. ASSUME NEW k \in K PROVE SumFunctionOnSet([i \in I |-> A[i][k]], I) = ClaimedOf(claims, k)
  <2>1. \A i \in I : [j \in I |-> A[j][k]][i] = Claimed(claims, k)[i]
    BY <1>4
  <2>2. SumFunctionOnSet([i \in I |-> A[i][k]], I) = SumFunctionOnSet(Claimed(claims, k), I)
    BY <1>2, <2>1, SumSame
  <2>3. QED
    BY <1>1, <2>2, ClaimedIsSum
<1> HIDE DEF A
<1>7. SumFunctionOnSet([i \in I |-> SumFunctionOnSet(A[i], K)], I)
        = SumFunctionOnSet([k \in K |-> SumFunctionOnSet([i \in I |-> A[i][k]], I)], K)
  BY <1>2, <1>3, <1>4, SumSwap
<1>8. SumFunctionOnSet([i \in I |-> SumFunctionOnSet(A[i], K)], I) = SumFunctionOnSet(OfKind(claims, kind), I)
  BY <1>2, <1>5, SumSame
<1>9. SumFunctionOnSet([k \in K |-> SumFunctionOnSet([i \in I |-> A[i][k]], I)], K)
        = SumFunctionOnSet([k \in K |-> ClaimedOf(claims, k)], K)
  BY <1>3, <1>6, SumSame
<1>10. SumFunctionOnSet(OfKind(claims, kind), I) \in Nat
  BY <1>2, <1>5, SumOfNaturals
<1>11. QED
  BY <1>7, <1>8, <1>9, <1>10

Wanted(kind) == [m \in MovementIds |-> ClaimedKind(m, kind)]

\* What is reserved of a kind is what the active movements claim of it.
LEMMA ReservedByClaims ==
  ASSUME LedgerInv, reopened = {}, NEW kind, kind # "cargo"
  PROVE  /\ ReservedFor(kind) = SumFunctionOnSet(Wanted(kind), MovementIds)
         /\ ReservedFor(kind) \in Nat
         /\ \A m \in MovementIds : Wanted(kind)[m] \in Nat
<1> DEFINE K == KeysOf(kind)
           B == [m \in MovementIds |-> [k \in K |-> OwedBy(movements, k)[m]]]
           R == [k \in K |-> ReservedAt(k)]
<1>1. LedgerTypeOK /\ movements \in [MovementIds -> MovementStates]
  BY DEF LedgerInv, LedgerTypeOK
<1>2. IsFiniteSet(K) /\ IsFiniteSet(MovementIds)
  BY KeysAreFinite, FS_Subset DEF KeysOf
<1>3. \A m \in MovementIds : \A k \in K : B[m][k] = OwedBy(movements, k)[m] /\ B[m][k] \in Int
  BY <1>1, OwedIsSum
<1>4. ReservedFor(kind) = SumFunctionOnSet(R, K)
  <2>1. {k \in Keys : k.kind = kind /\ (k.lot = 0 \/ kind # "cargo")} = K
    BY DEF KeysOf
  <2>2. QED
    BY <2>1 DEF ReservedFor, SumFunction
<1>5. ASSUME NEW k \in K PROVE SumFunctionOnSet([m \in MovementIds |-> B[m][k]], MovementIds) = R[k]
  <2>1. k \in Keys
    BY DEF KeysOf
  <2>2. R[k] = Owed(k)
    BY <2>1 DEF LedgerInv, Balanced, At, ReservedAt
  <2>3. \A m \in MovementIds : [n \in MovementIds |-> B[n][k]][m] = OwedBy(movements, k)[m]
    BY <1>3
  <2>4. SumFunctionOnSet([m \in MovementIds |-> B[m][k]], MovementIds)
          = SumFunctionOnSet(OwedBy(movements, k), MovementIds)
    BY <1>2, <2>3, SumSame
  <2>5. QED
    BY <2>2, <2>4, OwedIs
<1>6. ASSUME NEW m \in MovementIds
      PROVE  SumFunctionOnSet(B[m], K) = Wanted(kind)[m] /\ Wanted(kind)[m] \in Nat
  <2> DEFINE claims == movements[m].claims
  <2>0. claims \in Seq(GoodClaims)
    BY <1>1, MovementType
  <2>1. Wanted(kind)[m] = ClaimedKind(m, kind)
    BY DEF Wanted
  <2>2. CASE IsActive(m)
    <3>1. \A k \in K : B[m][k] = [q \in K |-> ClaimedOf(claims, q)][k]
      BY <1>3, <2>2 DEF OwedBy, IsActive
    <3>2. SumFunctionOnSet(B[m], K) = SumFunctionOnSet([q \in K |-> ClaimedOf(claims, q)], K)
      BY <1>2, <3>1, SumSame
    <3>3. ClaimedKind(m, kind) = SumFunctionOnSet(OfKind(claims, kind), DOMAIN claims)
      BY <2>2 DEF ClaimedKind, OfKind, SumFunction
    <3>4. QED
      BY <2>0, <2>1, <3>2, <3>3, ClaimsByKey
  <2>3. CASE ~IsActive(m)
    <3>1. \A k \in K : B[m][k] = 0
      BY <1>3, <2>3 DEF OwedBy, IsActive
    <3>2. SumFunctionOnSet(B[m], K) = 0
      BY <1>2, <3>1, SumOfNothing
    <3>3. ClaimedKind(m, kind) = 0
      BY <2>3 DEF ClaimedKind
    <3>4. QED
      BY <2>1, <3>2, <3>3
  <2>4. QED
    BY <2>2, <2>3
<1>7. SumFunctionOnSet([m \in MovementIds |-> SumFunctionOnSet(B[m], K)], MovementIds)
        = SumFunctionOnSet([k \in K |-> SumFunctionOnSet([m \in MovementIds |-> B[m][k]], MovementIds)], K)
  <2> HIDE DEF B
  <2>1. QED
    BY <1>2, <1>3, SumSwap
<1> HIDE DEF B
<1>8. SumFunctionOnSet([m \in MovementIds |-> SumFunctionOnSet(B[m], K)], MovementIds)
        = SumFunctionOnSet(Wanted(kind), MovementIds)
  BY <1>2, <1>6, SumSame
<1>9. SumFunctionOnSet([k \in K |-> SumFunctionOnSet([m \in MovementIds |-> B[m][k]], MovementIds)], K)
        = SumFunctionOnSet(R, K)
  BY <1>2, <1>5, SumSame
<1>10. SumFunctionOnSet(Wanted(kind), MovementIds) \in Nat
  BY <1>2, <1>6, SumOfNaturals
<1>11. QED
  BY <1>4, <1>6, <1>7, <1>8, <1>9, <1>10

RowsOf(kind) == {r \in Rows : r.kind = kind}
Rank(kind) == [r \in RowsOf(kind) |-> IF kind = "market" THEN r.level ELSE 0 - r.level]

\* The rows of a book are ranked by their price.
LEMMA RowsRanked ==
  ASSUME NEW kind \in {"market", "market_bid"}
  PROVE  /\ IsFiniteSet(RowsOf(kind))
         /\ \A r \in RowsOf(kind) : Rank(kind)[r] \in Int
         /\ \A r, q \in RowsOf(kind) : Rank(kind)[r] = Rank(kind)[q] => r = q
         /\ \A r, q \in RowsOf(kind) : Better(r, q) <=> Rank(kind)[r] < Rank(kind)[q]
         /\ \A r \in RowsOf(kind) : {q \in Rows : q.kind = r.kind /\ Better(q, r)} = Earlier(Rank(kind), RowsOf(kind), r)
<1>1. IsFiniteSet(RowsOf(kind))
  BY KeysAreFinite, FS_Subset DEF RowsOf
<1>2. \A r \in RowsOf(kind) : r.kind = kind /\ r.level \in Int /\ r = [kind |-> kind, level |-> r.level]
  <2> SUFFICES ASSUME NEW r \in RowsOf(kind)
               PROVE  r.kind = kind /\ r.level \in Int /\ r = [kind |-> kind, level |-> r.level]
    OBVIOUS
  <2>1. r \in [kind : STRING, level : Nat \ {0}] /\ r.kind = kind
    BY LedgerAssumption DEF RowsOf
  <2>2. QED
    BY <2>1
<1>3. \A r \in RowsOf(kind) : Rank(kind)[r] = IF kind = "market" THEN r.level ELSE 0 - r.level
  BY DEF Rank
<1>4. \A r \in RowsOf(kind) : Rank(kind)[r] \in Int
  BY <1>2, <1>3
<1>5. ASSUME NEW r \in RowsOf(kind), NEW q \in RowsOf(kind), Rank(kind)[r] = Rank(kind)[q] PROVE r = q
  <2>1. r.level = q.level
    BY <1>2, <1>3, <1>5
  <2>2. QED
    BY <1>2, <2>1
<1>6. ASSUME NEW r \in RowsOf(kind), NEW q \in RowsOf(kind)
      PROVE  Better(r, q) <=> Rank(kind)[r] < Rank(kind)[q]
  <2>1. r.kind = kind /\ r.level \in Int /\ q.level \in Int
    BY <1>2
  <2>2. CASE kind = "market"
    BY <1>3, <2>1, <2>2 DEF Better
  <2>3. CASE kind = "market_bid"
    BY <1>3, <2>1, <2>3 DEF Better
  <2>4. QED
    BY <2>2, <2>3
<1>7. ASSUME NEW r \in RowsOf(kind)
      PROVE  {q \in Rows : q.kind = r.kind /\ Better(q, r)} = Earlier(Rank(kind), RowsOf(kind), r)
  <2>1. \A q : q \in RowsOf(kind) <=> q \in Rows /\ q.kind = r.kind
    BY <1>2 DEF RowsOf
  <2>2. QED
    BY <1>6, <2>1 DEF Earlier
<1>8. QED
  BY <1>1, <1>4, <1>5, <1>6, <1>7

LEMMA DepthShown ==
  ASSUME LedgerInv, reopened = {}, NEW kind \in {"market", "market_bid"}
  PROVE  /\ SumFunction([r \in RowsOf(kind) |-> Projected(r)]) + SumFunction([m \in MovementIds |-> Backed(m, kind)])
              = Depth(kind)
         /\ \A r, q \in RowsOf(kind) : Better(r, q) /\ Projected(r) > 0 => Projected(q) = stock[q]
<1> DEFINE S == RowsOf(kind)
           R == ReservedFor(kind)
           D == Depth(kind)
           Shown == [r \in S |-> Projected(r)]
           Hidden == Dealt(stock, Rank(kind), R, S)
           Order == [m \in MovementIds |-> m]
           Granting == Dealt(Wanted(kind), Order, D, MovementIds)
           Supported == [m \in MovementIds |-> Backed(m, kind)]
<1>1. stock \in [Rows -> Nat] /\ S \in SUBSET Rows /\ \A r \in S : stock[r] \in Nat /\ r.kind = kind
  BY DEF LedgerInv, LedgerTypeOK, RowsOf
<1>2. IsFiniteSet(S) /\ IsFiniteSet(MovementIds)
  BY KeysAreFinite, RowsRanked
<1>3. R = SumFunctionOnSet(Wanted(kind), MovementIds) /\ R \in Nat
      /\ \A m \in MovementIds : Wanted(kind)[m] \in Nat
  BY ReservedByClaims
<1>4. D = SumFunctionOnSet(stock, S) /\ D \in Nat
  <2>1. D = SumFunctionOnSet(stock, S)
    BY DEF Depth, RowsOf
  <2>2. QED
    BY <1>1, <1>2, <2>1, SumOfNaturals
<1> DEFINE Ahead(r) == SumFunctionOnSet(stock, Earlier(Rank(kind), S, r))
<1>5. ASSUME NEW r \in S
      PROVE  /\ Ahead(r) \in Nat
             /\ Hidden[r] = Least(stock[r], Positive(R - Ahead(r)))
             /\ Projected(r) = stock[r] - Hidden[r]
             /\ Hidden[r] \in Int
  <2>1. Earlier(Rank(kind), S, r) \in SUBSET S
    BY DEF Earlier
  <2>2. IsFiniteSet(Earlier(Rank(kind), S, r)) /\ \A q \in Earlier(Rank(kind), S, r) : stock[q] \in Nat
    BY <1>1, <1>2, <2>1, FS_Subset
  <2>3. Ahead(r) \in Nat
    BY <2>2, SumOfNaturals
  <2>4. Hidden[r] = Least(stock[r], Positive(R - Ahead(r)))
    BY DEF Dealt
  <2>5. {q \in Rows : q.kind = r.kind /\ Better(q, r)} = Earlier(Rank(kind), S, r)
    BY RowsRanked
  <2>6. Projected(r) = stock[r] - Least(stock[r], Positive(ReservedFor(r.kind) - Ahead(r)))
    BY <2>5 DEF Projected
  <2>7. r.kind = kind
    BY <1>1
  <2>8. Hidden[r] \in Int
    BY <1>1, <1>3, <2>3, <2>4 DEF Least, Positive
  <2>9. QED
    BY <2>3, <2>4, <2>6, <2>7, <2>8
<1>6. SumFunctionOnSet(Hidden, S) = Least(R, D)
  <2>1. \A r \in S : stock[r] \in Nat /\ Rank(kind)[r] \in Int
    BY <1>1, RowsRanked
  <2>2. \A r, q \in S : Rank(kind)[r] = Rank(kind)[q] => r = q
    BY RowsRanked
  <2> HIDE DEF R, D
  <2>3. SumFunctionOnSet(Hidden, S) = Least(R, SumFunctionOnSet(stock, S))
    BY <1>2, <1>3, <2>1, <2>2, AllIsDealt
  <2>4. QED
    BY <1>4, <2>3
<1>7. D = SumFunctionOnSet(Shown, S) + SumFunctionOnSet(Hidden, S)
  <2>1. \A r \in S : Shown[r] = Projected(r)
    OBVIOUS
  <2> HIDE DEF Shown, Hidden, Ahead, D
  <2>2. \A r \in S : Shown[r] \in Int /\ Hidden[r] \in Int /\ stock[r] = Shown[r] + Hidden[r]
    BY <1>1, <1>5, <2>1
  <2>3. SumFunctionOnSet(stock, S) = SumFunctionOnSet(Shown, S) + SumFunctionOnSet(Hidden, S)
    BY <1>2, <2>2, SumOfSums
  <2>4. QED
    BY <1>4, <2>3
<1>8. SumFunctionOnSet(Granting, MovementIds) = Least(D, R)
  <2>1. \A m \in MovementIds : Wanted(kind)[m] \in Nat /\ Order[m] \in Int /\ Order[m] = m
    BY <1>3, KeysAreFinite
  <2>2. \A m, n \in MovementIds : Order[m] = Order[n] => m = n
    BY <2>1
  <2> HIDE DEF R, D, Order
  <2>3. SumFunctionOnSet(Granting, MovementIds) = Least(D, SumFunctionOnSet(Wanted(kind), MovementIds))
    BY <1>2, <1>4, <2>1, <2>2, AllIsDealt
  <2>4. QED
    BY <1>3, <2>3
<1>9. ASSUME NEW m \in MovementIds PROVE Supported[m] = Granting[m]
  <2> DEFINE E == {n \in MovementIds : n < m}
             W == [n \in E |-> ClaimedKind(n, kind)]
  <2>1. Earlier(Order, MovementIds, m) = E
    BY DEF Earlier
  <2>2. SumFunction(W) = SumFunctionOnSet(W, E)
    BY DEF SumFunction
  <2>3. IsFiniteSet(E) /\ \A n \in E : W[n] = Wanted(kind)[n]
    BY <1>2, FS_Subset DEF Wanted
  <2>4. SumFunctionOnSet(W, E) = SumFunctionOnSet(Wanted(kind), E)
    BY <2>3, SumSame
  <2>5. Backed(m, kind) = Least(ClaimedKind(m, kind), Positive(D - SumFunction(W)))
    BY DEF Backed
  <2>6. Granting[m] = Least(Wanted(kind)[m], Positive(D - SumFunctionOnSet(Wanted(kind), E)))
    BY <2>1 DEF Dealt
  <2>7. Wanted(kind)[m] = ClaimedKind(m, kind)
    BY DEF Wanted
  <2>8. QED
    BY <2>2, <2>4, <2>5, <2>6, <2>7
<1>10. SumFunctionOnSet(Supported, MovementIds) = Least(D, R)
  <2> HIDE DEF Supported, Granting
  <2>1. SumFunctionOnSet(Supported, MovementIds) = SumFunctionOnSet(Granting, MovementIds)
    BY <1>2, <1>9, SumSame
  <2>2. QED
    BY <1>8, <2>1
<1>11. SumFunction(Shown) + SumFunction(Supported) = D
  <2>1. SumFunction(Shown) = SumFunctionOnSet(Shown, S) /\ SumFunction(Supported) = SumFunctionOnSet(Supported, MovementIds)
    BY DEF SumFunction
  <2>2. SumFunctionOnSet(Shown, S) \in Int
    <3>1. \A r \in S : Shown[r] = Projected(r)
      OBVIOUS
    <3> HIDE DEF Shown, Hidden, Ahead
    <3>2. \A r \in S : Shown[r] \in Int
      BY <1>1, <1>5, <3>1
    <3>3. QED
      BY <1>2, <3>2, SumType
  <2>3. PICK a, d, r : a = SumFunctionOnSet(Shown, S) /\ d = D /\ r = R
    OBVIOUS
  <2>4. a \in Int /\ d \in Nat /\ r \in Nat /\ d = a + Least(r, d)
    BY <1>3, <1>4, <1>6, <1>7, <2>2, <2>3
  <2>5. a + Least(d, r) = d
    BY <2>4 DEF Least
  <2>6. QED
    BY <1>10, <2>1, <2>3, <2>5
<1>12. ASSUME NEW r \in S, NEW q \in S, Better(r, q), Projected(r) > 0 PROVE Projected(q) = stock[q]
  <2>1. Rank(kind)[r] < Rank(kind)[q] /\ \A p \in S : Rank(kind)[p] \in Int
    BY <1>12, RowsRanked
  <2> DEFINE A == Earlier(Rank(kind), S, r)
             B == Earlier(Rank(kind), S, q)
  <2>2. A \in SUBSET (B \ {r}) /\ r \in B /\ B \in SUBSET S
    BY <2>1 DEF Earlier
  <2> HIDE DEF A, B
  <2>3. IsFiniteSet(B) /\ IsFiniteSet(B \ {r}) /\ \A p \in B : stock[p] \in Nat
    BY <1>1, <1>2, <2>2, FS_Subset
  <2>4. SumFunctionOnSet(stock, B) = stock[r] + SumFunctionOnSet(stock, B \ {r})
    BY <2>2, <2>3, SumOut
  <2>5. SumFunctionOnSet(stock, A) <= SumFunctionOnSet(stock, B \ {r}) /\ SumFunctionOnSet(stock, B \ {r}) \in Nat
    BY <2>2, <2>3, SumOfNaturals
  <2>6. Ahead(r) = SumFunctionOnSet(stock, A) /\ Ahead(q) = SumFunctionOnSet(stock, B)
    BY DEF A, B
  <2>7. PICK a, b, c : a = Ahead(r) /\ b = Ahead(q) /\ c = SumFunctionOnSet(stock, B \ {r})
    OBVIOUS
  <2> HIDE DEF Ahead, Hidden, R
  <2>8. a \in Nat /\ b \in Nat /\ c \in Nat /\ b = stock[r] + c /\ a <= c
        /\ stock[r] \in Nat /\ stock[q] \in Nat /\ R \in Nat
    BY <1>1, <1>3, <1>5, <2>4, <2>5, <2>6, <2>7
  <2>9. stock[r] - Least(stock[r], Positive(R - a)) > 0
    BY <1>5, <1>12, <2>7
  <2>10. Positive(R - b) = 0
    BY <2>8, <2>9 DEF Least, Positive
  <2>11. Projected(q) = stock[q] - Least(stock[q], Positive(R - b))
    BY <1>5, <2>7
  <2>12. QED
    BY <2>8, <2>10, <2>11 DEF Least
<1>13. QED
  BY <1>11, <1>12

\* What clients are shown of a book is what was observed less what is claimed, the best
\* rows first, for any rows, movements and claims.
THEOREM ShownDepthAddsUp == LedgerSpec => []DepthAddsUp
<1>1. LedgerInv => DepthAddsUp
  <2> SUFFICES ASSUME LedgerInv, reopened = {}, NEW kind \in Kinds \cap {"market", "market_bid"}
               PROVE  LET rows == {r \in Rows : r.kind = kind}
                      IN /\ SumFunction([r \in rows |-> Projected(r)])
                              + SumFunction([m \in MovementIds |-> Backed(m, kind)]) = Depth(kind)
                         /\ \A r, q \in rows : Better(r, q) /\ Projected(r) > 0 => Projected(q) = stock[q]
    BY DEF DepthAddsUp
  <2>1. {r \in Rows : r.kind = kind} = RowsOf(kind)
    BY DEF RowsOf
  <2>2. QED
    BY <2>1, DepthShown
<1>2. QED
  BY <1>1, LedgerInvariant, PTL

-----------------------------------------------------------------------------
(* What the orders hold. *)

Pending == ask # NoAsk /\ ask.movement > 0

\* The movements that refer to orders: active, ended and not settled, or being made.
Involved ==
  {m \in MovementIds : IsActive(m) \/ (\E t \in settling : t.movement = m) \/ (Pending /\ ask.movement = m)}

\* Nothing refers to a movement that does not exist, and an active movement has nothing
\* to settle, unless it was reopened.
Trail ==
  /\ \A t \in settling : t.movement \in Born /\ (IsActive(t.movement) => t.movement \in reopened)
  /\ reopened \subseteq Born
  /\ Pending => ask.movement \in Born /\ movements[ask.movement].uses = ask.uses

NotOverruled(o) == o \notin tampered /\ \A m \in reopened : movements[m].uses[o] = 0

\* What movements use is an order of the market: craft orders are not settled.
SidesKnown ==
  \A o \in DOMAIN orders : NotOverruled(o) =>
    \A m \in Involved : movements[m].uses[o] > 0 => orders[o].side \in MarketSides
HeldRight == \A o \in DOMAIN orders : NotOverruled(o) => orders[o].reserved = Expected(o) + byHand[o]

OrdersInv == LedgerTypeOK /\ Trail /\ SidesKnown /\ HeldRight

\* The three parts of what an order should hold.
UsedBy(moves, o) == [m \in MovementIds |-> IF moves[m].status \in Active THEN moves[m].uses[o] ELSE 0]
Used(moves, o) == SumFunctionOnSet(UsedBy(moves, o), MovementIds)
ToSettle(moves, set, o) == SumFunctionOnSet([t \in set |-> moves[t.movement].uses[o]], set)
PendingUse(o) == IF Pending THEN ask.uses[o] ELSE 0

LEMMA ExpectedIs ==
  ASSUME NEW o
  PROVE  /\ Expected(o) = Used(movements, o) - PendingUse(o) + ToSettle(movements, settling, o)
         /\ Expected(o)' = Used(movements', o) - PendingUse(o)' + ToSettle(movements', settling', o)
<1>1. UsedOf(o) = Used(movements, o) /\ UsedOf(o)' = Used(movements', o)
  BY DEF UsedOf, Used, UsedBy, SumFunction, IsActive
<1>2. /\ SumFunction([t \in settling |-> movements[t.movement].uses[o]]) = ToSettle(movements, settling, o)
      /\ SumFunction([t \in settling' |-> movements'[t.movement].uses[o]]) = ToSettle(movements', settling', o)
  BY DEF SumFunction, ToSettle
<1>3. Expected(o) = UsedOf(o) - PendingUse(o) + SumFunction([t \in settling |-> movements[t.movement].uses[o]])
  BY DEF Expected, PendingUse, Pending
<1>4. Expected(o)' = UsedOf(o)' - PendingUse(o)' + SumFunction([t \in settling' |-> movements'[t.movement].uses[o]])
  BY DEF Expected, PendingUse, Pending
<1>5. QED
  BY <1>1, <1>2, <1>3, <1>4

LEMMA UsedType ==
  ASSUME NEW moves \in [MovementIds -> MovementStates], NEW o \in OrderIds
  PROVE  /\ \A m \in MovementIds : UsedBy(moves, o)[m] \in Nat /\ moves[m].uses[o] \in Nat
         /\ \A m \in MovementIds : UsedBy(moves, o)[m] <= Used(moves, o)
         /\ Used(moves, o) \in Nat
<1>1. \A m \in MovementIds : UsedBy(moves, o)[m] \in Nat /\ moves[m].uses[o] \in Nat
  <2> SUFFICES ASSUME NEW m \in MovementIds PROVE UsedBy(moves, o)[m] \in Nat /\ moves[m].uses[o] \in Nat
    OBVIOUS
  <2>1. moves[m].uses \in [OrderIds -> Nat]
    BY DEF MovementStates
  <2>2. QED
    BY <2>1 DEF UsedBy
<1>2. QED
  BY <1>1, KeysAreFinite, SumOfNaturals DEF Used

LEMMA UsedChangesAt ==
  ASSUME NEW moves \in [MovementIds -> MovementStates], NEW after \in [MovementIds -> MovementStates],
         NEW m \in MovementIds, \A n \in MovementIds \ {m} : after[n] = moves[n], NEW o \in OrderIds
  PROVE  Used(after, o) = Used(moves, o) - UsedBy(moves, o)[m] + UsedBy(after, o)[m]
<1>1. PICK f, g : f = UsedBy(moves, o) /\ g = UsedBy(after, o)
  OBVIOUS
<1>2. \A n \in MovementIds : f[n] \in Nat
  BY <1>1, UsedType
<1>3. \A n \in MovementIds : g[n] \in Nat
  BY <1>1, UsedType
<1>4. \A n \in MovementIds \ {m} : g[n] = f[n]
  BY <1>1 DEF UsedBy
<1>5. \A n \in MovementIds : f[n] \in Int /\ g[n] \in Int
  BY <1>2, <1>3
<1>6. SumFunctionOnSet(g, MovementIds) = SumFunctionOnSet(f, MovementIds) - f[m] + g[m]
  BY <1>4, <1>5, KeysAreFinite, SumChangesAt
<1>7. QED
  BY <1>1, <1>6 DEF Used

\* What is to be settled: a natural number, in which every record counts.
LEMMA ToSettleType ==
  ASSUME NEW moves \in [MovementIds -> MovementStates], NEW set \in SUBSET SettlingRecords, IsFiniteSet(set),
         NEW o \in OrderIds
  PROVE  /\ ToSettle(moves, set, o) \in Nat
         /\ \A t \in set : t.movement \in MovementIds /\ moves[t.movement].uses[o] \in Nat
<1> DEFINE f == [t \in set |-> moves[t.movement].uses[o]]
<1>1. \A t \in set : t.movement \in MovementIds /\ moves[t.movement].uses[o] \in Nat
  BY UsedType DEF SettlingRecords
<1>2. \A t \in set : f[t] \in Nat
  BY <1>1
<1>3. SumFunctionOnSet(f, set) \in Nat
  <2> HIDE DEF f
  <2>1. QED
    BY <1>2, SumOfNaturals
<1>4. QED
  BY <1>1, <1>3 DEF ToSettle

LEMMA ToSettleSame ==
  ASSUME NEW moves, NEW after, NEW set, IsFiniteSet(set), NEW o,
         \A t \in set : after[t.movement].uses[o] = moves[t.movement].uses[o]
  PROVE  ToSettle(after, set, o) = ToSettle(moves, set, o)
<1> DEFINE f == [t \in set |-> moves[t.movement].uses[o]]
           g == [t \in set |-> after[t.movement].uses[o]]
<1>1. \A t \in set : g[t] = f[t]
  OBVIOUS
<1> HIDE DEF f, g
<1>2. SumFunctionOnSet(g, set) = SumFunctionOnSet(f, set)
  BY <1>1, SumSame
<1>3. QED
  BY <1>2 DEF ToSettle, f, g

\* A record that is settled no longer counts.
LEMMA ToSettleWithout ==
  ASSUME NEW moves \in [MovementIds -> MovementStates], NEW set \in SUBSET SettlingRecords, IsFiniteSet(set),
         NEW o \in OrderIds, NEW t \in set
  PROVE  ToSettle(moves, set, o) = moves[t.movement].uses[o] + ToSettle(moves, set \ {t}, o)
<1> DEFINE f == [r \in set |-> moves[r.movement].uses[o]]
           g == [r \in set \ {t} |-> moves[r.movement].uses[o]]
<1>1. \A r \in set : f[r] = moves[r.movement].uses[o]
  OBVIOUS
<1>2. \A r \in set \ {t} : g[r] = f[r]
  OBVIOUS
<1> HIDE DEF f, g
<1>3. \A r \in set : f[r] \in Int
  BY <1>1, ToSettleType
<1>4. SumFunctionOnSet(f, set) = f[t] + SumFunctionOnSet(f, set \ {t})
  BY <1>3, SumOut
<1>5. SumFunctionOnSet(g, set \ {t}) = SumFunctionOnSet(f, set \ {t})
  BY <1>2, FS_Subset, SumSame
<1>6. f[t] = moves[t.movement].uses[o]
  BY <1>1
<1>7. QED
  BY <1>4, <1>5, <1>6 DEF ToSettle, f, g

-----------------------------------------------------------------------------
(* The orders, step by step. *)

\* Every step that leaves the movements alone.
LEMMA SameMovements ==
  ASSUME OrdersInv, UNCHANGED <<movements, settling, reopened>>, (Pending' <=> Pending), (Pending => ask' = ask)
  PROVE  /\ Trail'
         /\ \A o : Expected(o)' = Expected(o)
         /\ Involved' = Involved
<1>1. Trail'
  BY DEF OrdersInv, Trail, Born, IsActive
<1>2. ASSUME NEW o PROVE Expected(o)' = Expected(o)
  <2>1. PendingUse(o)' = PendingUse(o)
    BY DEF PendingUse
  <2>2. QED
    BY <2>1, ExpectedIs
<1>3. Involved' = Involved
  BY DEF Involved, IsActive
<1>4. QED
  BY <1>1, <1>2, <1>3

\* Steps that change nothing of the orders but when they are dumped.
LEMMA SameOrders ==
  ASSUME OrdersInv, LedgerTypeOK', UNCHANGED <<movements, settling, reopened, byHand, tampered>>,
         (Pending' <=> Pending), (Pending => ask' = ask), DOMAIN orders' = DOMAIN orders,
         \A o \in DOMAIN orders : orders'[o].reserved = orders[o].reserved /\ orders'[o].side = orders[o].side
  PROVE  OrdersInv'
<1>1. Trail' /\ (\A o : Expected(o)' = Expected(o)) /\ Involved' = Involved
  BY SameMovements
<1>2. \A o : NotOverruled(o)' <=> NotOverruled(o)
  BY DEF NotOverruled
<1>3. SidesKnown'
  BY <1>1, <1>2 DEF OrdersInv, SidesKnown
<1>4. HeldRight'
  BY <1>1, <1>2 DEF OrdersInv, HeldRight
<1>5. QED
  BY <1>1, <1>3, <1>4 DEF OrdersInv

LEMMA OrdersInvInit == LedgerInit => OrdersInv
<1> SUFFICES ASSUME LedgerInit PROVE OrdersInv
  OBVIOUS
<1>1. LedgerTypeOK
  BY LedgerTypeInit
<1>2. ~Pending /\ settling = {} /\ reopened = {} /\ \A m \in MovementIds : ~IsActive(m)
  BY DEF LedgerInit, Pending, IsActive, Unborn, Active
<1>3. Trail
  BY <1>2 DEF Trail
<1>4. Involved = {}
  BY <1>2 DEF Involved
<1>5. ASSUME NEW o \in DOMAIN orders PROVE orders[o].reserved = Expected(o) + byHand[o]
  <2>1. o \in OrderIds /\ orders[o] \in SoundOrders /\ orders[o].reserved \in Int
    BY <1>1, SoundBook, SoundType DEF LedgerTypeOK
  <2>2. byHand[o] = orders[o].reserved
    BY <1>5, <2>1 DEF LedgerInit, HeldIn
  <2>3. PendingUse(o) = 0
    BY <1>2 DEF PendingUse
  <2>4. \A m \in MovementIds : UsedBy(movements, o)[m] = 0
    BY <1>2 DEF UsedBy, IsActive
  <2>5. Used(movements, o) = 0
    BY <2>4, KeysAreFinite, SumOfNothing DEF Used
  <2>6. ToSettle(movements, settling, o) = 0
    BY <1>2, SumEmpty DEF ToSettle
  <2>7. Expected(o) = 0
    BY <2>3, <2>5, <2>6, ExpectedIs
  <2>8. QED
    BY <2>1, <2>2, <2>7
<1>6. QED
  BY <1>1, <1>3, <1>4, <1>5 DEF OrdersInv, SidesKnown, HeldRight

LEMMA LookKeeps == ASSUME OrdersInv, NEW s \in Sights, Look(s) PROVE OrdersInv'
<1>1. LedgerTypeOK /\ LedgerTypeOK'
  BY LookType DEF OrdersInv
<1>2. /\ DOMAIN orders' = DOMAIN orders
      /\ \A o \in DOMAIN orders : orders'[o].reserved = orders[o].reserved /\ orders'[o].side = orders[o].side
  <2>1. orders' = DumpModes(orders, Storage(stock', seen')) /\ orders \in SoundBooks /\ Storage(stock', seen') \in Int
    BY <1>1, StorageType DEF LedgerTypeOK, Look
  <2>2. QED
    BY <2>1, DumpModesSound
<1>3. (Pending' <=> Pending) /\ (Pending => ask' = ask)
  BY DEF Look, Pending
<1>4. QED
  BY <1>1, <1>2, <1>3, SameOrders DEF Look

LEMMA AskedKeeps == ASSUME OrdersInv, NEW a \in Asks, Asked(a) PROVE OrdersInv'
<1>1. LedgerTypeOK'
  BY AskedType DEF OrdersInv
<1>2. ~Pending /\ ~Pending'
  BY DEF Asked, Pending
<1>3. UNCHANGED <<movements, settling, reopened, byHand, tampered, orders>>
  BY DEF Asked
<1>4. QED
  BY <1>1, <1>2, <1>3, SameOrders

LEMMA RefuseKeeps == ASSUME OrdersInv, Refuse PROVE OrdersInv'
<1>1. LedgerTypeOK'
  BY DEF OrdersInv, LedgerTypeOK, Refuse, AskIsReal
<1>2. ~Pending /\ ~Pending'
  BY DEF Refuse, Pending
<1>3. UNCHANGED <<movements, settling, reopened, byHand, tampered, orders>>
  BY DEF Refuse
<1>4. QED
  BY <1>1, <1>2, <1>3, SameOrders

\* An order that nothing uses is expected to hold nothing.
LEMMA NotInUse ==
  ASSUME OrdersInv, NEW o \in OrderIds, o \notin InUse
  PROVE  Expected(o) = 0 /\ \A m \in Involved : movements[m].uses[o] = 0
<1>1. movements \in [MovementIds -> MovementStates] /\ settling \in SUBSET SettlingRecords /\ IsFiniteSet(settling)
  BY DEF OrdersInv, LedgerTypeOK
<1>2. Expected(o) = 0 /\ (Pending => ~(ask.uses[o] > 0)) /\ \A t \in settling : ~(movements[t.movement].uses[o] > 0)
  BY DEF InUse, Pending
<1>3. \A m \in MovementIds : movements[m].uses[o] \in Nat
  BY <1>1, UsedType
<1>4. Pending => ask.movement \in MovementIds /\ ask.uses[o] = 0 /\ movements[ask.movement].uses[o] = 0
  BY <1>2, <1>3 DEF OrdersInv, Trail, Born
<1>5. Used(movements, o) \in Nat /\ ToSettle(movements, settling, o) \in Nat
  BY <1>1, UsedType, ToSettleType
<1>6. Used(movements, o) = 0
  <2>1. PendingUse(o) = 0
    BY <1>4 DEF PendingUse
  <2>2. Used(movements, o) - 0 + ToSettle(movements, settling, o) = 0
    BY <1>2, <2>1, ExpectedIs
  <2>3. QED
    BY <1>5, <2>2
<1>7. ASSUME NEW m \in Involved PROVE movements[m].uses[o] = 0
  <2>1. m \in MovementIds
    BY DEF Involved
  <2>2. CASE IsActive(m)
    <3>1. UsedBy(movements, o)[m] = movements[m].uses[o]
      BY <2>1, <2>2 DEF UsedBy, IsActive
    <3>2. UsedBy(movements, o)[m] <= 0
      BY <1>1, <1>6, <2>1, UsedType
    <3>3. QED
      BY <1>3, <2>1, <3>1, <3>2
  <2>3. CASE \E t \in settling : t.movement = m
    BY <1>2, <1>3, <2>1, <2>3
  <2>4. CASE Pending /\ ask.movement = m
    BY <1>4, <2>4
  <2>5. QED
    BY <2>2, <2>3, <2>4 DEF Involved
<1>8. QED
  BY <1>2, <1>7

LEMMA ExpectedType ==
  ASSUME LedgerTypeOK, Trail, NEW o \in OrderIds PROVE Expected(o) \in Int /\ PendingUse(o) \in Nat
<1>1. Used(movements, o) \in Nat /\ ToSettle(movements, settling, o) \in Nat
  BY UsedType, ToSettleType DEF LedgerTypeOK
<1>2. PendingUse(o) \in Nat
  <2>1. Pending => ask.uses \in [OrderIds -> Nat]
    BY AskType DEF Pending
  <2>2. QED
    BY <2>1 DEF PendingUse
<1>3. QED
  BY <1>1, <1>2, ExpectedIs

LEMMA OpenType == ASSUME LedgerTypeOK, NEW o PROVE Open(o) \in Int
<1>1. CASE o \notin DOMAIN orders
  BY <1>1 DEF Open
<1>2. CASE o \in DOMAIN orders
  <2>1. orders[o] \in SoundOrders
    BY <1>2, SoundBook DEF LedgerTypeOK
  <2>2. PICK d, s : d = orders[o] /\ s = Storage(stock, seen)
    OBVIOUS
  <2>3. d.quantity \in Int /\ d.reserved \in Int /\ d.filled \in Int /\ d.tipping \in Int /\ s \in Int
    BY <2>1, <2>2, SoundType, StorageType DEF LedgerTypeOK
  <2>4. FixedLeft(d) \in Int
    BY <2>3 DEF FixedLeft, Positive
  <2>5. OpenForActor(d, s) \in Int
    BY <2>3, <2>4 DEF OpenForActor, Least, Positive
  <2>6. ReservedFor("faction_storage") \in Int
    <3> DEFINE K == {k \in Keys : k.kind = "faction_storage" /\ (k.lot = 0 \/ "faction_storage" # "cargo")}
               f == [k \in K |-> ReservedAt(k)]
    <3>1. IsFiniteSet(K)
      BY KeysAreFinite, FS_Subset
    <3>2. \A k \in K : f[k] \in Int
      BY DEF ReservedAt, LedgerTypeOK, Amounts
    <3>3. ReservedFor("faction_storage") = SumFunctionOnSet(f, K)
      BY DEF ReservedFor, SumFunction
    <3> HIDE DEF K, f
    <3>4. QED
      BY <3>1, <3>2, <3>3, SumType
  <2>7. OpenQuantity(d, s, ReservedFor("faction_storage")) \in Int
    <3>1. PICK r : r = ReservedFor("faction_storage")
      OBVIOUS
    <3>2. r \in Int
      BY <2>6, <3>1
    <3>3. OpenQuantity(d, s, r) \in Int
      BY <2>3, <2>5, <3>2 DEF OpenQuantity, Least, Positive
    <3>4. QED
      BY <3>1, <3>3
  <2>8. QED
    BY <1>2, <2>2, <2>7 DEF Open
<1>3. QED
  BY <1>1, <1>2

LEMMA PutKeeps == ASSUME OrdersInv, NEW b \in Books, Put(b) PROVE OrdersInv'
<1>1. LedgerTypeOK' /\ LedgerTypeOK
  BY PutType DEF OrdersInv
<1>2. Trail' /\ (\A o : Expected(o)' = Expected(o)) /\ Involved' = Involved
  BY SameMovements DEF Put, ByHand, Pending
<1>3. ASSUME NEW o \in DOMAIN orders', NotOverruled(o)'
      PROVE  /\ Expected(o)' = 0 /\ \A m \in Involved' : movements'[m].uses[o] = 0
             /\ orders'[o].reserved = byHand'[o] /\ orders'[o].reserved \in Int
  <2>1. o \in OrderIds /\ orders'[o].reserved \in Int
    BY <1>1, SoundBook, SoundType DEF LedgerTypeOK
  <2>2. o \notin InUse
    BY <1>3 DEF NotOverruled, Put
  <2>3. movements' = movements
    BY DEF Put, ByHand
  <2>4. byHand'[o] = orders'[o].reserved
    BY <1>3, <2>1 DEF Put, HeldIn
  <2>5. QED
    BY <1>2, <2>1, <2>2, <2>3, <2>4, NotInUse
<1>4. SidesKnown'
  BY <1>3 DEF SidesKnown
<1>5. HeldRight'
  BY <1>3 DEF HeldRight
<1>6. QED
  BY <1>1, <1>2, <1>4, <1>5 DEF OrdersInv

LEMMA HoldByHandKeeps == ASSUME OrdersInv, NEW a \in Asks, HoldByHand(a.uses) PROVE OrdersInv'
<1>1. LedgerTypeOK' /\ LedgerTypeOK /\ a.uses \in [OrderIds -> Nat]
  BY HoldByHandType, LedgerAssumption DEF OrdersInv
<1>2. Trail' /\ (\A o : Expected(o)' = Expected(o)) /\ Involved' = Involved
  BY SameMovements DEF HoldByHand, ByHand, Pending
<1>3. movements' = movements /\ tampered' = tampered /\ reopened' = reopened
  BY DEF HoldByHand, ByHand
<1>4. ASSUME NEW o \in DOMAIN orders'
      PROVE  /\ o \in DOMAIN orders /\ o \in OrderIds
             /\ orders'[o].reserved = orders[o].reserved + (IF Accepts(orders[o], a.uses[o]) THEN a.uses[o] ELSE 0)
             /\ orders'[o].side = orders[o].side
  <2>1. orders' = Pruned(HeldEach(orders, a.uses)) /\ orders \in SoundBooks
    BY <1>1 DEF HoldByHand, LedgerTypeOK
  <2>2. QED
    BY <1>1, <1>4, <2>1, HeldEachSound, SoundBook
<1>5. \A o : NotOverruled(o)' <=> NotOverruled(o)
  BY <1>3 DEF NotOverruled
<1>6. SidesKnown'
  BY <1>2, <1>3, <1>4, <1>5 DEF OrdersInv, SidesKnown
<1>7. ASSUME NEW o \in DOMAIN orders', NotOverruled(o)' PROVE orders'[o].reserved = Expected(o)' + byHand'[o]
  <2>1. orders[o].reserved = Expected(o) + byHand[o] /\ orders[o].reserved \in Int /\ byHand[o] \in Int /\ a.uses[o] \in Nat
    BY <1>1, <1>4, <1>5, <1>7, SoundBook, SoundType DEF OrdersInv, HeldRight, LedgerTypeOK
  <2>2. byHand'[o] = byHand[o] + (IF Accepts(orders[o], a.uses[o]) THEN a.uses[o] ELSE 0)
    BY <1>4, <2>1 DEF HoldByHand
  <2>3. Expected(o) \in Int
    BY <1>1, <1>4, ExpectedType DEF OrdersInv
  <2>4. QED
    BY <1>2, <1>4, <2>1, <2>2, <2>3
<1>8. QED
  BY <1>1, <1>2, <1>6, <1>7 DEF OrdersInv, HeldRight

LEMMA EndByHandKeeps ==
  ASSUME OrdersInv, NEW o \in OrderIds, FillByHand(o) \/ ReleaseByHand(o) PROVE OrdersInv'
<1>1. LedgerTypeOK' /\ LedgerTypeOK
  BY EndByHandType DEF OrdersInv
<1>2. /\ ByHand /\ o \in DOMAIN orders /\ byHand' = [byHand EXCEPT ![o] = 0]
      /\ tampered' = tampered \cup (InUse \cap {o})
      /\ \E ended \in {FilledByHand(orders[o]), ReleasedByHand(orders[o])} :
           orders' = Pruned([orders EXCEPT ![o] = ended])
  BY DEF FillByHand, ReleaseByHand, EndByHand
<1>3. Trail' /\ (\A p : Expected(p)' = Expected(p)) /\ Involved' = Involved
  BY <1>2, SameMovements DEF ByHand, Pending
<1>4. movements' = movements /\ reopened' = reopened
  BY <1>2 DEF ByHand
<1>5. /\ DOMAIN orders' \subseteq DOMAIN orders
      /\ o \in DOMAIN orders' => orders'[o].reserved = 0
      /\ \A p \in DOMAIN orders' : p # o => orders'[p] = orders[p]
  <2>1. orders \in SoundBooks
    BY <1>1 DEF LedgerTypeOK
  <2>2. PICK ended \in {FilledByHand(orders[o]), ReleasedByHand(orders[o])} :
          orders' = Pruned([orders EXCEPT ![o] = ended])
    BY <1>2
  <2>3. LET b == Pruned([orders EXCEPT ![o] = ended])
        IN  /\ b \in SoundBooks /\ DOMAIN b \subseteq DOMAIN orders
            /\ o \in DOMAIN b => b[o].reserved = 0
            /\ \A p \in DOMAIN b : p # o => b[p] = orders[p]
    BY <1>2, <2>1, EndedBookSound
  <2>4. QED
    BY <2>2, <2>3
<1>6. \A p : NotOverruled(p)' => NotOverruled(p)
  BY <1>2, <1>4 DEF NotOverruled
<1>7. NotOverruled(o)' => o \notin InUse
  BY <1>2 DEF NotOverruled
<1>8. NotOverruled(o)' => Expected(o) = 0 /\ \A m \in Involved : movements[m].uses[o] = 0
  BY <1>7, NotInUse
<1>9. SidesKnown'
  <2> SUFFICES ASSUME NEW p \in DOMAIN orders', NotOverruled(p)', NEW m \in Involved', movements'[m].uses[p] > 0
               PROVE  orders'[p].side \in MarketSides
    BY DEF SidesKnown
  <2>1. CASE p = o
    BY <1>3, <1>4, <1>8, <2>1
  <2>2. CASE p # o
    <3>1. orders'[p] = orders[p] /\ p \in DOMAIN orders /\ NotOverruled(p) /\ m \in Involved /\ movements[m].uses[p] > 0
      BY <1>3, <1>4, <1>5, <1>6, <2>2
    <3>2. QED
      BY <3>1 DEF OrdersInv, SidesKnown
  <2>3. QED
    BY <2>1, <2>2
<1>10. HeldRight'
  <2> SUFFICES ASSUME NEW p \in DOMAIN orders', NotOverruled(p)'
               PROVE  orders'[p].reserved = Expected(p)' + byHand'[p]
    BY DEF HeldRight
  <2>0. byHand \in [OrderIds -> Int] /\ p \in OrderIds
    BY <1>1, <1>5, SoundBook DEF LedgerTypeOK
  <2>1. CASE p = o
    <3>1. orders'[o].reserved = 0 /\ Expected(o)' = 0
      BY <1>3, <1>5, <1>8, <2>1
    <3>2. byHand'[o] = 0
      BY <1>2, <2>0
    <3>3. QED
      BY <2>1, <3>1, <3>2
  <2>2. CASE p # o
    <3>1. orders'[p] = orders[p] /\ p \in DOMAIN orders /\ NotOverruled(p)
      BY <1>5, <1>6, <2>2
    <3>2. byHand'[p] = byHand[p]
      BY <1>2, <2>0, <2>2
    <3>3. QED
      BY <1>3, <3>1, <3>2 DEF OrdersInv, HeldRight
  <2>3. QED
    BY <2>1, <2>2
<1>11. QED
  BY <1>1, <1>3, <1>9, <1>10 DEF OrdersInv

\* Only orders of the market are ever open to a movement.
LEMMA OpenSides ==
  ASSUME LedgerTypeOK, NEW o, Open(o) > 0 PROVE o \in DOMAIN orders => orders[o].side \in MarketSides
<1> SUFFICES ASSUME o \in DOMAIN orders, orders[o].side \notin MarketSides PROVE FALSE
  OBVIOUS
<1>1. OpenForActor(orders[o], Storage(stock, seen)) = 0
  BY DEF OpenForActor, MarketSides
<1>2. OpenQuantity(orders[o], Storage(stock, seen), ReservedFor("faction_storage")) = 0
  BY <1>1 DEF OpenQuantity, MarketSides
<1>3. QED
  BY <1>2 DEF Open

LEMMA ClaimKeeps == ASSUME OrdersInv, Claim PROVE OrdersInv'
<1>1. LedgerTypeOK' /\ LedgerTypeOK
  BY ClaimType DEF OrdersInv
<1>2. ask # NoAsk /\ ask.movement = 0 /\ ~Pending /\ UsesFit /\ ask \in PendingAsks /\ ask.uses \in [OrderIds -> Nat]
  BY <1>1, AskType DEF Claim, Granted, Pending
<1>3. PICK m \in MovementIds \ Born :
        /\ movements' = [movements EXCEPT ![m] =
                           [status |-> "Reserved", claims |-> ask.claims, uses |-> ask.uses]]
        /\ ask' = IF ask.uses = None THEN NoAsk ELSE [ask EXCEPT !.movement = m]
  BY DEF Claim
<1>4. UNCHANGED <<orders, settling, byHand, tampered, reopened>>
  BY DEF Claim
<1>5. /\ movements \in [MovementIds -> MovementStates] /\ movements' \in [MovementIds -> MovementStates]
      /\ movements'[m].status = "Reserved" /\ movements'[m].uses = ask.uses
      /\ \A n \in MovementIds \ {m} : movements'[n] = movements[n]
      /\ movements[m].status = "Unborn"
  BY <1>1, <1>3 DEF LedgerTypeOK, Born
<1>6. m \notin reopened /\ (\A t \in settling : t.movement # m) /\ ~IsActive(m)
  BY <1>3, <1>5 DEF OrdersInv, Trail, IsActive, Active
<1>7. ask.uses # None => ask'.movement = m /\ ask'.uses = ask.uses /\ ask' # NoAsk
  <2> SUFFICES ASSUME ask.uses # None PROVE ask'.movement = m /\ ask'.uses = ask.uses /\ ask' # NoAsk
    OBVIOUS
  <2>1. ask' = [ask EXCEPT !.movement = m] /\ m \in Nat
    BY <1>3, KeysAreFinite
  <2>2. ask' \in PendingAsks /\ ask'.movement = m /\ ask'.uses = ask.uses
    BY <1>2, <2>1 DEF PendingAsks
  <2>3. QED
    BY <2>2, LedgerAssumption
<1>8. Trail'
  <2>1. m \in Born' /\ Born \subseteq Born'
    BY <1>5 DEF Born
  <2>2. \A t \in settling' : t.movement \in Born' /\ (IsActive(t.movement)' => t.movement \in reopened')
    <3> SUFFICES ASSUME NEW t \in settling
                 PROVE  t.movement \in Born' /\ (IsActive(t.movement)' => t.movement \in reopened)
      BY <1>4
    <3>1. t.movement \in Born /\ t.movement \in MovementIds /\ t.movement # m
      BY <1>6 DEF OrdersInv, Trail, Born
    <3>2. movements'[t.movement] = movements[t.movement]
      BY <1>5, <3>1
    <3>3. QED
      BY <2>1, <3>1, <3>2 DEF OrdersInv, Trail, IsActive
  <2>3. Pending' => ask'.movement \in Born' /\ movements'[ask'.movement].uses = ask'.uses
    BY <1>3, <1>5, <1>7, <2>1 DEF Pending
  <2>4. QED
    BY <1>4, <2>1, <2>2, <2>3 DEF OrdersInv, Trail
<1>9. \A o : NotOverruled(o)' <=> NotOverruled(o)
  <2>1. \A n \in reopened : movements'[n] = movements[n]
    BY <1>1, <1>5, <1>6 DEF LedgerTypeOK
  <2>2. QED
    BY <1>4, <2>1 DEF NotOverruled
<1>10. ASSUME NEW o \in OrderIds PROVE Expected(o)' = Expected(o)
  <2>1. Used(movements', o) = Used(movements, o) - UsedBy(movements, o)[m] + UsedBy(movements', o)[m]
    BY <1>5, UsedChangesAt
  <2>2. UsedBy(movements, o)[m] = 0 /\ UsedBy(movements', o)[m] = ask.uses[o]
    BY <1>5 DEF UsedBy, Active
  <2>3. PendingUse(o) = 0
    BY <1>2 DEF PendingUse
  <2>4. PendingUse(o)' = ask.uses[o]
    <3>1. CASE ask.uses = None
      <4>1. ~Pending' /\ ask.uses[o] = 0
        BY <1>3, <3>1 DEF Pending, None
      <4>2. QED
        BY <4>1 DEF PendingUse
    <3>2. CASE ask.uses # None
      <4>1. Pending' /\ ask'.uses[o] = ask.uses[o]
        BY <1>7, <3>2, KeysAreFinite DEF Pending
      <4>2. QED
        BY <4>1 DEF PendingUse
    <3>3. QED
      BY <3>1, <3>2
  <2>5. ToSettle(movements', settling', o) = ToSettle(movements, settling, o)
    <3>1. \A t \in settling : movements'[t.movement].uses[o] = movements[t.movement].uses[o]
      BY <1>5, <1>6 DEF OrdersInv, Trail, Born
    <3>2. IsFiniteSet(settling)
      BY <1>1 DEF LedgerTypeOK
    <3>3. QED
      BY <1>4, <3>1, <3>2, ToSettleSame
  <2>6. Used(movements, o) \in Nat /\ ToSettle(movements, settling, o) \in Nat /\ ask.uses[o] \in Nat
    BY <1>1, <1>2, UsedType, ToSettleType DEF LedgerTypeOK
  <2>7. PICK u, v, s, a : /\ u = Used(movements, o) /\ v = Used(movements', o) /\ a = ask.uses[o]
                          /\ s = ToSettle(movements, settling, o)
    OBVIOUS
  <2>8. v = u - 0 + a /\ u \in Nat /\ s \in Nat /\ a \in Nat
    BY <2>1, <2>2, <2>6, <2>7
  <2>9. Expected(o) = u - 0 + s /\ Expected(o)' = v - a + s
    BY <2>3, <2>4, <2>5, <2>7, ExpectedIs
  <2>10. QED
    BY <2>8, <2>9
<1>11. SidesKnown'
  <2> SUFFICES ASSUME NEW o \in DOMAIN orders, NotOverruled(o), NEW n \in Involved', movements'[n].uses[o] > 0
               PROVE  orders[o].side \in MarketSides
    BY <1>4, <1>9 DEF SidesKnown
  <2>1. CASE n = m
    <3>1. o \in OrderIds /\ ask.uses[o] > 0 /\ ask.uses[o] \in Nat
      BY <1>1, <1>2, <1>5, <2>1, SoundBook DEF LedgerTypeOK
    <3>2. Open(o) >= ask.uses[o]
      BY <1>2, <3>1 DEF UsesFit
    <3>3. Open(o) \in Int
      BY <1>1, OpenType
    <3>4. Open(o) > 0
      BY <3>1, <3>2, <3>3
    <3>5. QED
      BY <1>1, <3>4, OpenSides
  <2>2. CASE n # m
    <3>1. n \in MovementIds /\ movements'[n] = movements[n]
      BY <1>5, <2>2 DEF Involved
    <3>2. Pending' => ask'.movement = m
      BY <1>3, <1>7 DEF Pending
    <3>3. n \in Involved
      BY <1>4, <2>2, <3>1, <3>2 DEF Involved, IsActive
    <3>4. QED
      BY <3>1, <3>3 DEF OrdersInv, SidesKnown
  <2>3. QED
    BY <2>1, <2>2
<1>12. HeldRight'
  <2> SUFFICES ASSUME NEW o \in DOMAIN orders, NotOverruled(o)
               PROVE  orders[o].reserved = Expected(o)' + byHand[o]
    BY <1>4, <1>9 DEF HeldRight
  <2>1. o \in OrderIds
    BY <1>1, SoundBook DEF LedgerTypeOK
  <2>2. QED
    BY <1>10, <2>1 DEF OrdersInv, HeldRight
<1>13. QED
  BY <1>1, <1>8, <1>11, <1>12 DEF OrdersInv

\* A movement that ends no longer uses its orders, and has as much to settle.
LEMMA TransitionKeeps ==
  ASSUME OrdersInv, NEW m \in MovementIds, NEW to \in Active \cup {"Completed", "Failed", "Released"},
         Transition(m, to)
  PROVE  OrdersInv'
<1> DEFINE from == movements[m].status
           t == [movement |-> m, done |-> to = "Completed", from |-> from]
<1>1. LedgerTypeOK' /\ LedgerTypeOK
  BY TransitionType DEF OrdersInv
<1>2. /\ movements \in [MovementIds -> MovementStates] /\ movements' \in [MovementIds -> MovementStates]
      /\ movements'[m].status = to
      /\ \A n \in MovementIds : /\ n # m => movements'[n] = movements[n]
                               /\ movements'[n].uses = movements[n].uses
  BY <1>1, StatusType DEF Transition, LedgerTypeOK, Statuses
<1>3. <<from, to>> \in Allowed /\ from # "Unborn" /\ to # "Unborn"
  BY DEF Transition, Allowed, Active
<1>4. UNCHANGED <<orders, ask, byHand, tampered>> /\ (Pending' <=> Pending)
  BY DEF Transition, Pending
<1>5. /\ reopened \subseteq reopened' /\ reopened' \subseteq reopened \cup {m}
      /\ (from = "Completed") => m \in reopened'
  BY DEF Transition
<1>6. to \in {"Completed", "Failed", "Released"} => settling' = settling \cup {t} /\ ~IsActive(m)'
  BY <1>2 DEF Transition, IsActive, Active
<1>7. to \notin {"Completed", "Failed", "Released"} => settling' = settling /\ to \in Active
  BY DEF Transition
<1>8. Born' = Born /\ m \in Born
  BY <1>2, <1>3 DEF Born
<1>9. from \in Active \/ from = "Completed"
  BY <1>3 DEF Allowed, Active
<1>10. IsActive(m) <=> from \in Active
  BY DEF IsActive
<1>11. \A n \in MovementIds : n # m => (IsActive(n)' <=> IsActive(n))
  BY <1>2 DEF IsActive
<1>12. Trail'
  <2>1. \A r \in settling' : r.movement \in Born' /\ (IsActive(r.movement)' => r.movement \in reopened')
    <3> SUFFICES ASSUME NEW r \in settling'
                 PROVE  r.movement \in Born /\ (IsActive(r.movement)' => r.movement \in reopened')
      BY <1>8
    <3>1. CASE r = t /\ to \in {"Completed", "Failed", "Released"}
      BY <1>6, <1>8, <3>1
    <3>2. CASE r \in settling
      <4>1. r.movement \in Born /\ r.movement \in MovementIds /\ (IsActive(r.movement) => r.movement \in reopened)
        BY <3>2 DEF OrdersInv, Trail, Born
      <4>2. CASE r.movement # m
        BY <1>5, <1>11, <4>1, <4>2
      <4>3. CASE r.movement = m
        BY <1>5, <1>9, <1>10, <4>1, <4>3
      <4>4. QED
        BY <4>2, <4>3
    <3>3. QED
      BY <1>6, <1>7, <3>1, <3>2
  <2>2. reopened' \subseteq Born'
    BY <1>5, <1>8 DEF OrdersInv, Trail
  <2>3. Pending' => ask'.movement \in Born' /\ movements'[ask'.movement].uses = ask'.uses
    BY <1>2, <1>4, <1>8 DEF OrdersInv, Trail, Born
  <2>4. QED
    BY <2>1, <2>2, <2>3 DEF Trail
<1>13. ASSUME NEW o, NotOverruled(o)'
       PROVE  NotOverruled(o) /\ (m \in reopened' => movements[m].uses[o] = 0)
  <2>1. \A n \in reopened' : n \in MovementIds /\ movements[n].uses[o] = 0
    BY <1>1, <1>2, <1>13 DEF NotOverruled, LedgerTypeOK
  <2>2. QED
    BY <1>4, <1>5, <1>13, <2>1 DEF NotOverruled
<1>14. Involved' \subseteq Involved \cup {m}
  <2> SUFFICES ASSUME NEW n \in Involved', n # m PROVE n \in Involved
    OBVIOUS
  <2>1. n \in MovementIds
    BY DEF Involved
  <2>2. CASE IsActive(n)'
    BY <1>11, <2>1, <2>2 DEF Involved
  <2>3. CASE \E r \in settling' : r.movement = n
    <3>1. PICK r \in settling' : r.movement = n
      BY <2>3
    <3>2. r # t
      BY <3>1
    <3>3. r \in settling
      BY <1>6, <1>7, <3>2
    <3>4. QED
      BY <2>1, <3>1, <3>3 DEF Involved
  <2>4. CASE Pending' /\ ask'.movement = n
    BY <1>4, <2>1, <2>4 DEF Involved
  <2>5. QED
    BY <2>2, <2>3, <2>4 DEF Involved
<1>15. SidesKnown'
  <2> SUFFICES ASSUME NEW o \in DOMAIN orders, NotOverruled(o)', NEW n \in Involved', movements'[n].uses[o] > 0
               PROVE  orders[o].side \in MarketSides
    BY <1>4 DEF SidesKnown
  <2>1. n \in MovementIds /\ movements[n].uses[o] > 0
    BY <1>2 DEF Involved
  <2>2. n \in Involved
    <3>1. CASE n # m
      BY <1>14, <3>1
    <3>2. CASE n = m
      <4>1. from \in Active
        BY <1>5, <1>9, <1>13, <2>1, <3>2
      <4>2. QED
        BY <1>10, <2>1, <3>2, <4>1 DEF Involved
    <3>3. QED
      BY <3>1, <3>2
  <2>3. QED
    BY <1>13, <2>1, <2>2 DEF OrdersInv, SidesKnown
<1>16. ASSUME NEW o \in OrderIds, NotOverruled(o)' PROVE Expected(o)' = Expected(o)
  <2>1. PICK u : u = movements[m].uses[o]
    OBVIOUS
  <2>2. /\ settling \in SUBSET SettlingRecords /\ IsFiniteSet(settling)
        /\ settling' \in SUBSET SettlingRecords /\ IsFiniteSet(settling')
    BY <1>1 DEF LedgerTypeOK
  <2>3. u \in Nat /\ movements'[m].uses[o] = u
    BY <1>2, <2>1, UsedType
  <2>4. m \in reopened' => u = 0
    BY <1>13, <1>16, <2>1
  <2>5. UsedBy(movements, o)[m] = IF from \in Active THEN u ELSE 0
    BY <2>1 DEF UsedBy
  <2>6. UsedBy(movements', o)[m] = IF to \in Active THEN u ELSE 0
    BY <1>2, <2>3 DEF UsedBy
  <2>7. Used(movements', o) = Used(movements, o) - UsedBy(movements, o)[m] + UsedBy(movements', o)[m]
    BY <1>2, UsedChangesAt
  <2>8. ToSettle(movements', settling, o) = ToSettle(movements, settling, o)
    <3>1. \A r \in settling : movements'[r.movement].uses[o] = movements[r.movement].uses[o]
      BY <1>2, <2>2 DEF SettlingRecords
    <3>2. QED
      BY <2>2, <3>1, ToSettleSame
  <2>9. ToSettle(movements', settling', o)
          = ToSettle(movements, settling, o) + (IF to \in {"Completed", "Failed", "Released"} THEN u ELSE 0)
    <3>1. CASE to \notin {"Completed", "Failed", "Released"}
      <4>1. ToSettle(movements, settling, o) \in Nat
        BY <1>2, <2>2, ToSettleType
      <4>2. QED
        BY <1>7, <2>8, <3>1, <4>1
    <3>2. CASE to \in {"Completed", "Failed", "Released"} /\ t \in settling
      <4>1. settling' = settling /\ t.movement = m
        BY <1>6, <3>2
      <4>2. m \in reopened'
        <5>1. IsActive(m) => m \in reopened
          BY <3>2, <4>1 DEF OrdersInv, Trail
        <5>2. QED
          BY <1>5, <1>9, <1>10, <5>1
      <4>3. ToSettle(movements, settling, o) \in Nat
        BY <1>2, <2>2, ToSettleType
      <4>4. QED
        BY <2>4, <2>8, <3>2, <4>1, <4>2, <4>3
    <3>3. CASE to \in {"Completed", "Failed", "Released"} /\ t \notin settling
      <4>1. t \in settling' /\ settling' \ {t} = settling /\ t.movement = m
        BY <1>6, <3>3
      <4> HIDE DEF t
      <4>2. ToSettle(movements', settling', o) = movements'[t.movement].uses[o] + ToSettle(movements', settling' \ {t}, o)
        BY <1>2, <2>2, <4>1, ToSettleWithout
      <4>3. ToSettle(movements, settling, o) \in Nat
        BY <1>2, <2>2, ToSettleType
      <4>4. movements'[t.movement].uses[o] = u
        BY <2>3, <4>1
      <4>5. ToSettle(movements', settling' \ {t}, o) = ToSettle(movements, settling, o)
        BY <2>8, <4>1
      <4>6. QED
        BY <2>3, <3>3, <4>2, <4>3, <4>4, <4>5
    <3>4. QED
      BY <3>1, <3>2, <3>3
  <2>10. PendingUse(o)' = PendingUse(o)
    BY <1>4 DEF PendingUse
  <2>11. PICK a, b, p, s, r : /\ a = Used(movements, o) /\ b = Used(movements', o) /\ p = PendingUse(o)
                              /\ s = ToSettle(movements, settling, o) /\ r = ToSettle(movements', settling', o)
    OBVIOUS
  <2>12. a \in Nat /\ s \in Nat /\ p \in Nat
    BY <1>1, <1>2, <2>2, <2>11, UsedType, ToSettleType, ExpectedType DEF OrdersInv
  <2>13. Expected(o) = a - p + s /\ Expected(o)' = b - p + r
    BY <2>10, <2>11, ExpectedIs
  <2>14. b = a - (IF from \in Active THEN u ELSE 0) + (IF to \in Active THEN u ELSE 0)
    BY <2>5, <2>6, <2>7, <2>11
  <2>15. r = s + (IF to \in {"Completed", "Failed", "Released"} THEN u ELSE 0)
    BY <2>9, <2>11
  <2>16. to \in {"Completed", "Failed", "Released"} <=> to \notin Active
    BY <1>7 DEF Active
  <2>17. CASE from \in Active
    BY <2>3, <2>12, <2>13, <2>14, <2>15, <2>16, <2>17
  <2>18. CASE from \notin Active
    <3>1. u = 0
      BY <1>5, <1>9, <2>4, <2>18
    <3>2. QED
      BY <2>12, <2>13, <2>14, <2>15, <3>1
  <2>19. QED
    BY <2>17, <2>18
<1>17. HeldRight'
  <2> SUFFICES ASSUME NEW o \in DOMAIN orders, NotOverruled(o)'
               PROVE  orders[o].reserved = Expected(o)' + byHand[o]
    BY <1>4 DEF HeldRight
  <2>1. o \in OrderIds
    BY <1>1, SoundBook DEF LedgerTypeOK
  <2>2. QED
    BY <1>13, <1>16, <2>1 DEF OrdersInv, HeldRight
<1>18. QED
  BY <1>1, <1>12, <1>15, <1>17 DEF OrdersInv

\* The orders hold what is asked, or the movement is released.
LEMMA HoldOrdersKeeps == ASSUME OrdersInv, HoldOrders PROVE OrdersInv'
<1> DEFINE m == ask.movement
<1>1. LedgerTypeOK' /\ LedgerTypeOK
  BY HoldOrdersType DEF OrdersInv
<1>2. /\ Pending /\ ask.uses \in [OrderIds -> Nat] /\ ~Pending'
      /\ m \in MovementIds /\ m \in Born /\ movements[m].uses = ask.uses
  BY <1>1, AskType DEF OrdersInv, Trail, HoldOrders, Pending, Born
<1>3. UNCHANGED <<settling, byHand, reopened>> /\ tampered \subseteq tampered'
  BY DEF HoldOrders
<1>4. /\ movements \in [MovementIds -> MovementStates] /\ movements' \in [MovementIds -> MovementStates]
      /\ \A n \in MovementIds : /\ n # m => movements'[n] = movements[n]
                               /\ movements'[n].uses = movements[n].uses
      /\ movements'[m].status = movements[m].status \/ movements'[m].status = "Released"
  <2>1. CASE movements' = movements
    BY <1>1, <2>1 DEF LedgerTypeOK
  <2>2. CASE movements' = [movements EXCEPT ![m].status = "Released"]
    BY <1>1, <1>2, <2>2, StatusType DEF LedgerTypeOK, Statuses
  <2>3. QED
    BY <2>1, <2>2 DEF HoldOrders
<1>5. Born' = Born /\ \A n \in MovementIds : IsActive(n)' => IsActive(n)
  <2>1. \A n \in MovementIds : movements'[n].status = movements[n].status \/ (n = m /\ movements'[n].status = "Released")
    BY <1>4
  <2>2. QED
    BY <1>2, <2>1 DEF Born, IsActive, Active
<1>6. Trail'
  BY <1>2, <1>3, <1>5 DEF OrdersInv, Trail, Born
<1>7. Involved' \subseteq Involved
  BY <1>2, <1>3, <1>5 DEF Involved
<1>8. ASSUME NEW o, NotOverruled(o)' PROVE NotOverruled(o)
  <2>1. \A n \in reopened : n \in MovementIds
    BY <1>1 DEF LedgerTypeOK
  <2>2. QED
    BY <1>3, <1>4, <1>8, <2>1 DEF NotOverruled
<1>9. \A n \in Involved' : movements'[n].uses = movements[n].uses
  BY <1>4 DEF Involved
<1>10. ASSUME NEW o \in OrderIds
       PROVE  /\ ToSettle(movements', settling', o) = ToSettle(movements, settling, o)
              /\ ToSettle(movements, settling, o) \in Nat /\ Used(movements, o) \in Nat
              /\ PendingUse(o) = ask.uses[o] /\ PendingUse(o)' = 0 /\ ask.uses[o] \in Nat
  <2>1. settling \in SUBSET SettlingRecords /\ IsFiniteSet(settling)
    BY <1>1 DEF LedgerTypeOK
  <2>2. \A t \in settling : movements'[t.movement].uses[o] = movements[t.movement].uses[o]
    BY <1>4, <2>1 DEF SettlingRecords
  <2>3. ToSettle(movements', settling, o) = ToSettle(movements, settling, o)
    BY <2>1, <2>2, ToSettleSame
  <2>4. QED
    BY <1>2, <1>3, <1>4, <2>1, <2>3, UsedType, ToSettleType DEF PendingUse
<1>11. CASE HoldsAll(orders, ask.uses)
  <2>1. movements' = movements
    BY <1>11 DEF HoldOrders
  <2>2. orders \in SoundBooks /\ orders' = [o \in DOMAIN orders |-> IF ask.uses[o] > 0 THEN WithHeld(orders[o], ask.uses[o])
                                                                  ELSE orders[o]]
    BY <1>1, <1>11 DEF HoldOrders, LedgerTypeOK
  <2>3. /\ DOMAIN orders' = DOMAIN orders
        /\ \A o \in DOMAIN orders : /\ orders'[o].reserved = orders[o].reserved + ask.uses[o]
                                   /\ orders'[o].side = orders[o].side
    BY <1>2, <1>11, <2>2, HeldBookSound
  <2>4. SidesKnown'
    BY <1>7, <1>8, <1>9, <2>3 DEF OrdersInv, SidesKnown
  <2>5. HeldRight'
    <3> SUFFICES ASSUME NEW o \in DOMAIN orders, NotOverruled(o)
                 PROVE  orders'[o].reserved = Expected(o)' + byHand[o]
      BY <1>3, <1>8, <2>3 DEF HeldRight
    <3>1. o \in OrderIds /\ byHand[o] \in Int
      BY <1>1, SoundBook DEF LedgerTypeOK
    <3>2. PICK u, s, a : u = Used(movements, o) /\ s = ToSettle(movements, settling, o) /\ a = ask.uses[o]
      OBVIOUS
    <3>3. u \in Nat /\ s \in Nat /\ a \in Nat
      BY <1>10, <3>1, <3>2
    <3>4. Expected(o) = u - a + s /\ Expected(o)' = u - 0 + s
      BY <1>10, <2>1, <3>1, <3>2, ExpectedIs
    <3>5. orders[o].reserved = Expected(o) + byHand[o]
      BY DEF OrdersInv, HeldRight
    <3>6. QED
      BY <2>3, <3>1, <3>2, <3>3, <3>4, <3>5
  <2>6. QED
    BY <1>1, <1>6, <2>4, <2>5 DEF OrdersInv
<1>12. CASE ~HoldsAll(orders, ask.uses)
  <2>1. orders' = orders
    BY <1>12 DEF HoldOrders
  <2>2. SidesKnown'
    BY <1>7, <1>8, <1>9, <2>1 DEF OrdersInv, SidesKnown
  <2>3. ASSUME NEW o \in OrderIds, NotOverruled(o)' PROVE Expected(o)' = Expected(o)
    <3>1. ask.uses[o] = 0 \/ (IsActive(m) /\ movements'[m].status = "Released")
      <4>1. ask.uses[o] \in Nat
        BY <1>10
      <4>2. o \notin tampered'
        BY <2>3 DEF NotOverruled
      <4>3. tampered' = tampered \cup {p \in OrderIds :
                ask.uses[p] > 0 /\ ~(IsActive(m) /\ movements'[m].status = "Released")}
        BY <1>12 DEF HoldOrders
      <4>4. QED
        BY <4>1, <4>2, <4>3
    <3>2. PICK u, v, s, a : /\ u = Used(movements, o) /\ v = Used(movements', o) /\ a = ask.uses[o]
                            /\ s = ToSettle(movements, settling, o)
      OBVIOUS
    <3>3. u \in Nat /\ s \in Nat /\ a \in Nat
      BY <1>10, <3>2
    <3>4. Expected(o) = u - a + s /\ Expected(o)' = v - 0 + s
      BY <1>10, <3>2, ExpectedIs
    <3>5. v = u - UsedBy(movements, o)[m] + UsedBy(movements', o)[m]
      BY <1>2, <1>4, <3>2, UsedChangesAt
    <3>6. movements[m].uses[o] = a /\ movements'[m].uses[o] = a
      BY <1>2, <1>4, <3>2
    <3>7. CASE ask.uses[o] = 0
      <4>1. UsedBy(movements, o)[m] = 0 /\ UsedBy(movements', o)[m] = 0 /\ a = 0
        BY <1>2, <3>2, <3>6, <3>7 DEF UsedBy
      <4>2. QED
        BY <3>3, <3>4, <3>5, <4>1
    <3>8. CASE IsActive(m) /\ movements'[m].status = "Released"
      <4>1. UsedBy(movements, o)[m] = a /\ UsedBy(movements', o)[m] = 0
        BY <1>2, <3>6, <3>8 DEF UsedBy, IsActive, Active
      <4>2. QED
        BY <3>3, <3>4, <3>5, <4>1
    <3>9. QED
      BY <3>1, <3>7, <3>8
  <2>4. HeldRight'
    <3> SUFFICES ASSUME NEW o \in DOMAIN orders, NotOverruled(o)'
                 PROVE  orders[o].reserved = Expected(o)' + byHand[o]
      BY <1>3, <2>1 DEF HeldRight
    <3>1. o \in OrderIds
      BY <1>1, SoundBook DEF LedgerTypeOK
    <3>2. QED
      BY <1>8, <2>3, <3>1 DEF OrdersInv, HeldRight
  <2>5. QED
    BY <1>1, <1>6, <2>2, <2>4 DEF OrdersInv
<1>13. QED
  BY <1>11, <1>12

LEMMA SettleKeeps == ASSUME OrdersInv, NEW t \in settling, Settle(t) PROVE OrdersInv'
<1> DEFINE m == t.movement
<1>1. LedgerTypeOK' /\ LedgerTypeOK
  BY SettleType DEF OrdersInv
<1>2. UNCHANGED <<movements, ask, byHand, tampered, reopened>> /\ (Pending' <=> Pending) /\ settling' = settling \ {t}
  BY DEF Settle, Pending
<1>3. /\ movements \in [MovementIds -> MovementStates] /\ settling \in SUBSET SettlingRecords
      /\ IsFiniteSet(settling) /\ m \in MovementIds /\ t.done \in BOOLEAN
  BY <1>1 DEF LedgerTypeOK, SettlingRecords
<1>4. Trail'
  BY <1>2 DEF OrdersInv, Trail, Born, IsActive
<1>5. Involved' \subseteq Involved /\ m \in Involved
  BY <1>2, <1>3 DEF Involved, IsActive
<1>6. \A o : NotOverruled(o)' <=> NotOverruled(o)
  BY <1>2 DEF NotOverruled
<1>7. movements[m].uses \in [OrderIds -> Nat]
  BY <1>1, <1>3, MovementType
<1>8. ASSUME NEW o \in DOMAIN orders'
      PROVE  /\ o \in DOMAIN orders /\ o \in OrderIds /\ orders'[o].side = orders[o].side
             /\ orders'[o].reserved = IF orders[o].side \in MarketSides THEN orders[o].reserved - movements[m].uses[o]
                                      ELSE orders[o].reserved
  <2>1. orders \in SoundBooks /\ orders' = SettledBook(movements[m].uses, t.done)
    BY <1>1 DEF LedgerTypeOK, Settle
  <2>2. o \in DOMAIN orders /\ orders'[o] = Settled(orders[o], movements[m].uses[o], t.done)
    BY <1>3, <1>7, <1>8, <2>1, SettledBookSound
  <2>3. o \in OrderIds /\ orders[o] \in SoundOrders /\ movements[m].uses[o] \in Nat
    BY <1>7, <2>1, <2>2, SoundBook
  <2>4. QED
    BY <1>3, <2>2, <2>3, SettledSound
<1>9. SidesKnown'
  BY <1>2, <1>5, <1>6, <1>8 DEF OrdersInv, SidesKnown
<1>10. ASSUME NEW o \in OrderIds PROVE Expected(o)' = Expected(o) - movements[m].uses[o]
  <2>1. ToSettle(movements, settling, o) = movements[m].uses[o] + ToSettle(movements, settling \ {t}, o)
    BY <1>3, ToSettleWithout
  <2>2. PendingUse(o)' = PendingUse(o)
    BY <1>2 DEF PendingUse
  <2>3. PICK u, s, a, p : /\ u = Used(movements, o) /\ s = ToSettle(movements, settling \ {t}, o)
                          /\ a = movements[m].uses[o] /\ p = PendingUse(o)
    OBVIOUS
  <2>4. IsFiniteSet(settling \ {t}) /\ settling \ {t} \in SUBSET SettlingRecords
    BY <1>3, FS_Subset
  <2>5. u \in Nat /\ s \in Nat /\ a \in Nat /\ p \in Nat
    BY <1>1, <1>3, <1>7, <2>3, <2>4, UsedType, ToSettleType, ExpectedType DEF OrdersInv
  <2>6. Expected(o) = u - p + (a + s) /\ Expected(o)' = u - p + s
    BY <1>2, <2>1, <2>2, <2>3, ExpectedIs
  <2>7. QED
    BY <2>3, <2>5, <2>6
<1>11. HeldRight'
  <2> SUFFICES ASSUME NEW o \in DOMAIN orders', NotOverruled(o)
               PROVE  orders'[o].reserved = Expected(o)' + byHand[o]
    BY <1>2, <1>6 DEF HeldRight
  <2>1. o \in DOMAIN orders /\ o \in OrderIds /\ orders[o].reserved = Expected(o) + byHand[o]
    BY <1>8 DEF OrdersInv, HeldRight
  <2>2. PICK e, a, h : e = Expected(o) /\ a = movements[m].uses[o] /\ h = byHand[o]
    OBVIOUS
  <2>3. e \in Int /\ a \in Nat /\ h \in Int
    BY <1>1, <1>7, <2>1, <2>2, ExpectedType DEF OrdersInv, LedgerTypeOK
  <2>4. a > 0 => orders[o].side \in MarketSides
    BY <1>5, <2>1, <2>2 DEF OrdersInv, SidesKnown
  <2>5. orders'[o].reserved = orders[o].reserved - a
    BY <1>8, <2>1, <2>2, <2>3, <2>4
  <2>6. QED
    BY <1>10, <2>1, <2>2, <2>3, <2>5
<1>12. QED
  BY <1>1, <1>4, <1>9, <1>11 DEF OrdersInv

LEMMA RestartKeeps == ASSUME OrdersInv, RestartLedger PROVE OrdersInv'
<1>1. LedgerTypeOK' /\ LedgerTypeOK
  BY RestartType DEF OrdersInv
<1>2. /\ UNCHANGED <<orders, byHand>> /\ ~Pending' /\ settling' = {} /\ reopened' = {}
      /\ movements' = [m \in MovementIds |-> Unborn]
      /\ tampered' = tampered \cup InUse \cup {o \in OrderIds : \E m \in reopened : movements[m].uses[o] > 0}
  BY DEF RestartLedger, Pending
<1>3. \A m \in MovementIds : ~IsActive(m)'
  BY <1>2 DEF IsActive, Unborn, Active
<1>4. Trail' /\ Involved' = {}
  BY <1>2, <1>3 DEF Trail, Involved
<1>5. ASSUME NEW o \in OrderIds PROVE Expected(o)' = 0
  <2>1. \A m \in MovementIds : UsedBy(movements', o)[m] = 0
    BY <1>3 DEF UsedBy, IsActive
  <2>2. Used(movements', o) = 0
    BY <2>1, KeysAreFinite, SumOfNothing DEF Used
  <2>3. ToSettle(movements', settling', o) = 0
    BY <1>2, SumEmpty DEF ToSettle
  <2>4. PendingUse(o)' = 0
    BY <1>2 DEF PendingUse
  <2>5. QED
    BY <2>2, <2>3, <2>4, ExpectedIs
<1>6. ASSUME NEW o \in OrderIds, NotOverruled(o)' PROVE NotOverruled(o) /\ o \notin InUse
  <2>1. o \notin tampered'
    BY <1>6 DEF NotOverruled
  <2>2. \A m \in reopened : movements[m].uses[o] \in Nat
    BY <1>1, UsedType DEF LedgerTypeOK
  <2>3. QED
    BY <1>2, <2>1, <2>2 DEF NotOverruled
<1>7. HeldRight'
  <2> SUFFICES ASSUME NEW o \in DOMAIN orders, NotOverruled(o)' PROVE orders[o].reserved = Expected(o)' + byHand[o]
    BY <1>2 DEF HeldRight
  <2>1. o \in OrderIds
    BY <1>1, SoundBook DEF LedgerTypeOK
  <2>2. Expected(o) = 0
    BY <1>6, <2>1, NotInUse
  <2>3. QED
    BY <1>5, <1>6, <2>1, <2>2 DEF OrdersInv, HeldRight
<1>8. QED
  BY <1>1, <1>4, <1>7 DEF OrdersInv, SidesKnown

LEMMA OrdersInvNext == OrdersInv /\ [LedgerNext]_ledgerVars => OrdersInv'
<1> SUFFICES ASSUME OrdersInv, [LedgerNext]_ledgerVars PROVE OrdersInv'
  OBVIOUS
<1>1. CASE \E s \in Sights : Look(s)
  BY <1>1, LookKeeps
<1>2. CASE \E a \in Asks : Asked(a)
  BY <1>2, AskedKeeps
<1>3. CASE Refuse
  BY <1>3, RefuseKeeps
<1>4. CASE Claim
  BY <1>4, ClaimKeeps
<1>5. CASE HoldOrders
  BY <1>5, HoldOrdersKeeps
<1>6. CASE \E m \in MovementIds, to \in Active \cup {"Completed", "Failed", "Released"} : Transition(m, to)
  BY <1>6, TransitionKeeps
<1>7. CASE \E t \in settling : Settle(t)
  BY <1>7, SettleKeeps
<1>8. CASE \E b \in Books : Put(b)
  BY <1>8, PutKeeps
<1>9. CASE \E a \in Asks : HoldByHand(a.uses)
  BY <1>9, HoldByHandKeeps
<1>10. CASE \E o \in OrderIds : FillByHand(o) \/ ReleaseByHand(o)
  BY <1>10, EndByHandKeeps
<1>11. CASE RestartLedger
  BY <1>11, RestartKeeps
<1>12. CASE UNCHANGED ledgerVars
  <2>1. LedgerTypeOK'
    BY <1>12 DEF OrdersInv, LedgerTypeOK, AskIsReal, ledgerVars
  <2>2. UNCHANGED <<movements, settling, reopened, byHand, tampered, orders, ask>> /\ (Pending' <=> Pending)
    BY <1>12 DEF ledgerVars, Pending
  <2>3. QED
    BY <2>1, <2>2, SameOrders
<1>13. QED
  BY <1>1, <1>2, <1>3, <1>4, <1>5, <1>6, <1>7, <1>8, <1>9, <1>10, <1>11, <1>12 DEF LedgerNext

\* An order is never filled and held beyond its quantity, and holds what its movements
\* and the administrator hold of it, at every step of reserve_inventory_movement and of
\* the settlements, for any orders, movements and requests.
THEOREM OrdersAlwaysAddUp == LedgerSpec => []OrdersAddUp
<1>1. OrdersInv => OrdersAddUp
  <2> SUFFICES ASSUME OrdersInv, NEW o \in DOMAIN orders
               PROVE  /\ Fixed(orders[o]) => Positive(orders[o].reserved) + Positive(orders[o].filled) <= orders[o].quantity
                      /\ o \notin tampered /\ (\A m \in reopened : movements[m].uses[o] = 0) =>
                           orders[o].reserved = Expected(o) + byHand[o]
    BY DEF OrdersAddUp
  <2>1. orders[o] \in SoundOrders
    BY SoundBook DEF OrdersInv, LedgerTypeOK
  <2>2. QED
    BY <2>1, SoundType DEF OrdersInv, HeldRight, NotOverruled
<1>2. QED
  BY <1>1, OrdersInvInit, OrdersInvNext, PTL DEF LedgerSpec
=============================================================================
