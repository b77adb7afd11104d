--------------------------- MODULE PlannersProofs ---------------------------
(***************************************************************************)
(* The planners of commands, on every map and for any items, places,       *)
(* markets, commands and moves of others.                                  *)
(*                                                                         *)
(* Routes: the tables hold the cheapest ways.  A search settles one system *)
(* a step; its invariant says that what is settled is closed under jumps   *)
(* and no dearer than the frontier, and that no cost is below what         *)
(* relaxing every jump finds.  In the end the costs are closed, so they    *)
(* are not above it either, and each first hop leads to a system from      *)
(* which what it cost less remains.                                        *)
(*                                                                         *)
(* Travel: commands that move a ship end as they report, and a go takes a  *)
(* cheapest way.  The invariant says which snapshots a tick may plan from, *)
(* which calls its plan may have made, and what a go has spent.            *)
(*                                                                         *)
(* Goods: commands that move goods do what they were told to: whatever is  *)
(* retried, nothing is bought, sold or moved twice, and what is planned    *)
(* from one snapshot fits and is there.  The invariant says, for each call *)
(* a command may be waiting for, what the call and those still to come     *)
(* have been promised: with what already moved they stay within what was   *)
(* told.                                                                   *)
(***************************************************************************)
EXTENDS Travel, Goods, SumProofs

-----------------------------------------------------------------------------
(* Searches in rounds. *)

\* The table that Rounds looks into.
Made(n, base, step) == CHOOSE g : g = [i \in 0..n |-> IF i = 0 THEN base ELSE step[g[i - 1]]]

LEMMA MadeIs ==
  ASSUME NEW n \in Nat, NEW X, NEW base \in X, NEW step \in [X -> X]
  PROVE  /\ Made(n, base, step) \in [0..n -> X] /\ Made(n, base, step)[0] = base
         /\ \A i \in 1..n : Made(n, base, step)[i] = step[Made(n, base, step)[i - 1]]
<1> DEFINE Tabled(g) == [i \in 0..n |-> IF i = 0 THEN base ELSE step[g[i - 1]]]
           steps == [i \in 1..n |-> step]
           G == Made(n, base, step)
<1>1. PICK h : Unrolls(h, n, X, base, steps)
  <2>1. steps \in [1..n -> [X -> X]]
    OBVIOUS
  <2> HIDE DEF steps
  <2>2. QED
    BY <2>1, Recursion
<1>2. h \in [0..n -> X] /\ h[0] = base /\ \A i \in 1..n : h[i] = step[h[i - 1]]
  BY <1>1 DEF Unrolls
<1>3. h = Tabled(h)
  BY <1>2
<1>4. G = Tabled(G)
  BY <1>3 DEF Made
<1> HIDE DEF G
<1>5. DOMAIN G = 0..n /\ G[0] = base /\ \A i \in 1..n : G[i] = step[G[i - 1]]
  BY <1>4
<1> DEFINE C == {i \in 0..n : G[i] \in X}
<1>6. 0 \in C
  BY <1>5
<1>7. ASSUME NEW i \in 1..n, i - 1 \in C PROVE i \in C
  BY <1>5, <1>7
<1>8. \A i \in 0..n : i \in C
  <2> HIDE DEF C
  <2>1. QED
    BY <1>6, <1>7, NumberInduction
<1>9. G \in [0..n -> X]
  BY <1>4, <1>8
<1>10. QED
  BY <1>5, <1>9 DEF G

LEMMA RoundsAre ==
  ASSUME NEW X, NEW base \in X, NEW step \in [X -> X]
  PROVE  /\ Rounds(0, base, step) = base
         /\ \A n \in Nat : /\ Rounds(n, base, step) \in X
                           /\ Rounds(n + 1, base, step) = step[Rounds(n, base, step)]
<1>1. \A n : Rounds(n, base, step) = Made(n, base, step)[n]
  BY DEF Rounds, Made
<1>2. Rounds(0, base, step) = base
  BY <1>1, MadeIs
<1>3. ASSUME NEW n \in Nat PROVE Rounds(n, base, step) \in X
  BY <1>1, MadeIs
<1>4. ASSUME NEW n \in Nat PROVE Rounds(n + 1, base, step) = step[Rounds(n, base, step)]
  <2> DEFINE G == Made(n, base, step)
             H == Made(n + 1, base, step)
             C == {i \in 0..n : H[i] = G[i]}
  <2>1. G[0] = base /\ \A i \in 1..n : G[i] = step[G[i - 1]]
    BY MadeIs
  <2>2. H[0] = base /\ \A i \in 1..(n + 1) : H[i] = step[H[i - 1]]
    BY MadeIs
  <2> HIDE DEF G, H
  <2>3. 0 \in C
    BY <2>1, <2>2
  <2>4. ASSUME NEW i \in 1..n, i - 1 \in C PROVE i \in C
    BY <2>1, <2>2, <2>4
  <2>5. \A i \in 0..n : i \in C
    <3> HIDE DEF C
    <3>1. QED
      BY <2>3, <2>4, NumberInduction
  <2>6. H[n] = G[n]
    BY <2>5
  <2>7. H[n + 1] = step[H[n]]
    BY <2>2
  <2>8. QED
    BY <1>1, <2>6, <2>7 DEF G, H
<1>5. QED
  BY <1>2, <1>3, <1>4

\* What holds at first and is kept by a step holds after any number.
LEMMA RoundsKeep ==
  ASSUME NEW X, NEW base \in X, NEW step \in [X -> X], NEW C, base \in C, \A x \in X : x \in C => step[x] \in C
  PROVE  \A n \in Nat : Rounds(n, base, step) \in C
<1> DEFINE D == {n \in Nat : Rounds(n, base, step) \in C}
<1>1. 0 \in D
  BY RoundsAre
<1>2. ASSUME NEW n \in Nat, n \in D PROVE n + 1 \in D
  BY <1>2, RoundsAre
<1> HIDE DEF D
<1>3. \A n \in Nat : n \in D
  BY <1>1, <1>2, Inductively
<1>4. QED
  BY <1>3 DEF D

-----------------------------------------------------------------------------
(* The reference: relaxing every jump. *)

Weighting(links, weight) == weight \in [Nodes(links) -> {1, 2}]
Cheap(links, weight, source, k) == Rounds(k, Origin(links, source), Relaxed(links, weight))
Offers(links, weight, before, m) ==
  {before[n] + weight[m] : n \in {x \in Nodes(links) : m \in links[x] /\ before[x] # Unreachable}}

LEMMA RelaxedIs ==
  ASSUME NEW links, IsGraph(links), NEW weight, Weighting(links, weight), NEW before \in [Nodes(links) -> Nat]
  PROVE  LET after == Relaxed(links, weight)[before] IN
           /\ after \in [Nodes(links) -> Nat]
           /\ \A m \in Nodes(links) : after[m] <= before[m]
           /\ \A n \in Nodes(links) : before[n] # Unreachable => \A m \in links[n] : after[m] <= before[n] + weight[m]
           /\ \A m \in Nodes(links) :
                \/ after[m] = before[m]
                \/ \E n \in Nodes(links) : m \in links[n] /\ before[n] # Unreachable /\ after[m] = before[n] + weight[m]
<1> DEFINE after == Relaxed(links, weight)[before]
           All(m) == {before[m]} \cup Offers(links, weight, before, m)
<1>1. after = [m \in Nodes(links) |-> Min(All(m))]
  BY DEF Relaxed, Offers
<1>2. ASSUME NEW m \in Nodes(links) PROVE Min(All(m)) \in All(m) /\ All(m) \subseteq Nat /\ \A x \in All(m) : Min(All(m)) <= x
  <2>1. All(m) \subseteq Nat /\ All(m) # {}
    BY DEF Offers, Weighting
  <2> HIDE DEF All
  <2>2. \E x \in All(m) : \A y \in All(m) : x <= y
    BY <2>1, SmallestNat
  <2>3. QED
    BY <2>1, <2>2 DEF Min
<1> HIDE DEF after
<1>3. ASSUME NEW m \in Nodes(links) PROVE after[m] \in Nat /\ after[m] \in All(m) /\ \A x \in All(m) : after[m] <= x
  BY <1>1, <1>2
<1>4. \A n \in Nodes(links) : links[n] \subseteq Nodes(links)
  BY DEF IsGraph
<1>5. ASSUME NEW n \in Nodes(links), before[n] # Unreachable, NEW m \in links[n] PROVE after[m] <= before[n] + weight[m]
  BY <1>3, <1>4, <1>5 DEF Offers
<1>6. ASSUME NEW m \in Nodes(links)
      PROVE  \/ after[m] = before[m]
             \/ \E n \in Nodes(links) : m \in links[n] /\ before[n] # Unreachable /\ after[m] = before[n] + weight[m]
  BY <1>3 DEF Offers
<1>7. after \in [Nodes(links) -> Nat]
  BY <1>1, <1>3
<1>8. \A m \in Nodes(links) : after[m] <= before[m]
  BY <1>3
<1> HIDE DEF All
<1>9. QED
  BY <1>5, <1>6, <1>7, <1>8 DEF after

LEMMA CheapStep ==
  ASSUME NEW links, IsGraph(links), NEW weight, Weighting(links, weight), NEW source \in Nodes(links)
  PROVE  /\ Cheap(links, weight, source, 0) = Origin(links, source)
         /\ \A k \in Nat :
              /\ Cheap(links, weight, source, k) \in [Nodes(links) -> Nat]
              /\ Cheap(links, weight, source, k + 1) = Relaxed(links, weight)[Cheap(links, weight, source, k)]
<1>1. Origin(links, source) \in [Nodes(links) -> Nat]
  BY DEF Origin, Unreachable
<1>2. Relaxed(links, weight) \in [[Nodes(links) -> Nat] -> [Nodes(links) -> Nat]]
  <2>1. \A before \in [Nodes(links) -> Nat] : Relaxed(links, weight)[before] \in [Nodes(links) -> Nat]
    BY RelaxedIs
  <2>2. Relaxed(links, weight) = [before \in [Nodes(links) -> Nat] |-> Relaxed(links, weight)[before]]
    BY DEF Relaxed
  <2>3. QED
    BY <2>1, <2>2
<1>3. PICK X, base, step : X = [Nodes(links) -> Nat] /\ base = Origin(links, source) /\ step = Relaxed(links, weight)
  OBVIOUS
<1>4. base \in X /\ step \in [X -> X]
  BY <1>1, <1>2, <1>3
<1>5. \A k : Cheap(links, weight, source, k) = Rounds(k, base, step)
  BY <1>3 DEF Cheap
<1>6. /\ Rounds(0, base, step) = base
      /\ \A n \in Nat : Rounds(n, base, step) \in X /\ Rounds(n + 1, base, step) = step[Rounds(n, base, step)]
  BY <1>4, RoundsAre
<1>7. \A n \in Nat : n + 1 \in Nat
  OBVIOUS
<1>8. QED
  BY <1>3, <1>5, <1>6, <1>7, Zenon

\* No jump improves a cost.
Closed(links, weight, cost) ==
  \A m \in Nodes(links) : cost[m] # Unreachable =>
    \A n \in links[m] : cost[n] # Unreachable /\ cost[n] <= cost[m] + weight[n]

\* What no jump improves is not above what relaxing finds from any place.
LEMMA ClosedBelow ==
  ASSUME NEW links, IsGraph(links), NEW weight, Weighting(links, weight), NEW cost \in [Nodes(links) -> Nat],
         Closed(links, weight, cost), NEW h \in Nodes(links), NEW a \in Nat, cost[h] # Unreachable, cost[h] <= a
  PROVE  \A k \in Nat : \A m \in Nodes(links) :
           Cheap(links, weight, h, k)[m] # Unreachable =>
             cost[m] # Unreachable /\ cost[m] <= a + Cheap(links, weight, h, k)[m]
<1> DEFINE c(k) == Cheap(links, weight, h, k)
           C == {k \in Nat : \A m \in Nodes(links) : c(k)[m] # Unreachable => cost[m] # Unreachable /\ cost[m] <= a + c(k)[m]}
<1>0. \A k \in Nat : c(k) \in [Nodes(links) -> Nat]
  BY CheapStep
<1>1. 0 \in C
  BY CheapStep DEF Origin
<1>2. ASSUME NEW k \in Nat, k \in C PROVE k + 1 \in C
  <2>1. ASSUME NEW m \in Nodes(links), c(k + 1)[m] # Unreachable
        PROVE  cost[m] # Unreachable /\ cost[m] <= a + c(k + 1)[m]
    <3>1. c(k + 1) = Relaxed(links, weight)[c(k)]
      BY CheapStep
    <3>2. \/ c(k + 1)[m] = c(k)[m]
          \/ \E n \in Nodes(links) : m \in links[n] /\ c(k)[n] # Unreachable /\ c(k + 1)[m] = c(k)[n] + weight[m]
      <4>1. c(k) \in [Nodes(links) -> Nat]
        BY <1>0
      <4> HIDE DEF c
      <4>2. QED
        BY <3>1, <4>1, RelaxedIs
    <3> HIDE DEF c
    <3>3. CASE c(k + 1)[m] = c(k)[m]
      BY <1>2, <2>1, <3>3
    <3>4. ASSUME NEW n \in Nodes(links), m \in links[n], c(k)[n] # Unreachable, c(k + 1)[m] = c(k)[n] + weight[m]
          PROVE  cost[m] # Unreachable /\ cost[m] <= a + c(k + 1)[m]
      <4>1. cost[n] # Unreachable /\ cost[n] <= a + c(k)[n]
        BY <1>2, <3>4
      <4>2. cost[m] # Unreachable /\ cost[m] <= cost[n] + weight[m]
        BY <3>4, <4>1 DEF Closed
      <4>3. cost[m] \in Nat /\ cost[n] \in Nat /\ weight[m] \in Nat
        BY DEF Weighting
      <4>5. c(k)[n] \in Nat
        <5>1. c(k) \in [Nodes(links) -> Nat]
          BY <1>0
        <5>2. QED
          BY <5>1
      <4>4. QED
        BY <3>4, <4>1, <4>2, <4>3, <4>5
    <3>5. QED
      BY <3>2, <3>3, <3>4
  <2> HIDE DEF c
  <2>2. QED
    BY <2>1
<1> HIDE DEF C
<1>3. \A k \in Nat : k \in C
  BY <1>1, <1>2, Inductively
<1>4. QED
  BY <1>3 DEF C

-----------------------------------------------------------------------------
(* What a search must find, and what follows from it. *)

Sound(links, weight, source, cost, hop) ==
  /\ cost \in [Nodes(links) -> Nat] /\ hop \in Hops(links)
  /\ cost[source] = 0 /\ Closed(links, weight, cost)
  /\ \A m \in Nodes(links) : cost[m] # Unreachable =>
       cost[m] <= 2 * Size(links) /\ Cheapest(links, weight, source)[m] <= cost[m]
  /\ \A m \in Nodes(links) \ {source} : cost[m] # Unreachable =>
       hop[m] \in links[source] /\ Cheapest(links, weight, hop[m])[m] + weight[hop[m]] <= cost[m]
  /\ \A m \in Nodes(links) : cost[m] = Unreachable => hop[m] = NoHop

LEMMA SizeIs == ASSUME NEW links, IsGraph(links) PROVE Size(links) \in Nat /\ 2 * Size(links) < Unreachable
BY FS_CardinalityType DEF IsGraph, Size

LEMMA SoundIsCheapest ==
  ASSUME NEW links, IsGraph(links), NEW weight, Weighting(links, weight), NEW source \in Nodes(links),
         NEW cost, NEW hop, Sound(links, weight, source, cost, hop)
  PROVE  \A m \in Nodes(links) : cost[m] = Cheapest(links, weight, source)[m]
<1> DEFINE c == Cheapest(links, weight, source)
<1>1. Size(links) \in Nat /\ 2 * Size(links) < Unreachable /\ Unreachable \in Nat
  BY SizeIs DEF Unreachable
<1>2. c = Cheap(links, weight, source, Size(links))
  BY DEF Cheapest, Cheap
<1>3. c \in [Nodes(links) -> Nat]
  BY <1>1, <1>2, CheapStep
<1>4. \A m \in Nodes(links) : c[m] # Unreachable => cost[m] # Unreachable /\ cost[m] <= 0 + c[m]
  <2>1. cost \in [Nodes(links) -> Nat] /\ cost[source] = 0 /\ Closed(links, weight, cost)
    BY DEF Sound
  <2>2. cost[source] # Unreachable /\ cost[source] <= 0
    BY <2>1 DEF Unreachable
  <2> HIDE DEF c
  <2>3. QED
    BY <1>1, <1>2, <2>1, <2>2, ClosedBelow
<1>5. \A m \in Nodes(links) : cost[m] # Unreachable => cost[m] <= 2 * Size(links) /\ c[m] <= cost[m]
  BY DEF Sound
<1>6. \A m \in Nodes(links) : cost[m] \in Nat
  BY DEF Sound
<1> HIDE DEF c
<1>7. ASSUME NEW m \in Nodes(links) PROVE cost[m] = c[m]
  <2>1. cost[m] \in Nat /\ c[m] \in Nat
    BY <1>3, <1>6
  <2>2. CASE cost[m] = Unreachable
    BY <1>4, <2>2
  <2>3. CASE cost[m] # Unreachable
    <3>1. c[m] <= cost[m] /\ cost[m] <= 2 * Size(links)
      BY <1>5, <2>3
    <3>2. c[m] # Unreachable
      BY <1>1, <2>1, <3>1
    <3>3. cost[m] <= 0 + c[m]
      BY <1>4, <3>2
    <3>4. QED
      BY <2>1, <3>1, <3>3
  <2>4. QED
    BY <2>2, <2>3
<1>8. QED
  BY <1>7 DEF c

LEMMA HopsAreSound ==
  ASSUME NEW links, IsGraph(links), NEW weight, Weighting(links, weight), NEW cost, NEW hop,
         \A s \in Nodes(links) : Sound(links, weight, s, cost[s], hop[s]),
         NEW s \in Nodes(links), NEW t \in Nodes(links), s # t, cost[s][t] # Unreachable
  PROVE  /\ hop[s][t] \in links[s] /\ hop[s][t] \in Nodes(links) /\ cost[hop[s][t]][t] # Unreachable
         /\ cost[s][t] = weight[hop[s][t]] + cost[hop[s][t]][t]
<1> DEFINE h == hop[s][t]
           c == Cheapest(links, weight, h)[t]
<1>1. Size(links) \in Nat /\ 2 * Size(links) < Unreachable /\ Unreachable \in Nat
  BY SizeIs DEF Unreachable
<1>2. /\ h \in links[s] /\ c + weight[h] <= cost[s][t] /\ cost[s][t] <= 2 * Size(links)
      /\ cost[s] \in [Nodes(links) -> Nat] /\ cost[s][s] = 0 /\ Closed(links, weight, cost[s])
  BY DEF Sound
<1>3. h \in Nodes(links)
  BY <1>2 DEF IsGraph
<1>4. /\ cost[h] \in [Nodes(links) -> Nat] /\ cost[h][h] = 0 /\ Closed(links, weight, cost[h])
      /\ cost[h][t] # Unreachable => c <= cost[h][t]
  <2>1. Sound(links, weight, h, cost[h], hop[h])
    BY <1>3
  <2> HIDE DEF h
  <2>2. QED
    BY <1>3, <2>1 DEF Sound
<1>5. Cheapest(links, weight, h) = Cheap(links, weight, h, Size(links))
  BY DEF Cheapest, Cheap
<1>6. c \in Nat /\ weight[h] \in {1, 2} /\ cost[s][t] \in Nat /\ cost[h][t] \in Nat
  <2>1. Cheapest(links, weight, h) \in [Nodes(links) -> Nat]
    <3> HIDE DEF h
    <3>1. QED
      BY <1>1, <1>3, <1>5, CheapStep
  <2> HIDE DEF h
  <2>2. QED
    BY <1>2, <1>3, <1>4, <2>1 DEF Weighting
<1>7. c # Unreachable
  <2> HIDE DEF c, h
  <2>1. QED
    BY <1>1, <1>2, <1>6
<1>8. cost[h][t] # Unreachable /\ cost[h][t] <= 0 + c
  <2>1. cost[h][h] # Unreachable /\ cost[h][h] <= 0
    BY <1>4 DEF Unreachable
  <2>2. PICK row : row = cost[h]
    OBVIOUS
  <2> HIDE DEF h
  <2>3. \A k \in Nat : \A m \in Nodes(links) : Cheap(links, weight, h, k)[m] # Unreachable =>
          row[m] # Unreachable /\ row[m] <= 0 + Cheap(links, weight, h, k)[m]
    BY <1>3, <1>4, <2>1, <2>2, ClosedBelow
  <2>4. QED
    BY <1>1, <1>5, <1>7, <2>2, <2>3
<1>9. cost[s][t] <= weight[h] + c
  <2>1. cost[s][h] # Unreachable /\ cost[s][h] <= cost[s][s] + weight[h]
    BY <1>2 DEF Closed, Unreachable
  <2>2. PICK row : row = cost[s]
    OBVIOUS
  <2>3. cost[s][h] <= weight[h] /\ weight[h] \in Nat
    BY <1>2, <1>6, <2>1
  <2> HIDE DEF h
  <2>4. \A k \in Nat : \A m \in Nodes(links) : Cheap(links, weight, h, k)[m] # Unreachable =>
          row[m] # Unreachable /\ row[m] <= weight[h] + Cheap(links, weight, h, k)[m]
    BY <1>2, <1>3, <2>1, <2>2, <2>3, ClosedBelow
  <2>5. QED
    BY <1>1, <1>5, <1>7, <2>2, <2>4
<1> HIDE DEF c, h
<1>10. cost[s][t] = weight[h] + cost[h][t]
  BY <1>2, <1>4, <1>6, <1>8, <1>9
<1>11. QED
  BY <1>2, <1>3, <1>8, <1>10 DEF h

-----------------------------------------------------------------------------
(* Following the first hops. *)

Rows(links, weight, cost, hop) ==
  /\ IsGraph(links) /\ Weighting(links, weight) /\ DOMAIN hop = Nodes(links)
  /\ \A s \in Nodes(links) : Sound(links, weight, s, cost[s], hop[s])

\* From a system the target can be reached from, a hop leads to one from which what
\* the hop has cost less remains; the target is not left.
LEMMA HopLeads ==
  ASSUME NEW links, NEW weight, NEW cost, NEW hop, Rows(links, weight, cost, hop),
         NEW s \in Nodes(links), NEW t \in Nodes(links), cost[s][t] # Unreachable
  PROVE  LET u == Following(hop, t)[s] IN
           /\ u \in Nodes(links) /\ cost[u][t] # Unreachable /\ cost[s][t] \in Nat
           /\ IF s = t THEN u = t /\ cost[s][t] = 0
              ELSE u \in links[s] /\ cost[s][t] = weight[u] + cost[u][t] /\ cost[s][t] > cost[u][t]
<1> DEFINE u == Following(hop, t)[s]
<1>1. u = IF s = t \/ hop[s][t] = NoHop THEN s ELSE hop[s][t]
  BY DEF Rows, Following
<1>2. \A m \in Nodes(links) : cost[m] \in [Nodes(links) -> Nat] /\ cost[m][m] = 0
  BY DEF Rows, Sound
<1>3. CASE s = t
  BY <1>1, <1>2, <1>3
<1>4. CASE s # t
  <2>1. /\ hop[s][t] \in links[s] /\ hop[s][t] \in Nodes(links) /\ cost[hop[s][t]][t] # Unreachable
        /\ cost[s][t] = weight[hop[s][t]] + cost[hop[s][t]][t]
    BY <1>4, HopsAreSound DEF Rows
  <2>2. hop[s][t] # NoHop
    BY <2>1 DEF Rows, IsGraph
  <2>3. u = hop[s][t]
    BY <1>1, <1>4, <2>2
  <2> HIDE DEF u
  <2>4. cost[u][t] \in Nat /\ weight[u] \in {1, 2} /\ cost[s][t] \in Nat
    BY <1>2, <2>1, <2>3 DEF Rows, Weighting
  <2>5. u \in Nodes(links) /\ cost[u][t] # Unreachable /\ u \in links[s] /\ cost[s][t] = weight[u] + cost[u][t]
    BY <2>1, <2>3
  <2>6. cost[s][t] > cost[u][t]
    BY <2>4, <2>5
  <2>7. QED
    BY <1>4, <2>4, <2>5, <2>6 DEF u
<1>5. QED
  BY <1>3, <1>4

\* Where a bot is after k hops.
After(hop, s, t, k) == Rounds(k, s, Following(hop, t))

LEMMA FollowingStays ==
  ASSUME NEW links, NEW weight, NEW cost, NEW hop, Rows(links, weight, cost, hop), NEW t \in Nodes(links)
  PROVE  Following(hop, t) \in [Nodes(links) -> Nodes(links)]
BY DEF Rows, Following, Sound, Hops

LEMMA AfterStep ==
  ASSUME NEW N, NEW hop, NEW t, NEW s \in N, Following(hop, t) \in [N -> N]
  PROVE  /\ After(hop, s, t, 0) = s
         /\ \A k \in Nat : After(hop, s, t, k) \in N /\ After(hop, s, t, k + 1) = Following(hop, t)[After(hop, s, t, k)]
<1>1. PICK F : F = Following(hop, t)
  OBVIOUS
<1>2. /\ Rounds(0, s, F) = s
      /\ \A n \in Nat : Rounds(n, s, F) \in N /\ Rounds(n + 1, s, F) = F[Rounds(n, s, F)]
  BY <1>1, RoundsAre
<1>3. QED
  BY <1>1, <1>2 DEF After

LEMMA AfterHops ==
  ASSUME NEW links, NEW weight, NEW cost, NEW hop, Rows(links, weight, cost, hop),
         NEW s \in Nodes(links), NEW t \in Nodes(links), cost[s][t] # Unreachable
  PROVE  /\ \A k \in Nat : cost[After(hop, s, t, k)][t] \in Nat \ {Unreachable}
         /\ After(hop, s, t, 2 * Size(links)) = t
<1> DEFINE at(k) == After(hop, s, t, k)
           C == {k \in Nat : cost[at(k)][t] \in Nat \ {Unreachable} /\ (at(k) = t \/ cost[at(k)][t] + k <= cost[s][t])}
<1>1. /\ at(0) = s
      /\ \A k \in Nat : at(k) \in Nodes(links) /\ at(k + 1) = Following(hop, t)[at(k)]
  <2>1. /\ After(hop, s, t, 0) = s
        /\ \A k \in Nat : After(hop, s, t, k) \in Nodes(links) /\ After(hop, s, t, k + 1) = Following(hop, t)[After(hop, s, t, k)]
    <3>1. Following(hop, t) \in [Nodes(links) -> Nodes(links)]
      BY FollowingStays
    <3>2. QED
      BY <3>1, AfterStep
  <2>2. QED
    BY <2>1
<1>2. cost[s][t] \in Nat
  BY DEF Rows, Sound
<1>3. cost[t][t] = 0 /\ cost[s][t] <= 2 * Size(links) /\ Size(links) \in Nat
  BY SizeIs DEF Rows, Sound
<1> HIDE DEF at
<1>4. 0 \in C
  BY <1>1, <1>2
<1>5. ASSUME NEW k \in Nat, k \in C PROVE k + 1 \in C
  <2>1. PICK p : p = at(k)
    OBVIOUS
  <2>2. PICK u : u = Following(hop, t)[p]
    OBVIOUS
  <2>3. p \in Nodes(links) /\ cost[p][t] \in Nat /\ cost[p][t] # Unreachable /\ u = at(k + 1)
    BY <1>1, <1>5, <2>1, <2>2
  <2>4. /\ u \in Nodes(links) /\ cost[u][t] # Unreachable
        /\ IF p = t THEN u = t ELSE cost[p][t] > cost[u][t]
    <3>1. PICK F : F = Following(hop, t)
      OBVIOUS
    <3>2. /\ F[p] \in Nodes(links) /\ cost[F[p]][t] # Unreachable
          /\ IF p = t THEN F[p] = t ELSE cost[p][t] > cost[F[p]][t]
      BY <2>3, <3>1, HopLeads
    <3>3. QED
      BY <2>2, <3>1, <3>2
  <2>5. cost[u][t] \in Nat
    BY <2>4 DEF Rows, Sound
  <2>6. p = t \/ cost[p][t] + k <= cost[s][t]
    BY <1>5, <2>1
  <2>7. u = t \/ cost[u][t] + (k + 1) <= cost[s][t]
    BY <1>2, <2>3, <2>4, <2>5, <2>6
  <2>8. QED
    BY <2>3, <2>4, <2>5, <2>7
<1> HIDE DEF C
<1>6. \A k \in Nat : k \in C
  BY <1>4, <1>5, Inductively
<1> USE DEF C
<1>7. \A k \in Nat : cost[at(k)][t] \in Nat \ {Unreachable}
  BY <1>6
<1>8. at(2 * Size(links)) = t
  <2>1. PICK n : n = 2 * Size(links)
    OBVIOUS
  <2>2. n \in Nat /\ n \in C
    BY <1>3, <1>6, <2>1
  <2>3. PICK p : p = at(n)
    OBVIOUS
  <2>4. p \in Nodes(links) /\ cost[p][t] \in Nat /\ cost[p][t] # Unreachable /\ (p = t \/ cost[p][t] + n <= cost[s][t])
    BY <1>1, <2>2, <2>3
  <2>5. CASE p # t
    <3>1. PICK u : u = Following(hop, t)[p]
      OBVIOUS
    <3>2. u \in Nodes(links) /\ cost[p][t] > cost[u][t]
      BY <2>4, <2>5, <3>1, HopLeads
    <3>3. cost[u][t] \in Nat
      BY <3>2 DEF Rows, Sound
    <3>4. QED
      BY <1>2, <1>3, <2>1, <2>2, <2>4, <2>5, <3>2, <3>3
  <2>6. QED
    BY <2>1, <2>3, <2>5
<1>9. QED
  BY <1>7, <1>8 DEF at

LEMMA HopsMakeTheWay ==
  ASSUME NEW links, NEW weight, NEW cost, NEW hop, Rows(links, weight, cost, hop),
         NEW s \in Nodes(links), NEW t \in Nodes(links), cost[s][t] # Unreachable
  PROVE  IsCheapestWay(links, weight, s, t, PathHops(hop, s, t), cost[s][t])
<1> DEFINE at(k) == After(hop, s, t, k)
           most == 2 * Size(links)
           Arrivals == {k \in 0..most : at(k) = t} \cup {most}
           length == Min(Arrivals)
           path == [k \in 1..length |-> at(k)]
<1>1. /\ at(0) = s
      /\ \A k \in Nat : at(k) \in Nodes(links) /\ at(k + 1) = Following(hop, t)[at(k)]
  <2>1. /\ After(hop, s, t, 0) = s
        /\ \A k \in Nat : After(hop, s, t, k) \in Nodes(links) /\ After(hop, s, t, k + 1) = Following(hop, t)[After(hop, s, t, k)]
    <3>1. Following(hop, t) \in [Nodes(links) -> Nodes(links)]
      BY FollowingStays
    <3>2. QED
      BY <3>1, AfterStep
  <2>2. QED
    BY <2>1
<1>2. (\A k \in Nat : cost[at(k)][t] \in Nat \ {Unreachable}) /\ at(most) = t
  BY AfterHops
<1>3. most \in Nat /\ cost[t][t] = 0 /\ cost[s][t] \in Nat /\ IsGraph(links) /\ Weighting(links, weight)
  BY SizeIs DEF Rows, Sound
<1>4. PathHops(hop, s, t) = path
  BY DEF PathHops, After, Rows, Size
<1> HIDE DEF at, most
<1>5. length \in Nat /\ at(length) = t /\ \A k \in Nat : k < length => at(k) # t
  <2>1. Arrivals \subseteq Nat /\ Arrivals # {}
    BY <1>3
  <2>2. \E x \in Arrivals : \A y \in Arrivals : x <= y
    <3> HIDE DEF Arrivals
    <3>1. QED
      BY <2>1, SmallestNat
  <2>3. length \in Arrivals /\ \A y \in Arrivals : length <= y
    BY <2>2 DEF Min
  <2> HIDE DEF length
  <2>4. length \in 0..most /\ at(length) = t
    BY <1>2, <1>3, <2>3
  <2>5. ASSUME NEW k \in Nat, k < length PROVE at(k) # t
    <3>1. k \in 0..most
      BY <1>3, <2>4, <2>5
    <3>2. k \notin Arrivals
      BY <2>3, <2>4, <2>5
    <3>3. QED
      BY <3>1, <3>2
  <2>6. QED
    BY <1>3, <2>4, <2>5
<1> HIDE DEF length
<1>6. ASSUME NEW k \in Nat, k < length
      PROVE  /\ at(k + 1) \in links[at(k)] /\ cost[at(k)][t] = weight[at(k + 1)] + cost[at(k + 1)][t]
  <2>1. PICK p : p = at(k)
    OBVIOUS
  <2>2. PICK u : u = Following(hop, t)[p]
    OBVIOUS
  <2>3. p \in Nodes(links) /\ cost[p][t] # Unreachable /\ p # t /\ u = at(k + 1)
    BY <1>1, <1>2, <1>5, <1>6, <2>1, <2>2
  <2>4. u \in links[p] /\ cost[p][t] = weight[u] + cost[u][t]
    <3>1. PICK F : F = Following(hop, t)
      OBVIOUS
    <3>2. F[p] \in links[p] /\ cost[p][t] = weight[F[p]] + cost[F[p]][t]
      BY <2>3, <3>1, HopLeads
    <3>3. QED
      BY <2>2, <3>1, <3>2
  <2>5. QED
    BY <2>1, <2>3, <2>4
<1>7. IsWay(links, s, t, path)
  <2>1. DOMAIN path = 1..length /\ Len(path) = length /\ path \in Seq(Nodes(links))
    BY <1>1, <1>5
  <2>2. ASSUME NEW i \in 1..length PROVE path[i] \in links[IF i = 1 THEN s ELSE path[i - 1]]
    <3>1. i - 1 \in Nat /\ i - 1 < length /\ (i - 1) + 1 = i
      BY <1>5
    <3>2. at(i) \in links[at(i - 1)]
      BY <1>6, <3>1
    <3>3. (IF i = 1 THEN s ELSE path[i - 1]) = at(i - 1)
      <4>1. i # 1 => i - 1 \in 1..length
        BY <1>5
      <4>2. i = 1 => i - 1 = 0
        OBVIOUS
      <4>3. i # 1 => path[i - 1] = at(i - 1)
        BY <4>1
      <4> HIDE DEF path
      <4>4. QED
        BY <1>1, <4>2, <4>3
    <3>4. QED
      BY <3>2, <3>3
  <2>3. t = IF path = <<>> THEN s ELSE path[Len(path)]
    <3>1. CASE length = 0
      BY <1>1, <1>5, <2>1, <3>1
    <3>2. CASE length # 0
      <4>1. length \in 1..length
        BY <1>5, <3>2
      <4>2. path # <<>> /\ path[length] = t
        BY <1>5, <2>1, <4>1
      <4> HIDE DEF path
      <4>3. QED
        BY <2>1, <4>2
    <3>3. QED
      BY <3>1, <3>2
  <2> HIDE DEF path
  <2>4. QED
    BY <2>1, <2>2, <2>3 DEF IsWay
<1>8. PathLength(path, weight) = cost[s][t]
  <2> DEFINE W == [k \in 1..length |-> weight[path[k]]]
             Sum(k) == SumFunctionOnSet(W, 1..k)
             C == {k \in 0..length : Sum(k) \in Nat /\ Sum(k) + cost[at(k)][t] = cost[s][t]}
  <2>1. \A k \in 1..length : W[k] = weight[at(k)] /\ W[k] \in {1, 2}
    BY <1>1, <1>3, <1>5 DEF Weighting
  <2>2. 0 \in C
    <3>1. 1..0 = {}
      OBVIOUS
    <3>2. Sum(0) = 0
      BY <3>1, SumEmpty
    <3> HIDE DEF Sum
    <3>3. 0 \in 0..length /\ 0 + cost[at(0)][t] = cost[s][t]
      BY <1>1, <1>3, <1>5
    <3>4. QED
      BY <3>2, <3>3
  <2> HIDE DEF W
  <2>3. ASSUME NEW k \in 1..length, k - 1 \in C PROVE k \in C
    <3>1. Sum(k) = Sum(k - 1) + W[k]
      <4>1. k \in Nat \ {0} /\ \A i \in 1..k : W[i] \in Int
        BY <1>5, <2>1
      <4>2. QED
        BY <4>1, SumLast
    <3>2. k - 1 \in Nat /\ k - 1 < length /\ (k - 1) + 1 = k
      BY <1>5
    <3>3. cost[at(k - 1)][t] = weight[at(k)] + cost[at(k)][t]
      BY <1>6, <3>2
    <3>4. Sum(k - 1) \in Nat /\ Sum(k - 1) + cost[at(k - 1)][t] = cost[s][t]
      BY <2>3
    <3>5. W[k] = weight[at(k)] /\ W[k] \in {1, 2} /\ cost[at(k)][t] \in Nat
      BY <1>2, <1>5, <2>1
    <3> HIDE DEF Sum
    <3>6. QED
      BY <1>5, <3>1, <3>3, <3>4, <3>5
  <2> HIDE DEF C
  <2>4. \A k \in 0..length : k \in C
    BY <1>5, <2>2, <2>3, NumberInduction
  <2>5. length \in C
    BY <1>5, <2>4
  <2>6. Sum(length) = cost[s][t]
    BY <1>3, <1>5, <2>5 DEF C
  <2>7. PathLength(path, weight) = Sum(length)
    BY DEF PathLength, W
  <2>8. QED
    BY <2>6, <2>7
<1>9. QED
  BY <1>4, <1>7, <1>8 DEF IsCheapestWay

-----------------------------------------------------------------------------
(* A search that settles the nearest place it has found, round after round. *)

LEMMA CheapFalls ==
  ASSUME NEW links, IsGraph(links), NEW weight, Weighting(links, weight), NEW h \in Nodes(links), NEW k \in Nat
  PROVE  /\ Cheap(links, weight, h, k) \in [Nodes(links) -> Nat] /\ Cheap(links, weight, h, k + 1) \in [Nodes(links) -> Nat]
         /\ \A m \in Nodes(links) : Cheap(links, weight, h, k + 1)[m] <= Cheap(links, weight, h, k)[m]
         /\ \A n \in Nodes(links) : Cheap(links, weight, h, k)[n] # Unreachable =>
              \A m \in links[n] : Cheap(links, weight, h, k + 1)[m] <= Cheap(links, weight, h, k)[n] + weight[m]
         /\ Cheap(links, weight, h, k)[h] = 0
<1> DEFINE c(i) == Cheap(links, weight, h, i)
           C == {i \in Nat : c(i)[h] = 0}
<1>1. ASSUME NEW i \in Nat
      PROVE  /\ c(i) \in [Nodes(links) -> Nat] /\ c(i + 1) \in [Nodes(links) -> Nat]
             /\ \A m \in Nodes(links) : c(i + 1)[m] <= c(i)[m]
             /\ \A n \in Nodes(links) : c(i)[n] # Unreachable => \A m \in links[n] : c(i + 1)[m] <= c(i)[n] + weight[m]
  <2>1. c(i) \in [Nodes(links) -> Nat] /\ c(i + 1) = Relaxed(links, weight)[c(i)]
    BY CheapStep
  <2> HIDE DEF c
  <2>2. PICK before : before = c(i)
    OBVIOUS
  <2>3. PICK after : after = Relaxed(links, weight)[before]
    OBVIOUS
  <2>4. /\ after \in [Nodes(links) -> Nat]
        /\ \A m \in Nodes(links) : after[m] <= before[m]
        /\ \A n \in Nodes(links) : before[n] # Unreachable => \A m \in links[n] : after[m] <= before[n] + weight[m]
    BY <2>1, <2>2, <2>3, RelaxedIs
  <2>5. QED
    BY <2>1, <2>2, <2>3, <2>4
<1>2. 0 \in C
  BY CheapStep DEF Origin
<1>3. ASSUME NEW i \in Nat, i \in C PROVE i + 1 \in C
  <2>1. c(i)[h] = 0 /\ c(i + 1)[h] <= c(i)[h] /\ c(i + 1)[h] \in Nat
    BY <1>1, <1>3
  <2>2. QED
    BY <2>1
<1> HIDE DEF C
<1>4. \A i \in Nat : i \in C
  BY <1>2, <1>3, Inductively
<1>5. k \in C
  BY <1>4
<1>6. QED
  BY <1>1, <1>5 DEF C

Found(links, row) == {m \in Nodes(links) : row.cost[m] # Unreachable}
Settled(links, row) == Found(links, row) \ row.front

\* After k rounds: what is settled is closed and no dearer than what is found only, and
\* each cost and each first hop is that of a way.
Searching(links, weight, source, k, row) ==
  /\ row.cost \in [Nodes(links) -> Nat] /\ row.hop \in Hops(links) /\ row.front \subseteq Found(links, row)
  /\ row.cost[source] = 0
  /\ \A m \in Settled(links, row) : \A n \in links[m] : n \in Found(links, row) /\ row.cost[n] <= row.cost[m] + weight[n]
  /\ \A m \in Settled(links, row) : \A n \in row.front : row.cost[m] <= row.cost[n]
  /\ \A m \in Found(links, row) \ {source} : \E p \in Settled(links, row) : m \in links[p] /\ row.cost[m] = row.cost[p] + weight[m]
  /\ \A m \in Found(links, row) : row.cost[m] <= 2 * k /\ Cheap(links, weight, source, k)[m] <= row.cost[m]
  /\ \A m \in Found(links, row) \ {source} :
       row.hop[m] \in links[source] /\ Cheap(links, weight, row.hop[m], k)[m] + weight[row.hop[m]] <= row.cost[m]
  /\ \A m \in Nodes(links) \ Found(links, row) : row.hop[m] = NoHop
  /\ row.front # {} => Cardinality(Settled(links, row)) = k

\* One round settles c, a nearest of those found, and finds what it has jumps to.
Settles(links, weight, source, c, row, next) ==
  LET new == {m \in links[c] : row.cost[m] = Unreachable}
  IN /\ c \in row.front /\ \A m \in row.front : row.cost[c] <= row.cost[m]
     /\ next.cost = [m \in Nodes(links) |-> IF m \in new THEN row.cost[c] + weight[m] ELSE row.cost[m]]
     /\ next.hop = [m \in Nodes(links) |-> IF m \notin new THEN row.hop[m] ELSE IF c = source THEN m ELSE row.hop[c]]
     /\ next.front = (row.front \ {c}) \cup new

LEMMA SearchSettles ==
  ASSUME NEW links, IsGraph(links), NEW weight, Weighting(links, weight), NEW source \in Nodes(links),
         NEW k \in Nat, k < Size(links), NEW row, Searching(links, weight, source, k, row),
         NEW c, NEW next, Settles(links, weight, source, c, row, next)
  PROVE  Searching(links, weight, source, k + 1, next)
<1> DEFINE N == Nodes(links)
           new == {m \in links[c] : row.cost[m] = Unreachable}
           found == Found(links, row)
           found2 == Found(links, next)
           settled == Settled(links, row)
           settled2 == Settled(links, next)
<1>0. /\ Size(links) \in Nat /\ 2 * Size(links) < Unreachable /\ Unreachable \in Nat /\ k + 1 \in Nat
      /\ \A n \in N : links[n] \subseteq N /\ weight[n] \in {1, 2}
  BY SizeIs DEF Unreachable, IsGraph, Weighting
<1>1. /\ row.cost \in [N -> Nat] /\ row.hop \in Hops(links) /\ row.front \subseteq found /\ row.cost[source] = 0
      /\ found = {m \in N : row.cost[m] # Unreachable} /\ settled = found \ row.front
  BY DEF Searching, Found, Settled
<1>2. /\ c \in row.front /\ \A m \in row.front : row.cost[c] <= row.cost[m]
      /\ next.cost = [m \in N |-> IF m \in new THEN row.cost[c] + weight[m] ELSE row.cost[m]]
      /\ next.hop = [m \in N |-> IF m \notin new THEN row.hop[m] ELSE IF c = source THEN m ELSE row.hop[c]]
      /\ next.front = (row.front \ {c}) \cup new
  BY DEF Settles
<1>3. c \in found /\ c \in N /\ c \notin settled /\ new \subseteq N /\ new \cap found = {} /\ new = {m \in links[c] : row.cost[m] = Unreachable}
  BY <1>0, <1>1, <1>2
<1>4. found2 = {m \in N : next.cost[m] # Unreachable} /\ settled2 = found2 \ next.front
  BY DEF Found, Settled
<1>5. row.cost[c] \in Nat /\ row.cost[c] <= 2 * k /\ row.cost[c] + 2 < Unreachable
  <2>1. row.cost[c] <= 2 * k
    BY <1>3 DEF Searching
  <2>2. QED
    BY <1>0, <1>1, <1>3, <2>1
<1> HIDE DEF N, found, found2, settled, settled2, new
<1>6. ASSUME NEW m \in N PROVE IF m \in new THEN next.cost[m] = row.cost[c] + weight[m] /\ next.cost[m] \in Nat /\ next.cost[m] # Unreachable
                                        ELSE next.cost[m] = row.cost[m] /\ next.cost[m] \in Nat
  BY <1>0, <1>1, <1>2, <1>5
<1>7. found2 = found \cup new /\ settled2 = settled \cup {c}
  <2>1. found2 = found \cup new
    BY <1>1, <1>3, <1>4, <1>6
  <2>2. QED
    BY <1>1, <1>2, <1>3, <1>4, <2>1
<1>8. \A m \in found : next.cost[m] = row.cost[m] /\ row.cost[m] \in Nat /\ m \in N /\ m \notin new /\ next.hop[m] = row.hop[m]
  BY <1>1, <1>2, <1>3, <1>6
<1>9. \A m \in new : next.cost[m] = row.cost[c] + weight[m] /\ m \in N /\ m \in links[c] /\ m # source /\ m \notin found
                     /\ next.hop[m] = IF c = source THEN m ELSE row.hop[c]
  BY <1>0, <1>1, <1>2, <1>3, <1>6
<1>10. next.cost \in [N -> Nat] /\ next.cost[source] = 0 /\ next.front \subseteq found2
  <2>1. source \in N /\ source \in found /\ source \notin new
    BY <1>1, <1>3 DEF N, Unreachable
  <2>2. next.cost[source] = 0
    BY <1>1, <1>6, <2>1
  <2>3. next.cost \in [N -> Nat]
    BY <1>2, <1>6
  <2>4. QED
    BY <1>1, <1>2, <1>3, <1>7, <2>2, <2>3
<1>11. next.hop \in Hops(links)
  <2>1. \A m \in N : next.hop[m] \in N \cup {NoHop}
    BY <1>1, <1>2, <1>3 DEF Hops, N
  <2>2. QED
    BY <1>2, <2>1 DEF Hops, N
<1>12. \A m \in settled : row.cost[m] <= row.cost[c] /\ m \in found
  BY <1>1, <1>2 DEF Searching, settled
<1>13. ASSUME NEW m \in found PROVE row.cost[m] <= row.cost[c] + weight[m] \/ m \notin links[c]
  <2>1. CASE m = source
    BY <1>0, <1>1, <1>5, <2>1
  <2>2. CASE m # source
    <3>1. PICK p \in settled : row.cost[m] = row.cost[p] + weight[m]
      BY <2>2 DEF Searching, settled, found
    <3>2. row.cost[p] <= row.cost[c] /\ row.cost[p] \in Nat /\ m \in N
      BY <1>1, <1>8, <1>12
    <3>3. QED
      BY <1>0, <1>5, <3>1, <3>2
  <2>3. QED
    BY <2>1, <2>2
<1>14. ASSUME NEW m \in settled2, NEW n \in links[m] PROVE n \in found2 /\ next.cost[n] <= next.cost[m] + weight[n]
  <2>1. CASE m \in settled
    <3>1. n \in found /\ row.cost[n] <= row.cost[m] + weight[n]
      BY <2>1 DEF Searching, settled, found
    <3>2. QED
      BY <1>7, <1>8, <1>12, <2>1, <3>1
  <2>2. CASE m = c
    <3>1. n \in N /\ (n \in new \/ n \in found)
      BY <1>0, <1>1, <1>3, <2>2
    <3>2. CASE n \in new
      BY <1>0, <1>3, <1>5, <1>7, <1>8, <1>9, <2>2, <3>1, <3>2
    <3>3. CASE n \in found
      BY <1>3, <1>7, <1>8, <1>13, <2>2, <3>1, <3>3
    <3>4. QED
      BY <3>1, <3>2, <3>3
  <2>3. QED
    BY <1>7, <2>1, <2>2
<1>15. ASSUME NEW m \in settled2, NEW n \in next.front PROVE next.cost[m] <= next.cost[n]
  <2>1. next.cost[m] <= row.cost[c] /\ next.cost[m] \in Nat
    BY <1>3, <1>5, <1>7, <1>8, <1>12
  <2>2. CASE n \in new
    <3>1. weight[n] \in {1, 2} /\ next.cost[n] = row.cost[c] + weight[n]
      BY <1>0, <1>9, <2>2
    <3>2. QED
      BY <1>5, <2>1, <3>1
  <2>3. CASE n \in row.front
    <3>1. row.cost[c] <= row.cost[n] /\ next.cost[n] = row.cost[n] /\ row.cost[n] \in Nat
      BY <1>1, <1>2, <1>8, <2>3
    <3>2. QED
      BY <1>5, <2>1, <3>1
  <2>4. QED
    BY <1>2, <2>2, <2>3
<1>16. ASSUME NEW m \in found2 \ {source} PROVE \E p \in settled2 : m \in links[p] /\ next.cost[m] = next.cost[p] + weight[m]
  <2>1. CASE m \in new
    BY <1>3, <1>7, <1>8, <1>9, <2>1
  <2>2. CASE m \in found
    <3>1. PICK p \in settled : m \in links[p] /\ row.cost[m] = row.cost[p] + weight[m]
      BY <2>2 DEF Searching, settled, found
    <3>2. p \in settled2 /\ next.cost[p] = row.cost[p] /\ next.cost[m] = row.cost[m]
      BY <1>7, <1>8, <1>12, <2>2
    <3>3. QED
      BY <3>1, <3>2
  <2>3. QED
    BY <1>7, <2>1, <2>2
<1>17. ASSUME NEW h \in N
       PROVE  /\ Cheap(links, weight, h, k) \in [N -> Nat] /\ Cheap(links, weight, h, k + 1) \in [N -> Nat]
              /\ \A m \in N : Cheap(links, weight, h, k + 1)[m] <= Cheap(links, weight, h, k)[m]
              /\ \A n \in N : Cheap(links, weight, h, k)[n] # Unreachable =>
                   \A m \in links[n] : Cheap(links, weight, h, k + 1)[m] <= Cheap(links, weight, h, k)[n] + weight[m]
              /\ Cheap(links, weight, h, k + 1)[h] = 0
  <2>1. PICK M : M = Nodes(links)
    OBVIOUS
  <2>2. /\ Cheap(links, weight, h, k) \in [M -> Nat] /\ Cheap(links, weight, h, k + 1) \in [M -> Nat]
        /\ \A m \in M : Cheap(links, weight, h, k + 1)[m] <= Cheap(links, weight, h, k)[m]
        /\ \A n \in M : Cheap(links, weight, h, k)[n] # Unreachable =>
             \A m \in links[n] : Cheap(links, weight, h, k + 1)[m] <= Cheap(links, weight, h, k)[n] + weight[m]
        /\ Cheap(links, weight, h, k)[h] = 0
    BY <2>1, CheapFalls DEF N
  <2>3. Cheap(links, weight, h, k + 1)[h] = 0
    BY <1>0, CheapFalls DEF N
  <2>4. QED
    BY <2>1, <2>2, <2>3 DEF N
<1>18. ASSUME NEW m \in found2 PROVE next.cost[m] <= 2 * (k + 1) /\ Cheap(links, weight, source, k + 1)[m] <= next.cost[m]
  <2> DEFINE a(i, n) == Cheap(links, weight, source, i)[n]
  <2>0. m \in N /\ source \in N /\ \A n \in N : a(k, n) \in Nat /\ a(k + 1, n) \in Nat /\ a(k + 1, n) <= a(k, n)
    BY <1>4, <1>17 DEF N
  <2>1. \A n \in found : row.cost[n] <= 2 * k /\ a(k, n) <= row.cost[n]
    BY DEF Searching, found
  <2>2. CASE m \in found
    <3>1. row.cost[m] <= 2 * k /\ a(k, m) <= row.cost[m] /\ next.cost[m] = row.cost[m] /\ row.cost[m] \in Nat /\ a(k, m) \in Nat /\ a(k + 1, m) \in Nat
          /\ a(k + 1, m) <= a(k, m)
      BY <1>8, <2>0, <2>1, <2>2
    <3> HIDE DEF a
    <3>2. next.cost[m] <= 2 * (k + 1) /\ a(k + 1, m) <= next.cost[m]
      BY <3>1
    <3>3. QED
      BY <3>2 DEF a
  <2>3. CASE m \in new
    <3>1. a(k, c) <= row.cost[c] /\ a(k, c) \in Nat /\ a(k + 1, m) \in Nat /\ weight[m] \in {1, 2}
          /\ next.cost[m] = row.cost[c] + weight[m] /\ m \in links[c]
      BY <1>0, <1>3, <1>9, <2>0, <2>1, <2>3
    <3>2. a(k, c) # Unreachable
      <4> HIDE DEF a
      <4>1. QED
        BY <1>0, <1>5, <3>1
    <3>3. a(k + 1, m) <= a(k, c) + weight[m]
      BY <1>3, <1>17, <2>0, <3>1, <3>2
    <3> HIDE DEF a
    <3>4. next.cost[m] <= 2 * (k + 1) /\ a(k + 1, m) <= next.cost[m]
      BY <1>5, <3>1, <3>3
    <3>5. QED
      BY <3>4 DEF a
  <2>4. QED
    BY <1>7, <2>2, <2>3
<1>19. ASSUME NEW m \in found2 \ {source}
       PROVE  next.hop[m] \in links[source] /\ Cheap(links, weight, next.hop[m], k + 1)[m] + weight[next.hop[m]] <= next.cost[m]
  <2> DEFINE b(i, h, n) == Cheap(links, weight, h, i)[n]
  <2>0. m \in N /\ source \in N /\ \A h, n \in N : b(k, h, n) \in Nat /\ b(k + 1, h, n) \in Nat /\ b(k + 1, h, n) <= b(k, h, n)
    BY <1>4, <1>17 DEF N
  <2>1. \A n \in found \ {source} : row.hop[n] \in links[source] /\ row.hop[n] \in N /\ b(k, row.hop[n], n) + weight[row.hop[n]] <= row.cost[n]
    BY <1>0, <2>0 DEF Searching, found
  <2>2. CASE m \in found
    <3>1. PICK h \in N : h = row.hop[m]
      BY <2>1, <2>2
    <3>2. next.hop[m] = h /\ h \in links[source] /\ b(k, h, m) + weight[h] <= row.cost[m] /\ next.cost[m] = row.cost[m] /\ row.cost[m] \in Nat
      BY <1>8, <2>1, <2>2, <3>1
    <3>3. b(k, h, m) \in Nat /\ b(k + 1, h, m) \in Nat /\ b(k + 1, h, m) <= b(k, h, m) /\ weight[h] \in {1, 2}
      BY <1>0, <2>0
    <3> HIDE DEF b
    <3>4. b(k + 1, h, m) + weight[h] <= next.cost[m]
      BY <3>2, <3>3
    <3>5. QED
      BY <3>2, <3>4 DEF b
  <2>3. CASE m \in new /\ c = source
    <3>1. next.hop[m] = m /\ m \in links[source] /\ next.cost[m] = row.cost[c] + weight[m] /\ row.cost[c] = 0 /\ weight[m] \in {1, 2}
      BY <1>0, <1>1, <1>9, <2>0, <2>3
    <3>2. b(k + 1, m, m) = 0
      BY <1>17, <2>0
    <3> HIDE DEF b
    <3>3. b(k + 1, m, m) + weight[m] <= next.cost[m]
      BY <3>1, <3>2
    <3>4. QED
      BY <3>1, <3>3 DEF b
  <2>4. CASE m \in new /\ c # source
    <3>1. PICK h \in N : h = row.hop[c]
      BY <1>3, <2>1, <2>4
    <3>2. next.hop[m] = h /\ h \in links[source] /\ b(k, h, c) + weight[h] <= row.cost[c] /\ next.cost[m] = row.cost[c] + weight[m] /\ m \in links[c]
      BY <1>3, <1>9, <2>1, <2>4, <3>1
    <3>3. b(k, h, c) \in Nat /\ b(k + 1, h, m) \in Nat /\ weight[h] \in {1, 2} /\ weight[m] \in {1, 2}
      BY <1>0, <1>3, <2>0
    <3>4. b(k, h, c) # Unreachable
      <4> HIDE DEF b
      <4>1. QED
        BY <1>0, <1>5, <3>2, <3>3
    <3>5. b(k + 1, h, m) <= b(k, h, c) + weight[m]
      BY <1>3, <1>17, <3>2, <3>4
    <3> HIDE DEF b
    <3>6. b(k + 1, h, m) + weight[h] <= next.cost[m]
      BY <1>5, <3>2, <3>3, <3>5
    <3>7. QED
      BY <3>2, <3>6 DEF b
  <2>5. QED
    BY <1>7, <2>2, <2>3, <2>4
<1>20. \A m \in N \ found2 : next.hop[m] = NoHop
  <2>1. \A m \in N \ found : row.hop[m] = NoHop
    BY DEF Searching, found, N
  <2>2. QED
    BY <1>2, <1>7, <2>1
<1>21. Cardinality(settled2) = k + 1
  <2>1. IsFiniteSet(settled)
    BY <1>1, FS_Subset DEF IsGraph, N
  <2>2. Cardinality(settled) = k
    BY <1>2 DEF Searching, settled
  <2>3. QED
    BY <1>3, <1>7, <2>1, <2>2, FS_AddElement
<1>22. QED
  BY <1>10, <1>11, <1>14, <1>15, <1>16, <1>18, <1>19, <1>20, <1>21 DEF Searching, N, found2, settled2

LEMMA SearchBegins ==
  ASSUME NEW links, IsGraph(links), NEW weight, Weighting(links, weight), NEW source \in Nodes(links),
         NEW row, row.cost = Origin(links, source), row.hop = NoHops(links), row.front = {source}
  PROVE  Searching(links, weight, source, 0, row)
<1>1. row.cost \in [Nodes(links) -> Nat] /\ row.hop \in Hops(links) /\ row.cost[source] = 0
  BY DEF Origin, NoHops, Hops, Unreachable
<1>2. Found(links, row) = {source} /\ Settled(links, row) = {}
  BY DEF Found, Settled, Origin, Unreachable
<1>3. Cheap(links, weight, source, 0)[source] = 0
  BY CheapStep DEF Origin
<1>4. \A m \in Nodes(links) : row.hop[m] = NoHop
  BY DEF NoHops
<1>5. Cardinality({}) = 0
  BY FS_EmptySet
<1>6. QED
  BY <1>1, <1>2, <1>3, <1>4, <1>5 DEF Searching

LEMMA SearchRests ==
  ASSUME NEW links, IsGraph(links), NEW weight, Weighting(links, weight), NEW source \in Nodes(links),
         NEW k \in Nat, NEW row, Searching(links, weight, source, k, row), row.front = {}
  PROVE  Searching(links, weight, source, k + 1, row)
<1> DEFINE a(i, h, m) == Cheap(links, weight, h, i)[m]
<1>1. \A h, m \in Nodes(links) : a(k, h, m) \in Nat /\ a(k + 1, h, m) \in Nat /\ a(k + 1, h, m) <= a(k, h, m)
  BY CheapFalls
<1>2. \A m \in Found(links, row) : m \in Nodes(links) /\ row.cost[m] \in Nat
  BY DEF Searching, Found
<1>3. \A m \in Found(links, row) : row.cost[m] <= 2 * k /\ a(k, source, m) <= row.cost[m]
  BY DEF Searching
<1>4. \A m \in Found(links, row) \ {source} : row.hop[m] \in links[source] /\ a(k, row.hop[m], m) + weight[row.hop[m]] <= row.cost[m]
  BY DEF Searching
<1>5. \A m \in links[source] : m \in Nodes(links) /\ weight[m] \in {1, 2}
  BY DEF IsGraph, Weighting
<1> HIDE DEF a
<1>6. \A m \in Found(links, row) : row.cost[m] <= 2 * (k + 1) /\ a(k + 1, source, m) <= row.cost[m]
  BY <1>1, <1>2, <1>3
<1>7. ASSUME NEW m \in Found(links, row) \ {source}
      PROVE  row.hop[m] \in links[source] /\ a(k + 1, row.hop[m], m) + weight[row.hop[m]] <= row.cost[m]
  <2>1. PICK h : h = row.hop[m]
    OBVIOUS
  <2>2. h \in Nodes(links) /\ weight[h] \in {1, 2} /\ m \in Nodes(links)
    BY <1>2, <1>4, <1>5, <2>1
  <2>3. a(k, h, m) \in Nat /\ a(k + 1, h, m) \in Nat /\ a(k + 1, h, m) <= a(k, h, m) /\ a(k, h, m) + weight[h] <= row.cost[m] /\ row.cost[m] \in Nat
    BY <1>1, <1>2, <1>4, <2>1, <2>2
  <2>4. a(k + 1, h, m) + weight[h] <= row.cost[m]
    BY <2>2, <2>3
  <2>5. QED
    BY <1>4, <2>1, <2>4
<1>8. QED
  BY <1>6, <1>7 DEF Searching, a

LEMMA SearchEnds ==
  ASSUME NEW links, IsGraph(links), NEW weight, Weighting(links, weight), NEW source \in Nodes(links),
         NEW row, Searching(links, weight, source, Size(links), row)
  PROVE  Sound(links, weight, source, row.cost, row.hop) /\ row.front = {}
<1>1. row.front = {}
  <2> SUFFICES ASSUME row.front # {} PROVE FALSE
    OBVIOUS
  <2>1. Settled(links, row) \subseteq Nodes(links) /\ Cardinality(Settled(links, row)) = Cardinality(Nodes(links))
    BY DEF Searching, Settled, Found, Size
  <2>2. Settled(links, row) = Nodes(links)
    BY <2>1, FS_Subset DEF IsGraph
  <2>3. QED
    BY <2>2 DEF Searching, Settled, Found
<1>2. Settled(links, row) = Found(links, row)
  BY <1>1 DEF Settled
<1>3. row.cost \in [Nodes(links) -> Nat] /\ row.hop \in Hops(links) /\ row.cost[source] = 0
  BY DEF Searching
<1>4. \A m \in Nodes(links) : m \in Found(links, row) <=> row.cost[m] # Unreachable
  BY DEF Found
<1>5. Closed(links, weight, row.cost)
  BY <1>2, <1>4 DEF Searching, Closed, Found
<1>6. \A h : Cheap(links, weight, h, Size(links)) = Cheapest(links, weight, h)
  BY DEF Cheap, Cheapest
<1>7. \A m \in Found(links, row) : row.cost[m] <= 2 * Size(links) /\ Cheapest(links, weight, source)[m] <= row.cost[m]
  BY <1>6 DEF Searching
<1>8. \A m \in Found(links, row) \ {source} :
         row.hop[m] \in links[source] /\ Cheapest(links, weight, row.hop[m])[m] + weight[row.hop[m]] <= row.cost[m]
  BY <1>6 DEF Searching
<1>9. \A m \in Nodes(links) \ Found(links, row) : row.hop[m] = NoHop
  BY DEF Searching
<1>10. QED
  BY <1>1, <1>3, <1>4, <1>5, <1>7, <1>8, <1>9 DEF Sound

-----------------------------------------------------------------------------
(* The weighted search settles the top of its heap: it never overtakes an entry. *)

Toll(links, penalized) == [n \in Nodes(links) |-> IF n \in penalized THEN 2 ELSE 1]
Heaped(links, row) ==
  [cost |-> row.cost, hop |-> row.hop, front |-> {m \in Nodes(links) : <<row.cost[m], m>> \in row.heap}]
Weighing(links, penalized, source, k, row) ==
  /\ row \in Weights(links) /\ \A e \in row.heap : row.cost[e[2]] = e[1] /\ e[1] # Unreachable
  /\ Searching(links, Toll(links, penalized), source, k, Heaped(links, row))

LEMMA TopExists ==
  ASSUME NEW N \in SUBSET Nat, NEW heap \in SUBSET (Nat \X N), heap # {}
  PROVE  \E e \in heap : IsTop(heap, e)
<1> DEFINE Costs == {e[1] : e \in heap}
<1>1. Costs \in SUBSET Nat /\ Costs # {}
  OBVIOUS
<1>2. PICK c \in Costs : \A x \in Costs : c <= x
  <2> HIDE DEF Costs
  <2>1. QED
    BY <1>1, SmallestNat
<1> DEFINE Names == {m \in N : <<c, m>> \in heap}
<1>3. Names \in SUBSET Nat /\ Names # {}
  <2>1. PICK e \in heap : c = e[1]
    OBVIOUS
  <2>2. e = <<e[1], e[2]>> /\ e[2] \in N
    OBVIOUS
  <2>3. e[2] \in Names
    BY <2>1, <2>2
  <2>4. QED
    BY <2>3
<1>4. PICK m \in Names : \A x \in Names : m <= x
  <2> HIDE DEF Names
  <2>1. QED
    BY <1>3, SmallestNat
<1>5. <<c, m>> \in heap /\ c \in Nat
  BY <1>1
<1>6. ASSUME NEW f \in heap PROVE c < f[1] \/ (c = f[1] /\ m <= f[2])
  <2>1. f[1] \in Nat /\ f[2] \in N /\ f = <<f[1], f[2]>> /\ c <= f[1]
    BY <1>2
  <2>2. c = f[1] => m <= f[2]
    BY <1>4, <2>1
  <2>3. QED
    BY <1>5, <2>1, <2>2
<1>7. IsTop(heap, <<c, m>>)
  BY <1>6 DEF IsTop
<1>8. QED
  BY <1>5, <1>7

LEMMA TollIsWeighting ==
  ASSUME NEW links, NEW penalized
  PROVE  Weighting(links, Toll(links, penalized))
BY DEF Weighting, Toll

LEMMA WeighStep ==
  ASSUME NEW links, IsGraph(links), NEW penalized, NEW source \in Nodes(links),
         NEW k \in Nat, k < Size(links), NEW row, Weighing(links, penalized, source, k, row)
  PROVE  Weighing(links, penalized, source, k + 1, WeighRoutes(links, penalized, source)[row])
<1> DEFINE N == Nodes(links)
           w == Toll(links, penalized)
           next == WeighRoutes(links, penalized, source)[row]
<1>0. /\ row \in Weights(links) /\ \A e \in row.heap : row.cost[e[2]] = e[1] /\ e[1] # Unreachable
      /\ Searching(links, w, source, k, Heaped(links, row)) /\ Weighting(links, w)
      /\ 2 * Size(links) < Unreachable /\ Size(links) \in Nat /\ Unreachable \in Nat
  BY SizeIs, TollIsWeighting DEF Weighing, Unreachable
<1>1. N \in SUBSET Nat /\ (\A n \in N : links[n] \subseteq N /\ w[n] \in {1, 2} /\ w[n] = IF n \in penalized THEN 2 ELSE 1)
  BY DEF IsGraph, Toll
<1>2. row.cost \in [N -> Nat] /\ row.hop \in [N -> N \cup {NoHop}] /\ row.heap \in SUBSET (Nat \X N)
  BY <1>0 DEF Weights, Hops
<1>3. CASE row.heap = {}
  <2>1. next = row
    BY <1>0, <1>3 DEF WeighRoutes
  <2>2. Heaped(links, row).front = {}
    BY <1>3 DEF Heaped
  <2> HIDE DEF next, w
  <2>3. Searching(links, w, source, k + 1, Heaped(links, row))
    BY <1>0, <2>2, SearchRests
  <2>4. QED
    BY <1>0, <2>1, <2>3 DEF Weighing, next, w
<1>4. CASE row.heap # {}
  <2>1. \E e \in row.heap : IsTop(row.heap, e)
    BY <1>1, <1>2, <1>4, TopExists
  <2> DEFINE top == CHOOSE e \in row.heap : IsTop(row.heap, e)
  <2>2. top \in row.heap /\ IsTop(row.heap, top)
    BY <2>1
  <2> DEFINE c == top[2]
             through(m) == top[1] + (IF m \in penalized THEN 2 ELSE 1)
             better == IF top[1] # row.cost[c] THEN {} ELSE {m \in links[c] : through(m) < row.cost[m]}
             new == {m \in links[c] : row.cost[m] = Unreachable}
             front == {m \in N : <<row.cost[m], m>> \in row.heap}
  <2>3. next = [cost |-> [m \in N |-> IF m \in better THEN through(m) ELSE row.cost[m]],
                hop  |-> [m \in N |-> IF m \notin better THEN row.hop[m] ELSE IF c = source THEN m ELSE row.hop[c]],
                heap |-> (row.heap \ {top}) \cup {<<through(m), m>> : m \in better}]
    BY <1>0, <2>1 DEF WeighRoutes
  <2> HIDE DEF top, w, next
  <2>4. c \in N /\ top[1] = row.cost[c] /\ top = <<row.cost[c], c>> /\ row.cost[c] # Unreachable /\ row.cost[c] \in Nat
    BY <1>0, <1>2, <2>2
  <2>5. front \subseteq N /\ \A m \in N : m \in front <=> <<row.cost[m], m>> \in row.heap
    OBVIOUS
  <2>6. c \in front /\ \A m \in front : row.cost[c] <= row.cost[m]
    <3>1. c \in front
      BY <2>2, <2>4
    <3>2. ASSUME NEW m \in front PROVE row.cost[c] <= row.cost[m]
      <4>1. <<row.cost[m], m>> \in row.heap /\ row.cost[m] \in Nat
        BY <1>2
      <4>2. top[1] < row.cost[m] \/ top[1] = row.cost[m]
        BY <2>2, <4>1 DEF IsTop
      <4>3. QED
        BY <2>4, <4>1, <4>2
    <3>3. QED
      BY <3>1, <3>2
  <2>h. Heaped(links, row) = [cost |-> row.cost, hop |-> row.hop, front |-> front]
    BY DEF Heaped
  <2> HIDE DEF front, c
  <2>7. \A m \in links[c] : m \in N /\ through(m) = row.cost[c] + w[m] /\ through(m) \in Nat
    BY <1>1, <2>4
  <2> HIDE DEF through
  <2>8. row.cost[c] <= 2 * k /\ row.cost[c] + 2 < Unreachable
    <3>1. c \in Found(links, Heaped(links, row))
      BY <2>4, <2>h DEF Found
    <3>2. row.cost[c] <= 2 * k
      BY <1>0, <2>h, <3>1 DEF Searching
    <3>3. QED
      BY <1>0, <2>4, <3>2
  <2>9. ASSUME NEW m \in links[c] PROVE through(m) < row.cost[m] <=> row.cost[m] = Unreachable
    <3>0. m \in N /\ row.cost[m] \in Nat /\ w[m] \in {1, 2} /\ through(m) = row.cost[c] + w[m]
      BY <1>1, <1>2, <2>7
    <3>1. CASE row.cost[m] = Unreachable
      BY <1>0, <2>4, <2>8, <3>0, <3>1
    <3>2. CASE row.cost[m] # Unreachable
      <4>1. m \in Found(links, Heaped(links, row))
        BY <2>h, <3>0, <3>2 DEF Found
      <4>2. CASE m = source
        <5>1. row.cost[m] = 0
          BY <1>0, <2>h, <4>2 DEF Searching
        <5>2. QED
          BY <2>4, <3>0, <3>2, <5>1
      <4>3. CASE m # source
        <5>1. PICK p \in Settled(links, Heaped(links, row)) : row.cost[m] = row.cost[p] + w[m]
          BY <1>0, <2>h, <4>1, <4>3 DEF Searching
        <5>2. row.cost[p] <= row.cost[c] /\ p \in N
          BY <1>0, <2>6, <2>h DEF Searching, Settled, Found
        <5>3. row.cost[p] \in Nat
          BY <1>2, <5>2
        <5>4. QED
          BY <2>4, <3>0, <3>2, <5>1, <5>2, <5>3
      <4>4. QED
        BY <4>2, <4>3
    <3>3. QED
      BY <3>1, <3>2
  <2>10. better = new
    BY <2>4, <2>9
  <2> HIDE DEF better, new
  <2>11. /\ next.cost = [m \in N |-> IF m \in new THEN row.cost[c] + w[m] ELSE row.cost[m]]
         /\ next.hop = [m \in N |-> IF m \notin new THEN row.hop[m] ELSE IF c = source THEN m ELSE row.hop[c]]
         /\ next.heap = (row.heap \ {top}) \cup {<<row.cost[c] + w[m], m>> : m \in new}
    <3>1. \A m \in new : through(m) = row.cost[c] + w[m]
      BY <2>7 DEF new
    <3>2. QED
      BY <2>3, <2>10, <3>1
  <2>12. \A m \in new : m \in N /\ m \in links[c] /\ row.cost[m] = Unreachable /\ w[m] \in {1, 2} /\ row.cost[c] + w[m] \in Nat /\ row.cost[c] + w[m] # Unreachable
    BY <1>0, <1>1, <2>4, <2>8 DEF new
  <2>13. next \in Weights(links)
    <3>1. next.cost \in [N -> Nat]
      BY <1>2, <2>11, <2>12
    <3>2. next.hop \in [N -> N \cup {NoHop}]
      <4>1. \A m \in N : next.hop[m] \in N \cup {NoHop}
        BY <1>2, <2>4, <2>11
      <4>2. QED
        BY <2>11, <4>1
    <3>3. next.heap \in SUBSET (Nat \X N)
      BY <1>2, <2>11, <2>12
    <3>4. next = [cost |-> next.cost, hop |-> next.hop, heap |-> next.heap]
      BY <2>3
    <3>5. QED
      BY <3>1, <3>2, <3>3, <3>4 DEF Weights, Hops
  <2>14. ASSUME NEW e \in next.heap PROVE next.cost[e[2]] = e[1] /\ e[1] # Unreachable
    <3>1. CASE e \in row.heap \ {top}
      <4>1. e[2] \in N /\ row.cost[e[2]] = e[1] /\ e[1] # Unreachable
        BY <1>0, <1>2, <3>1
      <4>2. e[2] \notin new
        BY <2>12, <4>1
      <4>3. QED
        BY <2>11, <4>1, <4>2
    <3>2. CASE e \in {<<row.cost[c] + w[m], m>> : m \in new}
      BY <2>11, <2>12, <3>2
    <3>3. QED
      BY <2>11, <3>1, <3>2
  <2>15. {m \in N : <<next.cost[m], m>> \in next.heap} = (front \ {c}) \cup new
    <3>1. ASSUME NEW m \in N PROVE <<next.cost[m], m>> \in next.heap <=> m \in (front \ {c}) \cup new
      <4>1. CASE m \in new
        BY <2>11, <4>1
      <4>2. CASE m \notin new
        <5>1. next.cost[m] = row.cost[m]
          BY <2>11, <4>2
        <5>2. <<row.cost[m], m>> \notin {<<row.cost[c] + w[x], x>> : x \in new}
          BY <4>2
        <5>3. <<row.cost[m], m>> = top <=> m = c
          BY <2>4
        <5>4. QED
          BY <2>5, <2>11, <4>2, <5>1, <5>2, <5>3
      <4>3. QED
        BY <4>1, <4>2
    <3>2. (front \ {c}) \cup new \subseteq N
      BY <2>5, <2>12
    <3>3. QED
      BY <3>1, <3>2
  <2>16. Settles(links, w, source, c, Heaped(links, row), Heaped(links, next))
    <3>1. PICK r : r = Heaped(links, row)
      OBVIOUS
    <3>2. PICK n : n = Heaped(links, next)
      OBVIOUS
    <3>3. r.cost = row.cost /\ r.hop = row.hop /\ r.front = front
      BY <2>h, <3>1
    <3>4. n.cost = next.cost /\ n.hop = next.hop /\ n.front = (front \ {c}) \cup new
      BY <2>15, <3>2 DEF Heaped
    <3>5. new = {m \in links[c] : r.cost[m] = Unreachable}
      BY <3>3 DEF new
    <3>6. Settles(links, w, source, c, r, n)
      BY <2>6, <2>11, <3>3, <3>4, <3>5 DEF Settles
    <3>7. QED
      BY <3>1, <3>2, <3>6
  <2>17. Searching(links, w, source, k + 1, Heaped(links, next))
    BY <1>0, <2>16, SearchSettles
  <2>18. QED
    BY <2>13, <2>14, <2>17 DEF Weighing, next, w
<1>5. QED
  BY <1>3, <1>4

LEMMA WeighType ==
  ASSUME NEW links, IsGraph(links), NEW penalized, NEW source
  PROVE  WeighRoutes(links, penalized, source) \in [Weights(links) -> Weights(links)]
<1> DEFINE N == Nodes(links)
           F == WeighRoutes(links, penalized, source)
<1>1. ASSUME NEW row \in Weights(links) PROVE F[row] \in Weights(links)
  <2> DEFINE next == F[row]
             top == CHOOSE e \in row.heap : IsTop(row.heap, e)
             c == top[2]
             through(m) == top[1] + (IF m \in penalized THEN 2 ELSE 1)
             better == IF top[1] # row.cost[c] THEN {} ELSE {m \in links[c] : through(m) < row.cost[m]}
  <2>1. CASE ~\E e \in row.heap : IsTop(row.heap, e)
    BY <2>1 DEF WeighRoutes
  <2>2. CASE \E e \in row.heap : IsTop(row.heap, e)
    <3>1. top \in row.heap
      BY <2>2
    <3>2. next = [cost |-> [m \in N |-> IF m \in better THEN through(m) ELSE row.cost[m]],
                  hop  |-> [m \in N |-> IF m \notin better THEN row.hop[m] ELSE IF c = source THEN m ELSE row.hop[c]],
                  heap |-> (row.heap \ {top}) \cup {<<through(m), m>> : m \in better}]
      BY <2>2 DEF WeighRoutes
    <3>3. row.cost \in [N -> Nat] /\ row.hop \in [N -> N \cup {NoHop}] /\ row.heap \in SUBSET (Nat \X N)
      BY DEF Weights, Hops
    <3> HIDE DEF top, next
    <3>4. top[1] \in Nat /\ c \in N
      BY <3>1, <3>3
    <3>5. (\A m : through(m) \in Nat) /\ better \subseteq N
      BY <3>4 DEF IsGraph
    <3> HIDE DEF through, better, c
    <3>6. next.cost \in [N -> Nat]
      BY <3>2, <3>3, <3>5
    <3>7. next.hop \in [N -> N \cup {NoHop}]
      <4>1. \A m \in N : next.hop[m] \in N \cup {NoHop}
        BY <3>2, <3>3, <3>4, <3>5
      <4>2. QED
        BY <3>2, <4>1
    <3>8. next.heap \in SUBSET (Nat \X N)
      BY <3>2, <3>3, <3>5
    <3>9. next = [cost |-> next.cost, hop |-> next.hop, heap |-> next.heap]
      BY <3>2
    <3>10. QED
      BY <3>6, <3>7, <3>8, <3>9 DEF Weights, Hops, next
  <2>3. QED
    BY <2>1, <2>2
<1>2. F = [row \in Weights(links) |-> F[row]]
  BY DEF WeighRoutes
<1> HIDE DEF F
<1>3. F \in [Weights(links) -> Weights(links)]
  BY <1>1, <1>2
<1>4. QED
  BY <1>3 DEF F

\* The heap is empty in the end.
LEMMA RoutesAreSound ==
  ASSUME NEW links, IsGraph(links), NEW penalized, NEW source \in Nodes(links)
  PROVE  LET routes == RoutesFrom(links, penalized, source)
         IN Sound(links, Toll(links, penalized), source, routes.cost, routes.hop) /\ routes.heap = {}
<1> DEFINE base == [cost |-> Origin(links, source), hop |-> NoHops(links), heap |-> {<<0, source>>}]
           step == WeighRoutes(links, penalized, source)
           row(k) == Rounds(k, base, step)
           C == {k \in 0..Size(links) : Weighing(links, penalized, source, k, row(k))}
<1>0. Size(links) \in Nat
  BY SizeIs
<1>1. Weighing(links, penalized, source, 0, base)
  <2>1. base \in Weights(links)
    BY DEF Weights, Origin, NoHops, Hops, Unreachable
  <2>2. \A e \in base.heap : base.cost[e[2]] = e[1] /\ e[1] # Unreachable
    BY DEF Origin, Unreachable
  <2>3. Heaped(links, base).front = {source}
    BY DEF Heaped, Origin
  <2>4. Heaped(links, base).cost = Origin(links, source) /\ Heaped(links, base).hop = NoHops(links)
    BY DEF Heaped
  <2>5. Searching(links, Toll(links, penalized), source, 0, Heaped(links, base))
    <3>1. PICK r : r = Heaped(links, base)
      OBVIOUS
    <3>2. r.cost = Origin(links, source) /\ r.hop = NoHops(links) /\ r.front = {source}
      BY <2>3, <2>4, <3>1
    <3>3. QED
      BY <3>1, <3>2, SearchBegins, TollIsWeighting
  <2>6. QED
    BY <2>1, <2>2, <2>5 DEF Weighing
<1> HIDE DEF base
<1>2. step \in [Weights(links) -> Weights(links)] /\ base \in Weights(links)
  BY <1>1, WeighType DEF Weighing
<1> HIDE DEF step
<1>3. row(0) = base /\ \A k \in Nat : row(k + 1) = step[row(k)]
  BY <1>2, RoundsAre
<1> HIDE DEF row
<1>4. 0 \in C
  BY <1>0, <1>1, <1>3
<1>5. ASSUME NEW k \in 1..Size(links), k - 1 \in C PROVE k \in C
  <2>1. PICK j : j = k - 1
    OBVIOUS
  <2>2. j \in Nat /\ j < Size(links) /\ j + 1 = k /\ Weighing(links, penalized, source, j, row(j))
    BY <1>0, <1>5, <2>1
  <2>3. PICK r : r = row(j)
    OBVIOUS
  <2>4. Weighing(links, penalized, source, j + 1, WeighRoutes(links, penalized, source)[r])
    BY <2>2, <2>3, WeighStep
  <2>5. row(k) = WeighRoutes(links, penalized, source)[r]
    BY <1>3, <2>2, <2>3 DEF step
  <2>6. QED
    BY <1>0, <2>2, <2>4, <2>5
<1> HIDE DEF C
<1>6. \A k \in 0..Size(links) : k \in C
  BY <1>0, <1>4, <1>5, NumberInduction
<1>7. Weighing(links, penalized, source, Size(links), row(Size(links)))
  BY <1>0, <1>6 DEF C
<1>8. PICK r : r = row(Size(links))
  OBVIOUS
<1>9. PICK final : final = Heaped(links, r)
  OBVIOUS
<1>10. final.cost = r.cost /\ final.hop = r.hop
  BY <1>9 DEF Heaped
<1>11. Sound(links, Toll(links, penalized), source, final.cost, final.hop) /\ final.front = {}
  BY <1>7, <1>8, <1>9, SearchEnds, TollIsWeighting DEF Weighing
<1>12. r.heap = {}
  <2>1. r.heap \subseteq Nat \X Nodes(links) /\ \A e \in r.heap : r.cost[e[2]] = e[1]
    BY <1>7, <1>8 DEF Weighing, Weights
  <2>2. \A m \in Nodes(links) : <<r.cost[m], m>> \notin r.heap
    BY <1>9, <1>11 DEF Heaped
  <2>3. QED
    BY <2>1, <2>2
<1>13. RoutesFrom(links, penalized, source) = r
  BY <1>8 DEF RoutesFrom, row, base, step
<1>14. QED
  BY <1>10, <1>11, <1>12, <1>13

-----------------------------------------------------------------------------
(* The breadth-first search settles the head of its queue: the queue is in the order of *)
(* distance, and its end at most one jump further than its head.                        *)

LEMMA NamesInOrder ==
  ASSUME NEW S \in SUBSET Nat, IsFiniteSet(S)
  PROVE  \E s \in SetToSeqs(S) : \A i, j \in DOMAIN s : i < j => s[i] < s[j]
<1> DEFINE Sorted(T) == \E s \in [1..Cardinality(T) -> T] : \A i, j \in 1..Cardinality(T) : i < j => s[i] < s[j]
           C == {T \in SUBSET S : Sorted(T)}
<1>1. ASSUME NEW T \in SUBSET S, \A x \in T : T \ {x} \in C PROVE T \in C
  <2>0. IsFiniteSet(T) /\ Cardinality(T) \in Nat /\ T \subseteq Nat
    BY FS_Subset, FS_CardinalityType
  <2>1. CASE T = {}
    <3>1. Cardinality(T) = 0
      BY <2>1, FS_EmptySet
    <3>2. 1..Cardinality(T) = {}
      BY <3>1
    <3>3. [i \in {} |-> 0] \in [1..Cardinality(T) -> T]
      BY <3>2
    <3>4. Sorted(T)
      BY <3>2, <3>3
    <3>5. QED
      BY <3>4
  <2>2. CASE T # {}
    <3>1. PICK f : f = [x \in T |-> x]
      OBVIOUS
    <3>2. \A x \in T : f[x] \in Int
      BY <2>0, <3>1
    <3>3. PICK x \in T : \A y \in T : f[y] <= f[x]
      BY <2>0, <2>2, <3>2, Extremes
    <3>4. \A y \in T : y <= x
      BY <3>1, <3>3
    <3>5. PICK n : n = Cardinality(T \ {x})
      OBVIOUS
    <3>6. n \in Nat /\ Cardinality(T) = n + 1
      <4>1. n = Cardinality(T) - 1
        BY <2>0, <3>5, FS_RemoveElement
      <4>2. IsFiniteSet(T \ {x})
        BY <2>0, FS_RemoveElement
      <4>3. n \in Nat
        BY <3>5, <4>2, FS_CardinalityType
      <4>4. QED
        BY <2>0, <4>1, <4>3
    <3>7. PICK r \in [1..n -> T \ {x}] : \A i, j \in 1..n : i < j => r[i] < r[j]
      BY <1>1, <3>5
    <3>8. PICK s : s = [i \in 1..(n + 1) |-> IF i = n + 1 THEN x ELSE r[i]]
      OBVIOUS
    <3>9. \A i \in 1..n : s[i] = r[i] /\ r[i] \in T /\ r[i] # x
      BY <3>6, <3>7, <3>8
    <3>10. s[n + 1] = x
      BY <3>6, <3>8
    <3>11. s \in [1..(n + 1) -> T]
      BY <3>6, <3>8, <3>9
    <3>12. ASSUME NEW i \in 1..(n + 1), NEW j \in 1..(n + 1), i < j PROVE s[i] < s[j]
      <4>1. i \in 1..n
        BY <3>6, <3>12
      <4>2. CASE j = n + 1
        <5>1. s[i] \in T /\ s[i] # x /\ s[j] = x
          BY <3>9, <3>10, <4>1, <4>2
        <5>2. s[i] \in Nat /\ x \in Nat /\ s[i] <= x
          BY <2>0, <3>4, <5>1
        <5>3. QED
          BY <5>1, <5>2
      <4>3. CASE j # n + 1
        <5>1. j \in 1..n
          BY <3>6, <4>3
        <5>2. QED
          BY <3>7, <3>9, <3>12, <4>1, <5>1
      <4>4. QED
        BY <4>2, <4>3
    <3>13. Sorted(T)
      BY <3>6, <3>11, <3>12
    <3>14. QED
      BY <3>13
  <2>3. QED
    BY <2>1, <2>2
<1> HIDE DEF C
<1>2. S \in C
  BY <1>1, SubsetInduction
<1>3. PICK s \in [1..Cardinality(S) -> S] : \A i, j \in 1..Cardinality(S) : i < j => s[i] < s[j]
  BY <1>2 DEF C
<1>4. \A i, j \in 1..Cardinality(S) : i # j => s[i] # s[j]
  <2>1. ASSUME NEW i \in 1..Cardinality(S), NEW j \in 1..Cardinality(S), i # j PROVE s[i] # s[j]
    <3>1. i < j \/ j < i
      BY <2>1
    <3>2. s[i] \in Nat /\ s[j] \in Nat
      OBVIOUS
    <3>3. s[i] < s[j] \/ s[j] < s[i]
      BY <1>3, <3>1
    <3>4. QED
      BY <3>2, <3>3
  <2>2. QED
    BY <2>1
<1>5. s \in SetToSeqs(S)
  BY <1>4 DEF SetToSeqs
<1>6. QED
  BY <1>3, <1>5

LEMMA ByNameIs ==
  ASSUME NEW S \in SUBSET Nat, IsFiniteSet(S)
  PROVE  /\ ByName(S) \in Seq(S) /\ \A x \in S : \E i \in DOMAIN ByName(S) : ByName(S)[i] = x
         /\ \A i, j \in DOMAIN ByName(S) : ByName(S)[i] = ByName(S)[j] => i = j
<1> DEFINE s == ByName(S)
           n == Cardinality(S)
<1>1. s \in SetToSeqs(S)
  BY NamesInOrder DEF ByName
<1>2. n \in Nat
  BY FS_CardinalityType
<1> HIDE DEF s
<1>3. s \in [1..n -> S] /\ \A i, j \in 1..n : i # j => s[i] # s[j]
  BY <1>1 DEF SetToSeqs
<1> HIDE DEF n
<1>4. s \in Injection(1..n, S)
  BY <1>3 DEF Injection, IsInjective
<1>5. Cardinality(1..n) = n /\ IsFiniteSet(1..n)
  BY <1>2, FS_Interval
<1>6. s \in Surjection(1..n, S)
  BY <1>4, <1>5, FS_Injection DEF n
<1>7. \A x \in S : \E i \in 1..n : s[i] = x
  BY <1>6 DEF Surjection
<1>8. s \in Seq(S) /\ DOMAIN s = 1..n
  BY <1>2, <1>3
<1>9. QED
  BY <1>3, <1>7, <1>8 DEF s

LEMMA NakedIsWeighting == ASSUME NEW links PROVE Weighting(links, Naked(links)) /\ \A n \in Nodes(links) : Naked(links)[n] = 1
BY DEF Weighting, Naked

Queued(row) == [cost |-> row.dist, hop |-> row.hop, front |-> {row.queue[i] : i \in DOMAIN row.queue}]
InOrder(dist, queue) ==
  /\ \A i, j \in DOMAIN queue : queue[i] = queue[j] => i = j
  /\ \A i, j \in DOMAIN queue : i < j => dist[queue[i]] <= dist[queue[j]]
  /\ \A i \in DOMAIN queue : dist[queue[i]] <= dist[queue[1]] + 1
Counting(links, source, k, row) ==
  /\ row \in Counts(links) /\ InOrder(row.dist, row.queue)
  /\ Searching(links, Naked(links), source, k, Queued(row))

\* The queue without its head, and with what the head leads to behind it.
GoesOn(N, dist, next, q, new, s, q2) ==
  /\ N \subseteq Nat /\ dist \in [N -> Nat] /\ next \in [N -> Nat] /\ q \in Seq(N) /\ q # <<>> /\ InOrder(dist, q)
  /\ new \subseteq N /\ s \in Seq(new)
  /\ \A x \in new : \E i \in DOMAIN s : s[i] = x
  /\ \A i, j \in DOMAIN s : s[i] = s[j] => i = j
  /\ \A i \in DOMAIN q : q[i] \notin new
  /\ \A m \in new : next[m] = dist[Head(q)] + 1
  /\ \A m \in N \ new : next[m] = dist[m]
  /\ q2 = Tail(q) \o s

LEMMA QueueGoesOn ==
  ASSUME NEW N, NEW dist, NEW dist2, NEW q, NEW new, NEW s, NEW q2,
         GoesOn(N, dist, dist2, q, new, s, q2)
  PROVE  /\ InOrder(dist2, q2) /\ q2 \in Seq(N)
         /\ Range(q2) = (Range(q) \ {Head(q)}) \cup new
<1>0. q2 = Tail(q) \o s
  BY DEF GoesOn
<1>h. /\ N \subseteq Nat /\ dist \in [N -> Nat] /\ dist2 \in [N -> Nat] /\ q \in Seq(N) /\ q # <<>> /\ InOrder(dist, q)
      /\ new \subseteq N /\ s \in Seq(new)
      /\ \A x \in new : \E i \in DOMAIN s : s[i] = x
      /\ \A i, j \in DOMAIN s : s[i] = s[j] => i = j
      /\ \A i \in DOMAIN q : q[i] \notin new
      /\ \A m \in new : dist2[m] = dist[Head(q)] + 1
      /\ \A m \in N \ new : dist2[m] = dist[m]
  BY DEF GoesOn
<1> USE <1>h
<1>1. PICK n : n = Len(q)
  OBVIOUS
<1>2. PICK l : l = Len(s)
  OBVIOUS
<1>3. PICK c : c = Head(q)
  OBVIOUS
<1>4. /\ n \in Nat /\ n >= 1 /\ l \in Nat /\ DOMAIN q = 1..n /\ DOMAIN s = 1..l /\ c = q[1] /\ c \in N
      /\ (\A i \in 1..n : q[i] \in N /\ q[i] \notin new) /\ \A i \in 1..l : s[i] \in new
  <2>1. n \in Nat /\ DOMAIN q = 1..n /\ \A i \in 1..n : q[i] \in N
    BY <1>1
  <2>2. l \in Nat /\ DOMAIN s = 1..l /\ \A i \in 1..l : s[i] \in new
    BY <1>2
  <2>3. n >= 1 /\ c = q[1]
    BY <1>1, <1>3
  <2>4. 1 \in 1..n
    BY <2>1, <2>3
  <2>5. QED
    BY <2>1, <2>2, <2>3, <2>4
<1>5. q2 \in Seq(N) /\ Len(q2) = (n - 1) + l /\ DOMAIN q2 = 1..((n - 1) + l)
  <2>1. Tail(q) \in Seq(N) /\ Len(Tail(q)) = n - 1
    BY <1>1
  <2>2. s \in Seq(N)
    <3>1. s = [i \in 1..l |-> s[i]]
      BY <1>2
    <3>2. \A i \in 1..l : s[i] \in N
      BY <1>4
    <3>3. s \in [1..l -> N]
      BY <3>1, <3>2
    <3>4. QED
      BY <1>4, <3>3
  <2>3. PICK t : t = Tail(q)
    OBVIOUS
  <2>4. t \in Seq(N) /\ Len(t) = n - 1 /\ q2 = t \o s
    BY <1>0, <2>1, <2>3
  <2>5. t \o s \in Seq(N) /\ Len(t \o s) = Len(t) + Len(s)
    <3>1. t \in Seq(N) /\ s \in Seq(N)
      BY <2>2, <2>4
    <3>2. QED
      BY ONLY <3>1, ConcatProperties
  <2>6. \A u \in Seq(N) : DOMAIN u = 1..Len(u)
    OBVIOUS
  <2>7. QED
    BY <1>0, <1>2, <2>4, <2>5, <2>6
<1>6. \A i \in 1..(n - 1) : q2[i] = q[i + 1] /\ i + 1 \in 1..n
  BY <1>0, <1>1, <1>4
<1>7. \A i \in 1..l : q2[(n - 1) + i] = s[i] /\ (n - 1) + i \in DOMAIN q2
  BY <1>0, <1>1, <1>2, <1>4, <1>5
<1>8. ASSUME NEW i \in DOMAIN q2
      PROVE  \/ i \in 1..(n - 1) /\ i + 1 \in 1..n /\ q2[i] = q[i + 1] /\ q2[i] \notin new /\ q2[i] \in N /\ dist2[q2[i]] = dist[q[i + 1]]
             \/ i > n - 1 /\ i - (n - 1) \in 1..l /\ q2[i] = s[i - (n - 1)] /\ q2[i] \in new /\ dist2[q2[i]] = dist[c] + 1
  <2>1. CASE i <= n - 1
    <3>1. i \in 1..(n - 1)
      BY <1>4, <1>5, <2>1
    <3>2. q2[i] = q[i + 1] /\ i + 1 \in 1..n
      BY <1>6, <3>1
    <3>3. QED
      BY <1>4, <3>1, <3>2
  <2>2. CASE ~(i <= n - 1)
    <3>1. PICK j : j = i - (n - 1)
      OBVIOUS
    <3>2. j \in 1..l /\ (n - 1) + j = i /\ i > n - 1
      BY <1>4, <1>5, <2>2, <3>1
    <3>3. q2[i] = s[j]
      BY <1>7, <3>2
    <3>4. QED
      BY <1>3, <1>4, <3>1, <3>2, <3>3
  <2>3. QED
    BY <2>1, <2>2
<1>9. /\ \A i, j \in 1..n : q[i] = q[j] => i = j
      /\ \A i, j \in 1..n : i < j => dist[q[i]] <= dist[q[j]]
      /\ \A i \in 1..n : dist[q[i]] <= dist[c] + 1
      /\ \A i \in 1..n : dist[q[i]] \in Nat
  BY <1>4 DEF InOrder
<1>10. ASSUME NEW i \in DOMAIN q2, NEW j \in DOMAIN q2, q2[i] = q2[j] PROVE i = j
  <2>1. CASE q2[i] \in new
    <3>1. s[i - (n - 1)] = s[j - (n - 1)] /\ i - (n - 1) \in DOMAIN s /\ j - (n - 1) \in DOMAIN s
      BY <1>4, <1>8, <1>10, <2>1
    <3>2. i - (n - 1) = j - (n - 1)
      BY <3>1
    <3>3. QED
      BY <1>4, <1>5, <3>2
  <2>2. CASE q2[i] \notin new
    <3>1. q[i + 1] = q[j + 1] /\ i + 1 \in 1..n /\ j + 1 \in 1..n
      BY <1>8, <1>10, <2>2
    <3>2. i + 1 = j + 1
      BY <1>9, <3>1
    <3>3. QED
      BY <1>4, <1>5, <3>2
  <2>3. QED
    BY <2>1, <2>2
<1>11. ASSUME NEW i \in DOMAIN q2, NEW j \in DOMAIN q2, i < j PROVE dist2[q2[i]] <= dist2[q2[j]]
  <2>1. CASE j <= n - 1
    <3>1. i + 1 \in 1..n /\ j + 1 \in 1..n /\ dist2[q2[i]] = dist[q[i + 1]] /\ dist2[q2[j]] = dist[q[j + 1]]
      BY <1>4, <1>5, <1>8, <1>11, <2>1
    <3>2. i + 1 < j + 1
      BY <1>4, <1>5, <1>11
    <3>3. QED
      BY <1>9, <3>1, <3>2
  <2>2. CASE ~(j <= n - 1)
    <3>1. dist2[q2[j]] = dist[c] + 1
      BY <1>4, <1>5, <1>8, <2>2
    <3>2. dist2[q2[i]] = dist[c] + 1 \/ \E k \in 1..n : dist2[q2[i]] = dist[q[k]]
      BY <1>8
    <3>3. dist[c] \in Nat
      BY <1>4
    <3>4. QED
      BY <1>9, <3>1, <3>2, <3>3
  <2>3. QED
    BY <2>1, <2>2
<1>12. ASSUME NEW i \in DOMAIN q2 PROVE dist2[q2[i]] <= dist2[q2[1]] + 1
  <2>1. 1 \in DOMAIN q2
    BY <1>4, <1>5
  <2>2. dist[c] \in Nat
    BY <1>4
  <2>3. dist2[q2[1]] >= dist[c] /\ dist2[q2[1]] \in Nat
    <3>1. CASE dist2[q2[1]] = dist[c] + 1
      BY <2>2, <3>1
    <3>2. CASE 1 + 1 \in 1..n /\ dist2[q2[1]] = dist[q[1 + 1]]
      BY <1>4, <1>9, <3>2
    <3>3. QED
      BY <1>8, <2>1, <3>1, <3>2
  <2>4. dist2[q2[i]] <= dist[c] + 1 /\ dist2[q2[i]] \in Nat
    <3>1. dist2[q2[i]] = dist[c] + 1 \/ \E k \in 1..n : dist2[q2[i]] = dist[q[k]]
      BY <1>8
    <3>2. QED
      BY <1>9, <2>2, <3>1
  <2>5. PICK x, y, z : x = dist2[q2[i]] /\ y = dist2[q2[1]] /\ z = dist[c]
    OBVIOUS
  <2>6. x \in Nat /\ y \in Nat /\ z \in Nat /\ x <= z + 1 /\ y >= z
    BY <2>2, <2>3, <2>4, <2>5
  <2>7. x <= y + 1
    BY <2>6
  <2>8. QED
    BY <2>5, <2>7
<1>13. {q2[i] : i \in DOMAIN q2} = ({q[i] : i \in DOMAIN q} \ {Head(q)}) \cup new
  <2>1. ASSUME NEW i \in DOMAIN q2 PROVE q2[i] \in ({q[k] : k \in DOMAIN q} \ {c}) \cup new
    <3>1. CASE q2[i] \in new
      BY <3>1
    <3>2. CASE q2[i] \notin new
      <4>1. i + 1 \in 1..n /\ q2[i] = q[i + 1] /\ i \in 1..(n - 1)
        BY <1>8, <3>2
      <4>2. q[i + 1] # q[1]
        BY <1>4, <1>9, <4>1
      <4>3. QED
        BY <1>4, <4>1, <4>2
    <3>3. QED
      BY <3>1, <3>2
  <2>2. ASSUME NEW k \in DOMAIN q, q[k] # c PROVE \E i \in DOMAIN q2 : q2[i] = q[k]
    <3>1. k # 1
      BY <1>4, <2>2
    <3>2. k - 1 \in 1..(n - 1) /\ k - 1 \in DOMAIN q2 /\ (k - 1) + 1 = k
      BY <1>4, <1>5, <3>1
    <3>3. q2[k - 1] = q[(k - 1) + 1]
      BY <1>6, <3>2
    <3>4. q2[k - 1] = q[k]
      BY <3>2, <3>3
    <3>5. QED
      BY <3>2, <3>4
  <2>3. ASSUME NEW m \in new PROVE \E i \in DOMAIN q2 : q2[i] = m
    <3>1. PICK i \in DOMAIN s : s[i] = m
      OBVIOUS
    <3>2. QED
      BY <1>4, <1>7, <3>1
  <2>4. {q2[i] : i \in DOMAIN q2} \subseteq ({q[k] : k \in DOMAIN q} \ {c}) \cup new
    BY <2>1
  <2>5. ASSUME NEW m \in ({q[k] : k \in DOMAIN q} \ {c}) \cup new PROVE m \in {q2[i] : i \in DOMAIN q2}
    <3>1. CASE m \in new
      BY <2>3, <3>1
    <3>2. CASE m \notin new
      <4>1. PICK k \in DOMAIN q : m = q[k] /\ m # c
        BY <3>2
      <4>2. QED
        BY <2>2, <4>1
    <3>3. QED
      BY <3>1, <3>2
  <2>6. QED
    BY <1>3, <2>4, <2>5
<1>14. QED
  BY <1>0, <1>5, <1>10, <1>11, <1>12, <1>13 DEF InOrder, Range

LEMMA CountStep ==
  ASSUME NEW links, IsGraph(links), NEW source \in Nodes(links),
         NEW k \in Nat, k < Size(links), NEW row, Counting(links, source, k, row)
  PROVE  Counting(links, source, k + 1, CountJumps(links, source)[row])
<1> DEFINE N == Nodes(links)
           w == Naked(links)
           next == CountJumps(links, source)[row]
<1>0. /\ row \in Counts(links) /\ InOrder(row.dist, row.queue) /\ Searching(links, w, source, k, Queued(row))
      /\ Weighting(links, w) /\ (\A n \in N : w[n] = 1) /\ N \in SUBSET Nat /\ IsFiniteSet(N)
      /\ 2 * Size(links) < Unreachable /\ Size(links) \in Nat /\ Unreachable \in Nat
  BY SizeIs, NakedIsWeighting DEF Counting, Unreachable, IsGraph
<1>1. row.dist \in [N -> Nat] /\ row.hop \in [N -> N \cup {NoHop}] /\ row.queue \in Seq(N)
  BY <1>0 DEF Counts, Hops
<1>2. CASE row.queue = <<>>
  <2>1. next = row
    BY <1>0, <1>2 DEF CountJumps
  <2>2. Queued(row).front = {}
    BY <1>2 DEF Queued
  <2> HIDE DEF next, w
  <2>3. Searching(links, w, source, k + 1, Queued(row))
    BY <1>0, <2>2, SearchRests
  <2>4. QED
    BY <1>0, <2>1, <2>3 DEF Counting, next, w
<1>3. CASE row.queue # <<>>
  <2> DEFINE c == Head(row.queue)
             new == {m \in links[c] : row.dist[m] = Unreachable}
             front == {row.queue[i] : i \in DOMAIN row.queue}
  <2>1. next = [dist  |-> [m \in N |-> IF m \in new THEN row.dist[c] + 1 ELSE row.dist[m]],
                hop   |-> [m \in N |-> IF m \notin new THEN row.hop[m] ELSE IF c = source THEN m ELSE row.hop[c]],
                queue |-> Tail(row.queue) \o ByName(new)]
    BY <1>0, <1>3 DEF CountJumps
  <2> HIDE DEF next, w
  <2>2. c \in N /\ 1 \in DOMAIN row.queue /\ c = row.queue[1] /\ \A i \in DOMAIN row.queue : row.queue[i] \in N
    <3>1. PICK q \in Seq(N) : q = row.queue
      BY <1>1
    <3>2. q # <<>>
      BY <1>3, <3>1
    <3>3. Head(q) \in N /\ 1 \in DOMAIN q /\ Head(q) = q[1] /\ \A i \in DOMAIN q : q[i] \in N
      BY <3>2
    <3>4. QED
      BY <3>1, <3>3
  <2>3. new \in SUBSET N
    BY <2>2 DEF IsGraph
  <2>4. c \in front /\ front \subseteq N
    BY <2>2
  <2>h. Queued(row) = [cost |-> row.dist, hop |-> row.hop, front |-> front]
    BY DEF Queued
  <2>5. \A m \in front : row.dist[m] # Unreachable
    <3>1. front \subseteq Found(links, Queued(row))
      BY <1>0, <2>h DEF Searching
    <3>2. QED
      BY <2>h, <3>1 DEF Found
  <2>6. \A i \in DOMAIN row.queue : row.queue[i] \notin new
    BY <2>5
  <2>7. \A m \in front : row.dist[c] <= row.dist[m]
    <3>1. ASSUME NEW i \in DOMAIN row.queue PROVE row.dist[row.queue[1]] <= row.dist[row.queue[i]]
      <4>1. CASE i = 1
        BY <1>1, <2>2, <4>1
      <4>2. CASE i # 1
        <5>1. DOMAIN row.queue = 1..Len(row.queue) /\ Len(row.queue) \in Nat
          BY <1>1
        <5>2. 1 < i
          BY <4>2, <5>1
        <5>3. QED
          BY <1>0, <2>2, <5>2 DEF InOrder
      <4>3. QED
        BY <4>1, <4>2
    <3>2. QED
      BY <2>2, <3>1
  <2> HIDE DEF front, c
  <2>8. IsFiniteSet(new) /\ new \in SUBSET Nat
    BY <1>0, <2>3, FS_Subset
  <2>9. PICK s : s = ByName(new)
    OBVIOUS
  <2>10. /\ s \in Seq(new) /\ \A x \in new : \E i \in DOMAIN s : s[i] = x
         /\ \A i, j \in DOMAIN s : s[i] = s[j] => i = j
    BY <2>8, <2>9, ByNameIs
  <2> HIDE DEF new
  <2>11. next.dist \in [N -> Nat] /\ \A m \in N : next.dist[m] = IF m \in new THEN row.dist[c] + 1 ELSE row.dist[m]
    BY <1>1, <2>1, <2>2
  <2>12. PICK q \in Seq(N) : q = row.queue
    BY <1>1
  <2>13. PICK q2 : q2 = Tail(q) \o s
    OBVIOUS
  <2>14. /\ InOrder(next.dist, q2) /\ q2 \in Seq(N)
         /\ {q2[i] : i \in DOMAIN q2} = ({q[i] : i \in DOMAIN q} \ {Head(q)}) \cup new
    <3>1. PICK d \in [N -> Nat] : d = row.dist
      BY <1>1
    <3>2. PICK d2 \in [N -> Nat] : d2 = next.dist
      BY <2>11
    <3>3. \A m \in new : d2[m] = d[Head(q)] + 1
      BY <2>3, <2>11, <2>12, <3>1, <3>2 DEF c
    <3>4. \A m \in N \ new : d2[m] = d[m]
      BY <2>11, <3>1, <3>2
    <3>5. q # <<>> /\ InOrder(d, q) /\ \A i \in DOMAIN q : q[i] \notin new
      BY <1>0, <1>3, <2>6, <2>12, <3>1
    <3>6. /\ InOrder(d2, q2) /\ q2 \in Seq(N)
          /\ {q2[i] : i \in DOMAIN q2} = ({q[i] : i \in DOMAIN q} \ {Head(q)}) \cup new
      <4>1. PICK M : M = N
        OBVIOUS
      <4> HIDE DEF N
      <4>2. M \in SUBSET Nat /\ d \in [M -> Nat] /\ d2 \in [M -> Nat] /\ q \in Seq(M) /\ new \in SUBSET M
        BY <1>0, <2>3, <4>1
      <4>3. \A m \in M \ new : d2[m] = d[m]
        BY <3>4, <4>1
      <4>4. /\ InOrder(d2, q2) /\ q2 \in Seq(M)
            /\ {q2[i] : i \in DOMAIN q2} = ({q[i] : i \in DOMAIN q} \ {Head(q)}) \cup new
        <5>1. GoesOn(M, d, d2, q, new, s, q2)
          BY <2>10, <2>13, <3>3, <3>5, <4>2, <4>3 DEF GoesOn
        <5>2. InOrder(d2, q2) /\ q2 \in Seq(M) /\ Range(q2) = (Range(q) \ {Head(q)}) \cup new
          BY <5>1, QueueGoesOn
        <5>3. QED
          BY <5>2 DEF Range
      <4>5. QED
        BY <4>1, <4>4
    <3>7. QED
      BY <3>2, <3>6
  <2>15. next.queue = q2 /\ Queued(next).front = (front \ {c}) \cup new
    <3>1. next.queue = q2
      BY <2>1, <2>9, <2>12, <2>13
    <3>2. front = {q[i] : i \in DOMAIN q} /\ c = Head(q)
      BY <2>12 DEF front, c
    <3>3. Queued(next).front = {q2[i] : i \in DOMAIN q2}
      BY <3>1 DEF Queued
    <3>4. QED
      BY <2>14, <3>1, <3>2, <3>3
  <2>16. next.hop \in [N -> N \cup {NoHop}]
    <3>1. \A m \in N : next.hop[m] \in N \cup {NoHop}
      BY <1>1, <2>1, <2>2
    <3>2. QED
      BY <2>1, <3>1
  <2>17. next \in Counts(links)
    <3>1. next = [dist |-> next.dist, hop |-> next.hop, queue |-> next.queue]
      BY <2>1
    <3>2. QED
      BY <2>11, <2>14, <2>15, <2>16, <3>1 DEF Counts, Hops
  <2>18. Settles(links, w, source, c, Queued(row), Queued(next))
    <3>1. PICK r : r = Queued(row)
      OBVIOUS
    <3>2. PICK n : n = Queued(next)
      OBVIOUS
    <3>3. r.cost = row.dist /\ r.hop = row.hop /\ r.front = front
      BY <2>h, <3>1
    <3>4. n.cost = next.dist /\ n.hop = next.hop /\ n.front = (front \ {c}) \cup new
      BY <2>15, <3>2 DEF Queued
    <3>5. new = {m \in links[c] : r.cost[m] = Unreachable}
      BY <3>3 DEF new
    <3>6. next.dist = [m \in N |-> IF m \in new THEN row.dist[c] + w[m] ELSE row.dist[m]]
      BY <1>0, <2>1
    <3>7. next.hop = [m \in N |-> IF m \notin new THEN row.hop[m] ELSE IF c = source THEN m ELSE row.hop[c]]
      BY <2>1
    <3>8. Settles(links, w, source, c, r, n)
      BY <2>4, <2>7, <3>3, <3>4, <3>5, <3>6, <3>7 DEF Settles
    <3>9. QED
      BY <3>1, <3>2, <3>8
  <2>19. Searching(links, w, source, k + 1, Queued(next))
    BY <1>0, <2>18, SearchSettles
  <2>20. QED
    BY <2>14, <2>15, <2>17, <2>19 DEF Counting, next, w
<1>4. QED
  BY <1>2, <1>3

LEMMA CountType ==
  ASSUME NEW links, IsGraph(links), NEW source
  PROVE  CountJumps(links, source) \in [Counts(links) -> Counts(links)]
<1> DEFINE N == Nodes(links)
           F == CountJumps(links, source)
<1>1. ASSUME NEW row \in Counts(links) PROVE F[row] \in Counts(links)
  <2> DEFINE next == F[row]
             c == Head(row.queue)
             new == {m \in links[c] : row.dist[m] = Unreachable}
  <2>0. row.dist \in [N -> Nat] /\ row.hop \in [N -> N \cup {NoHop}] /\ row.queue \in Seq(N) /\ N \in SUBSET Nat /\ IsFiniteSet(N)
    BY DEF Counts, Hops, IsGraph
  <2>1. CASE row.queue = <<>>
    BY <2>1 DEF CountJumps
  <2>2. CASE row.queue # <<>>
    <3>1. next = [dist  |-> [m \in N |-> IF m \in new THEN row.dist[c] + 1 ELSE row.dist[m]],
                  hop   |-> [m \in N |-> IF m \notin new THEN row.hop[m] ELSE IF c = source THEN m ELSE row.hop[c]],
                  queue |-> Tail(row.queue) \o ByName(new)]
      BY <2>2 DEF CountJumps
    <3> HIDE DEF next
    <3>2. c \in N /\ Tail(row.queue) \in Seq(N)
      <4>1. PICK q \in Seq(N) : q = row.queue
        BY <2>0
      <4>2. q # <<>> => Head(q) \in N /\ Tail(q) \in Seq(N)
        OBVIOUS
      <4>3. QED
        BY <2>2, <4>1, <4>2
    <3>3. new \in SUBSET N
      BY <3>2 DEF IsGraph
    <3>4. IsFiniteSet(new) /\ new \in SUBSET Nat
      BY <2>0, <3>3, FS_Subset
    <3> HIDE DEF c, new
    <3>5. PICK s : s = ByName(new)
      OBVIOUS
    <3>6. s \in Seq(new)
      BY <3>4, <3>5, ByNameIs
    <3>7. PICK n : n = Len(s)
      OBVIOUS
    <3>8. n \in Nat /\ s = [i \in 1..n |-> s[i]] /\ \A i \in 1..n : s[i] \in new
      BY <3>6, <3>7
    <3>9. \A i \in 1..n : s[i] \in N
      BY <3>3, <3>8
    <3>10. s \in Seq(N)
      <4>1. s \in [1..n -> N]
        BY <3>8, <3>9
      <4>2. QED
        BY <3>8, <4>1
    <3>11. Tail(row.queue) \o s \in Seq(N)
      BY <3>2, <3>10
    <3>12. next.dist \in [N -> Nat]
      BY <2>0, <3>1, <3>2
    <3>13. next.hop \in [N -> N \cup {NoHop}]
      <4>1. \A m \in N : next.hop[m] \in N \cup {NoHop}
        BY <2>0, <3>1, <3>2
      <4>2. QED
        BY <3>1, <4>1
    <3>14. next = [dist |-> next.dist, hop |-> next.hop, queue |-> next.queue]
      BY <3>1
    <3>15. next.queue \in Seq(N)
      BY <3>1, <3>5, <3>11
    <3>16. QED
      BY <3>12, <3>13, <3>14, <3>15 DEF Counts, Hops, next
  <2>3. QED
    BY <2>1, <2>2
<1>2. F = [row \in Counts(links) |-> F[row]]
  BY DEF CountJumps
<1> HIDE DEF F
<1>3. F \in [Counts(links) -> Counts(links)]
  BY <1>1, <1>2
<1>4. QED
  BY <1>3 DEF F

\* The queue is empty in the end.
LEMMA JumpsAreSound ==
  ASSUME NEW links, IsGraph(links), NEW source \in Nodes(links)
  PROVE  LET jumps == JumpsFrom(links, source) IN Sound(links, Naked(links), source, jumps.dist, jumps.hop) /\ jumps.queue = <<>>
<1> DEFINE base == [dist |-> Origin(links, source), hop |-> NoHops(links), queue |-> <<source>>]
           step == CountJumps(links, source)
           row(k) == Rounds(k, base, step)
           C == {k \in 0..Size(links) : Counting(links, source, k, row(k))}
<1>0. Size(links) \in Nat
  BY SizeIs
<1>1. Counting(links, source, 0, base)
  <2>1. base \in Counts(links)
    BY DEF Counts, Origin, NoHops, Hops, Unreachable
  <2>2. InOrder(base.dist, base.queue)
    BY DEF InOrder, Origin
  <2>3. Queued(base).front = {source}
    BY DEF Queued
  <2>4. Queued(base).cost = Origin(links, source) /\ Queued(base).hop = NoHops(links)
    BY DEF Queued
  <2>5. Searching(links, Naked(links), source, 0, Queued(base))
    <3>1. PICK r : r = Queued(base)
      OBVIOUS
    <3>2. r.cost = Origin(links, source) /\ r.hop = NoHops(links) /\ r.front = {source}
      BY <2>3, <2>4, <3>1
    <3>3. QED
      BY <3>1, <3>2, SearchBegins, NakedIsWeighting
  <2>6. QED
    BY <2>1, <2>2, <2>5 DEF Counting
<1> HIDE DEF base
<1>2. step \in [Counts(links) -> Counts(links)] /\ base \in Counts(links)
  BY <1>1, CountType DEF Counting
<1> HIDE DEF step
<1>3. row(0) = base /\ \A k \in Nat : row(k + 1) = step[row(k)]
  BY <1>2, RoundsAre
<1> HIDE DEF row
<1>4. 0 \in C
  BY <1>0, <1>1, <1>3
<1>5. ASSUME NEW k \in 1..Size(links), k - 1 \in C PROVE k \in C
  <2>1. PICK j : j = k - 1
    OBVIOUS
  <2>2. j \in Nat /\ j < Size(links) /\ j + 1 = k /\ Counting(links, source, j, row(j))
    BY <1>0, <1>5, <2>1
  <2>3. PICK r : r = row(j)
    OBVIOUS
  <2>4. Counting(links, source, j + 1, CountJumps(links, source)[r])
    BY <2>2, <2>3, CountStep
  <2>5. row(k) = CountJumps(links, source)[r]
    BY <1>3, <2>2, <2>3 DEF step
  <2>6. QED
    BY <1>0, <2>2, <2>4, <2>5
<1> HIDE DEF C
<1>6. \A k \in 0..Size(links) : k \in C
  BY <1>0, <1>4, <1>5, NumberInduction
<1>7. Counting(links, source, Size(links), row(Size(links)))
  BY <1>0, <1>6 DEF C
<1>8. PICK r : r = row(Size(links))
  OBVIOUS
<1>9. PICK final : final = Queued(r)
  OBVIOUS
<1>10. final.cost = r.dist /\ final.hop = r.hop
  BY <1>9 DEF Queued
<1>11. Sound(links, Naked(links), source, final.cost, final.hop) /\ final.front = {}
  BY <1>7, <1>8, <1>9, SearchEnds, NakedIsWeighting DEF Counting
<1>12. r.queue = <<>>
  <2>1. r.queue \in Seq(Nodes(links))
    BY <1>7, <1>8 DEF Counting, Counts
  <2>2. DOMAIN r.queue = {}
    BY <1>9, <1>11 DEF Queued
  <2>3. PICK q \in Seq(Nodes(links)) : q = r.queue
    BY <2>1
  <2>4. Len(q) \in Nat /\ DOMAIN q = 1..Len(q)
    OBVIOUS
  <2>5. 1 \notin DOMAIN q
    BY <2>2, <2>3
  <2>6. Len(q) = 0
    BY <2>4, <2>5
  <2>7. QED
    BY <2>3, <2>6
<1>13. JumpsFrom(links, source) = r
  BY <1>8 DEF JumpsFrom, row, base, step
<1>14. QED
  BY <1>10, <1>11, <1>12, <1>13

-----------------------------------------------------------------------------
(* The table. *)

LEMMA JumpsCount ==
  ASSUME NEW links, IsGraph(links), NEW s \in Nodes(links), NEW m \in Nodes(links)
  PROVE  JumpsFrom(links, s).dist[m] = Cheapest(links, Naked(links), s)[m]
<1>1. PICK r : r = JumpsFrom(links, s)
  OBVIOUS
<1>2. Sound(links, Naked(links), s, r.dist, r.hop)
  BY <1>1, JumpsAreSound
<1>3. QED
  BY <1>1, <1>2, SoundIsCheapest, NakedIsWeighting

LEMMA NearIsWithin ==
  ASSUME NEW links, IsGraph(links), NEW strongholds \in SUBSET Nodes(links)
  PROVE  Near(links, strongholds) = WithinHops(links, strongholds, PenaltyRadius)
<1> DEFINE Around(o) == {s \in Nodes(links) : JumpsFrom(links, o).dist[s] <= PenaltyRadius}
<1>1. WithinHops(links, strongholds, PenaltyRadius) = UNION {Around(o) : o \in strongholds}
  BY DEF WithinHops
<1>2. \A o \in strongholds : \A s \in Nodes(links) : JumpsFrom(links, o).dist[s] = Cheapest(links, Naked(links), o)[s]
  BY JumpsCount
<1>3. \A s : s \in Near(links, strongholds) <=> \E o \in strongholds : s \in Around(o)
  BY <1>2 DEF Near
<1> HIDE DEF Around
<1>4. QED
  BY <1>1, <1>3

\* What can be reached at one price can be reached at another.
LEMMA ReachesAtAnyPrice ==
  ASSUME NEW links, IsGraph(links), NEW w1, Weighting(links, w1), NEW w2, NEW s \in Nodes(links),
         NEW cost, NEW hop, Sound(links, w2, s, cost, hop), NEW m \in Nodes(links), Cheapest(links, w1, s)[m] # Unreachable
  PROVE  cost[m] # Unreachable
<1> DEFINE f == [n \in Nodes(links) |-> IF cost[n] = Unreachable THEN Unreachable ELSE 0]
<1>1. cost[s] = 0 /\ Closed(links, w2, cost)
  BY DEF Sound
<1>2. f \in [Nodes(links) -> Nat] /\ f[s] = 0 /\ 0 # Unreachable
  BY <1>1 DEF Unreachable
<1>3. Closed(links, w1, f)
  <2>1. ASSUME NEW a \in Nodes(links), f[a] # Unreachable, NEW b \in links[a] PROVE f[b] # Unreachable /\ f[b] <= f[a] + w1[b]
    <3>1. cost[a] # Unreachable /\ b \in Nodes(links)
      BY <2>1 DEF IsGraph
    <3>2. cost[b] # Unreachable
      BY <1>1, <2>1, <3>1 DEF Closed
    <3>3. f[a] = 0 /\ f[b] = 0 /\ w1[b] \in {1, 2}
      BY <3>1, <3>2 DEF Weighting
    <3>4. QED
      BY <1>2, <3>3
  <2> HIDE DEF f
  <2>2. QED
    BY <2>1 DEF Closed
<1> HIDE DEF f
<1>4. Size(links) \in Nat /\ Cheapest(links, w1, s) = Cheap(links, w1, s, Size(links))
  BY SizeIs DEF Cheapest, Cheap
<1>5. f[s] # Unreachable /\ f[s] <= 0
  BY <1>2
<1>6. f[m] # Unreachable
  BY <1>2, <1>3, <1>4, <1>5, ClosedBelow
<1>7. QED
  BY <1>6 DEF f

\* The table of a galaxy, with what its costs and its jumps are.
LEMMA TableIs ==
  ASSUME NEW links, IsGraph(links), NEW strongholds \in SUBSET Nodes(links), NEW table, table = RouteTable(links, strongholds)
  PROVE  LET near == WithinHops(links, strongholds, PenaltyRadius) IN
         /\ Rows(links, Toll(links, near), [s \in Nodes(links) |-> table[s].cost], [s \in Nodes(links) |-> table[s].hop])
         /\ Rows(links, Naked(links), [s \in Nodes(links) |-> table[s].dist], [s \in Nodes(links) |-> table[s].nakedHop])
<1>1. PICK near : near = WithinHops(links, strongholds, PenaltyRadius)
  OBVIOUS
<1>2. table = Build(links, near)
  BY <1>1 DEF RouteTable
<1>3. ASSUME NEW s \in Nodes(links)
      PROVE  /\ Sound(links, Toll(links, near), s, table[s].cost, table[s].hop)
             /\ Sound(links, Naked(links), s, table[s].dist, table[s].nakedHop)
  <2>1. PICK r : r = RoutesFrom(links, near, s)
    OBVIOUS
  <2>2. PICK j : j = JumpsFrom(links, s)
    OBVIOUS
  <2>3. table[s] = [dist |-> j.dist, nakedHop |-> j.hop, cost |-> r.cost, hop |-> r.hop]
    BY <1>2, <2>1, <2>2 DEF Build
  <2>4. Sound(links, Toll(links, near), s, r.cost, r.hop) /\ Sound(links, Naked(links), s, j.dist, j.hop)
    BY <2>1, <2>2, RoutesAreSound, JumpsAreSound
  <2>5. QED
    BY <2>3, <2>4
<1>4. Weighting(links, Toll(links, near)) /\ Weighting(links, Naked(links))
  BY TollIsWeighting, NakedIsWeighting
<1>5. QED
  BY <1>1, <1>3, <1>4 DEF Rows

LEMMA TableIsCheapest ==
  ASSUME NEW links, IsGraph(links), NEW strongholds \in SUBSET Nodes(links), NEW table, table = RouteTable(links, strongholds)
  PROVE  RoutesAreCheapest(links, strongholds, table)
<1> DEFINE near == Near(links, strongholds)
           weight == [n \in Nodes(links) |-> IF n \in near THEN 2 ELSE 1]
           safe == [s \in Nodes(links) |-> table[s].hop]
           direct == [s \in Nodes(links) |-> table[s].nakedHop]
           cost == [s \in Nodes(links) |-> table[s].cost]
           dist == [s \in Nodes(links) |-> table[s].dist]
<1>1. weight = Toll(links, near) /\ near = WithinHops(links, strongholds, PenaltyRadius)
  BY NearIsWithin DEF Toll
<1>2. Rows(links, weight, cost, safe) /\ Rows(links, Naked(links), dist, direct)
  <2>1. PICK a : a = WithinHops(links, strongholds, PenaltyRadius)
    OBVIOUS
  <2>2. /\ Rows(links, Toll(links, a), [s \in Nodes(links) |-> table[s].cost], [s \in Nodes(links) |-> table[s].hop])
        /\ Rows(links, Naked(links), [s \in Nodes(links) |-> table[s].dist], [s \in Nodes(links) |-> table[s].nakedHop])
    BY <2>1, TableIs
  <2>3. Toll(links, a) = weight
    BY <1>1, <2>1
  <2> HIDE DEF weight
  <2>4. QED
    BY <2>2, <2>3
<1>3. ASSUME NEW s \in Nodes(links), NEW t \in Nodes(links)
      PROVE  /\ PathCost(table, s, t) = Cheapest(links, weight, s)[t] /\ HopDistance(table, s, t) = Cheapest(links, Naked(links), s)[t]
             /\ Cheapest(links, weight, s)[t] # Unreachable =>
                  /\ IsCheapestWay(links, weight, s, t, PathHops(safe, s, t), Cheapest(links, weight, s)[t])
                  /\ IsCheapestWay(links, Naked(links), s, t, PathHops(direct, s, t), Cheapest(links, Naked(links), s)[t])
  <2>1. cost[s] = table[s].cost /\ dist[s] = table[s].dist
    OBVIOUS
  <2> HIDE DEF weight, safe, direct, cost, dist
  <2>2. /\ Sound(links, weight, s, cost[s], safe[s]) /\ Sound(links, Naked(links), s, dist[s], direct[s])
        /\ Weighting(links, weight) /\ Weighting(links, Naked(links))
    BY <1>2 DEF Rows
  <2>3. cost[s][t] = Cheapest(links, weight, s)[t] /\ dist[s][t] = Cheapest(links, Naked(links), s)[t]
    <3>1. PICK c : c = cost[s]
      OBVIOUS
    <3>2. PICK d : d = dist[s]
      OBVIOUS
    <3>3. c[t] = Cheapest(links, weight, s)[t] /\ d[t] = Cheapest(links, Naked(links), s)[t]
      BY <2>2, <3>1, <3>2, SoundIsCheapest
    <3>4. QED
      BY <3>1, <3>2, <3>3
  <2>4. ASSUME Cheapest(links, weight, s)[t] # Unreachable
        PROVE  /\ IsCheapestWay(links, weight, s, t, PathHops(safe, s, t), Cheapest(links, weight, s)[t])
               /\ IsCheapestWay(links, Naked(links), s, t, PathHops(direct, s, t), Cheapest(links, Naked(links), s)[t])
    <3>1. dist[s][t] # Unreachable
      BY <2>2, <2>4, ReachesAtAnyPrice
    <3>2. IsCheapestWay(links, weight, s, t, PathHops(safe, s, t), cost[s][t])
      BY <1>2, <2>3, <2>4, HopsMakeTheWay
    <3>3. IsCheapestWay(links, Naked(links), s, t, PathHops(direct, s, t), dist[s][t])
      BY <1>2, <3>1, HopsMakeTheWay
    <3>4. QED
      BY <2>3, <3>2, <3>3
  <2>5. QED
    BY <2>1, <2>3, <2>4 DEF PathCost, HopDistance
<1>4. QED
  BY <1>3 DEF RoutesAreCheapest

-----------------------------------------------------------------------------
(* The invariant of travel. *)

Spots == [system : Nodes(Map.links), poi : DOMAIN Map.at \cup {Nowhere}]
Ships == [system : Nodes(Map.links), poi : DOMAIN Map.at \cup {Nowhere}, docked : BOOLEAN,
          going : Spots \cup {NotGoing}, full : BOOLEAN, cargo : Nat]
Sights == [pois : SUBSET DOMAIN Map.at, visited : SUBSET DOMAIN Map.at,
           entered : SUBSET Nodes(Map.links), surveyed : SUBSET Nodes(Map.links)]
Departures == {"travel", "approach", "jump"}
InGameCalls == {"undock", "dock", "travel", "approach", "jump", "refuel", "survey", "mine", "serve"}

\* The values the variables have.
TravelTypeOK ==
  /\ galaxy \in DOMAIN Galaxies /\ ship \in Ships /\ seen \in Sights /\ view \in [ship : Ships, seen : Sights]
  /\ job \in Map.jobs \cup {NoJob} /\ (job.name = "refuel" => kept \in DOMAIN Map.at \cup {Nowhere})
  /\ asked \in [call : InGameCalls \cup {"none", "look", "plan", "confirm"}, to : Spots \cup {NotGoing}]
  /\ jobs \in Nat /\ trip \in [spent : Nat, cost : Nat]

\* A way on from a system: to another place there, or along a cheapest way of the go.
Aim == GoTarget(job.target).system
OnWay(s, to) ==
  to.system = s \/ PathCost(Table, s, Aim) = Weight(to.system) + PathCost(Table, to.system, Aim)

Going == job.name = "go" /\ kept # Nowhere
TripFits ==
  Going => /\ Aim \in Nodes(Map.links)
           /\ trip.spent + PathCost(Table, ship.system, Aim) = trip.cost
           /\ ship.going # NotGoing => OnWay(ship.system, ship.going)

\* A tick that plans looks at the ship as it is, unless it is on its way.
Planning ==
  asked.call = "plan" /\ view.ship.going = NotGoing =>
    /\ ship = view.ship /\ seen = view.seen /\ ship.system \in seen.entered
    /\ ship.poi # Nowhere => ship.poi \in seen.visited

\* So does a call, and it is one that its command makes.
Commanded ==
  asked.call \in InGameCalls =>
    /\ ship = view.ship /\ ship.going = NotGoing
    /\ view.seen.entered \subseteq seen.entered /\ view.ship.system \in view.seen.entered
    /\ asked.call \in Departures => asked.to \in Spots /\ (job.name = "go" => OnWay(ship.system, asked.to))
    /\ asked.call = "survey" => job.name = "find" /\ Unvisited(Here) = {}
    /\ asked.call = "refuel" => job.name = "refuel"
    /\ asked.call = "serve" => job.name \notin {"go", "refuel", "find", "mine", "dock"}

\* That what ended ended as it says.
TrueEnd(e) ==
  /\ e.job.name = "refuel" /\ e.how = "done" => e.ship.full
  /\ e.job.name = "dock" /\ e.how = "done" =>
       e.ship.docked \/ ~\E p \in e.seen.pois \cap Map.bases : Map.at[p] = e.ship.system
  /\ e.job.name = "mine" /\ e.how = "done" => e.ship.cargo = HoldSize
  /\ e.job.name = "find" /\ e.how = "done" => e.seen.visited \cap Map.holding # {}
  /\ e.job.name = "find" /\ e.how = "halt" =>
       \A s \in Nodes(Map.links) : HopDistance(Table, e.ship.system, s) # Unreachable => s \in e.seen.entered
  /\ e.job.name = "go" /\ e.how = "done" =>
       IF e.job.target.poi = Nowhere THEN e.ship.system = e.job.target.system ELSE e.ship.poi = e.job.target.poi

TravelInv == TravelTypeOK /\ TripFits /\ Planning /\ Commanded /\ TrueEnd(ended)

-----------------------------------------------------------------------------
(* The map and its table. *)

LEMMA MapIs ==
  ASSUME galaxy \in DOMAIN Galaxies
  PROVE  /\ IsGraph(Map.links) /\ Map.starts \cup Map.strongholds \subseteq Nodes(Map.links)
         /\ DOMAIN Map.at \subseteq Nat \ {Nowhere} /\ Map.at \in [DOMAIN Map.at -> Nodes(Map.links)]
         /\ Map.known \subseteq DOMAIN Map.at
         /\ \A j \in Map.jobs : j.name = "go" => j.target \in [system : Nat, poi : Nat]
         /\ Nodes(Map.links) \subseteq Nat \ {NoHop}
         /\ Table = RouteTable(Map.links, Map.strongholds)
         /\ Penalties[galaxy] = WithinHops(Map.links, Map.strongholds, PenaltyRadius)
BY GalaxiesAssumption DEF Map, Table, RouteTables, Penalties, IsGraph

LEMMA TableOfMap ==
  ASSUME galaxy \in DOMAIN Galaxies
  PROVE  \A s, t \in Nodes(Map.links) :
           /\ PathCost(Table, s, t) \in Nat /\ HopDistance(Table, s, t) \in 0..Unreachable /\ Weight(s) \in {1, 2}
           /\ s # t /\ NextHop(Table, s, t) # NoHop =>
                /\ NextHop(Table, s, t) \in Nodes(Map.links)
                /\ PathCost(Table, s, t) = Weight(NextHop(Table, s, t)) + PathCost(Table, NextHop(Table, s, t), t)
<1> DEFINE N == Nodes(Map.links)
           near == WithinHops(Map.links, Map.strongholds, PenaltyRadius)
           cost == [s \in N |-> Table[s].cost]
           hop == [s \in N |-> Table[s].hop]
           dist == [s \in N |-> Table[s].dist]
           naked == [s \in N |-> Table[s].nakedHop]
           w == Toll(Map.links, near)
<1>1. IsGraph(Map.links) /\ Map.strongholds \in SUBSET N /\ Table = RouteTable(Map.links, Map.strongholds) /\ Penalties[galaxy] = near
  BY MapIs
<1>2. Rows(Map.links, w, cost, hop) /\ Rows(Map.links, Naked(Map.links), dist, naked)
  <2>1. PICK table : table = Table
    OBVIOUS
  <2>2. PICK links, strongholds : links = Map.links /\ strongholds = Map.strongholds
    OBVIOUS
  <2>3. table = RouteTable(links, strongholds) /\ IsGraph(links) /\ strongholds \in SUBSET Nodes(links)
    BY <1>1, <2>1, <2>2
  <2>4. PICK a : a = WithinHops(links, strongholds, PenaltyRadius)
    OBVIOUS
  <2>5. /\ Rows(links, Toll(links, a), [s \in Nodes(links) |-> table[s].cost], [s \in Nodes(links) |-> table[s].hop])
        /\ Rows(links, Naked(links), [s \in Nodes(links) |-> table[s].dist], [s \in Nodes(links) |-> table[s].nakedHop])
    BY <2>3, <2>4, TableIs
  <2>6. QED
    BY <2>1, <2>2, <2>4, <2>5
<1>3. \A s \in N : w[s] = Weight(s) /\ w[s] \in {1, 2}
  BY <1>1 DEF Toll, Weight
<1>4. \A s \in N : cost[s] = Table[s].cost /\ hop[s] = Table[s].hop /\ dist[s] = Table[s].dist
  OBVIOUS
<1> HIDE DEF cost, hop, dist, naked, w, near
<1>5. \A s \in N : Sound(Map.links, w, s, cost[s], hop[s]) /\ Sound(Map.links, Naked(Map.links), s, dist[s], naked[s])
  BY <1>2 DEF Rows
<1>6. \A s, t \in N : cost[s][t] \in Nat /\ dist[s][t] \in 0..Unreachable /\ (cost[s][t] = Unreachable => hop[s][t] = NoHop)
  <2>1. 2 * Size(Map.links) < Unreachable /\ Size(Map.links) \in Nat /\ Unreachable \in Nat
    BY <1>1, SizeIs DEF Unreachable
  <2>2. \A s, t \in N : dist[s][t] \in Nat /\ (dist[s][t] # Unreachable => dist[s][t] <= 2 * Size(Map.links))
    BY <1>5 DEF Sound
  <2>3. \A s, t \in N : dist[s][t] \in 0..Unreachable
    BY <2>1, <2>2
  <2>4. QED
    BY <1>5, <2>3 DEF Sound
<1>7. ASSUME NEW s \in N, NEW t \in N, s # t, hop[s][t] # NoHop
      PROVE  hop[s][t] \in N /\ cost[s][t] = w[hop[s][t]] + cost[hop[s][t]][t]
  <2>1. cost[s][t] # Unreachable
    BY <1>6, <1>7
  <2>2. PICK links : links = Map.links
    OBVIOUS
  <2>3. /\ IsGraph(links) /\ Weighting(links, w) /\ s \in Nodes(links) /\ t \in Nodes(links)
        /\ \A n \in Nodes(links) : Sound(links, w, n, cost[n], hop[n])
    BY <1>1, <1>2, <1>5, <2>2 DEF Rows
  <2>4. hop[s][t] \in Nodes(links) /\ cost[s][t] = w[hop[s][t]] + cost[hop[s][t]][t]
    BY <1>7, <2>1, <2>3, HopsAreSound
  <2>5. QED
    BY <2>2, <2>4
<1>8. QED
  BY <1>3, <1>4, <1>6, <1>7 DEF PathCost, HopDistance, NextHop

-----------------------------------------------------------------------------
(* What a tick plans. *)

LEMMA TowardIs ==
  ASSUME TravelTypeOK, NEW to \in Spots, to.poi # Nowhere => to.system = Map.at[to.poi]
  PROVE  LET p == Toward(to) IN
         /\ p = [call |-> p.call, to |-> p.to] /\ p.call \in {"undock", "done", "travel", "failed", "jump"} /\ p.to \in Spots \cup {NotGoing}
         /\ p.call = "done" => Here = to.system /\ to.poi = Nowhere
         /\ p.call = "travel" => p.to = to /\ Here = to.system
         /\ p.call = "jump" => p.to \in Spots /\ PathCost(Table, Here, to.system) = Weight(p.to.system) + PathCost(Table, p.to.system, to.system)
<1> DEFINE hop == NextHop(Table, Here, to.system)
           p == Toward(to)
<1>1. /\ galaxy \in DOMAIN Galaxies /\ Here \in Nodes(Map.links) /\ to.system \in Nodes(Map.links) /\ to = [system |-> to.system, poi |-> to.poi]
      /\ to.poi \in DOMAIN Map.at \cup {Nowhere}
  BY DEF TravelTypeOK, Ships, Here, Spots
<1>2. CASE view.ship.docked
  BY <1>2 DEF Toward, Call
<1>3. CASE ~view.ship.docked /\ Here = to.system
  <2>1. p = IF to.poi = Nowhere THEN Ends("done") ELSE Call("travel", Stop(to.poi))
    BY <1>3 DEF Toward
  <2>2. to.poi # Nowhere => Stop(to.poi) = to
    BY <1>1 DEF Stop
  <2>3. QED
    BY <1>3, <2>1, <2>2 DEF Call, Ends
<1>4. CASE ~view.ship.docked /\ Here # to.system
  <2>1. p = IF hop = NoHop THEN Ends("failed") ELSE Call("jump", System(hop))
    BY <1>4 DEF Toward
  <2>2. hop # NoHop => hop \in Nodes(Map.links) /\ PathCost(Table, Here, to.system) = Weight(hop) + PathCost(Table, hop, to.system)
    BY <1>1, <1>4, TableOfMap
  <2> HIDE DEF hop
  <2>3. System(hop).system = hop /\ (hop # NoHop => System(hop) \in Spots)
    BY <2>2 DEF System, Spots
  <2>4. QED
    BY <2>1, <2>2, <2>3 DEF Call, Ends
<1>5. QED
  BY <1>2, <1>3, <1>4

LEMMA SmallestIs ==
  ASSUME NEW S \in SUBSET Nat, S # {} PROVE Smallest(S) # {} /\ Smallest(S) \subseteq S
BY SmallestNat DEF Smallest

Endings == {"done", "halt", "failed", "again", "paused"}

\* What a plan may be.
Right(p) ==
  /\ p = [call |-> p.call, to |-> p.to] /\ p.call \in InGameCalls \cup Endings /\ p.to \in Spots \cup {NotGoing}
  /\ p.call \in Departures => p.to \in Spots /\ (job.name = "go" => OnWay(Here, p.to))
  /\ p.call = "survey" => job.name = "find" /\ Unvisited(Here) = {}
  /\ p.call = "refuel" => job.name = "refuel"
  /\ p.call = "serve" => job.name \notin {"go", "refuel", "find", "mine", "dock"}
  /\ job.name = "go" => Known(job.target) \/ p.call = "failed"
  /\ TrueEnd([job |-> job, how |-> p.call, ship |-> view.ship, seen |-> view.seen])

LEMMA ViewIs ==
  ASSUME TravelTypeOK
  PROVE  /\ galaxy \in DOMAIN Galaxies /\ Here \in Nodes(Map.links) /\ Nowhere \notin DOMAIN Map.at
         /\ view.seen.pois \subseteq DOMAIN Map.at /\ view.ship.poi \in DOMAIN Map.at \cup {Nowhere}
         /\ \A p \in DOMAIN Map.at : Stop(p) \in Spots /\ Stop(p).system = Map.at[p] /\ Stop(p).poi = p
         /\ NotGoing \in Spots \cup {NotGoing}
BY MapIs DEF TravelTypeOK, Ships, Sights, Here, Spots, Stop

\* Going to a place never means that one is there, and needs no survey.
LEMMA TowardStop ==
  ASSUME TravelTypeOK, NEW x \in DOMAIN Map.at, job.name # "go" PROVE Right(Toward(Stop(x)))
<1>1. PICK p : p = Toward(Stop(x))
  OBVIOUS
<1>2. Stop(x) \in Spots /\ Stop(x).poi # Nowhere /\ Stop(x).system = Map.at[Stop(x).poi]
  BY ViewIs
<1>3. /\ p = [call |-> p.call, to |-> p.to] /\ p.call \in {"undock", "travel", "failed", "jump"} /\ p.to \in Spots \cup {NotGoing}
      /\ p.call \in {"travel", "jump"} => p.to \in Spots
  BY <1>1, <1>2, TowardIs
<1>4. Right(p)
  BY <1>3 DEF Right, TrueEnd, InGameCalls, Endings, Departures
<1>5. QED
  BY <1>1, <1>4

LEMMA ReachableIs ==
  ASSUME TravelTypeOK
  PROVE  /\ FindSystem \subseteq Unexplored
         /\ FindSystem = {} => \A s \in Unexplored : HopDistance(Table, Here, s) = Unreachable
<1> DEFINE d(s) == HopDistance(Table, Here, s)
           Reached == {s \in Unexplored : d(s) # Unreachable}
           Closest == {s \in Unexplored : d(s) # Unreachable /\ \A y \in Unexplored : d(s) <= d(y)}
<1>1. Unexplored \subseteq Nodes(Map.links) /\ Nodes(Map.links) \subseteq Nat /\ \A s \in Unexplored : d(s) \in 0..Unreachable
  BY ViewIs, MapIs, TableOfMap DEF Unexplored
<1>2. FindSystem = Smallest(Closest)
  BY DEF FindSystem, Nearest
<1>u. Unreachable \in Nat
  BY DEF Unreachable
<1>3. Closest \subseteq Unexplored /\ Closest \in SUBSET Nat
  BY <1>1
<1>4. FindSystem \subseteq Unexplored
  BY <1>2, <1>3 DEF Smallest
<1>5. FindSystem = {} => Closest = {}
  BY <1>2, <1>3, SmallestIs
<1>6. Closest = {} => \A s \in Unexplored : d(s) = Unreachable
  <2> SUFFICES ASSUME NEW s \in Unexplored, d(s) # Unreachable PROVE Closest # {}
    OBVIOUS
  <2> DEFINE D == {d(x) : x \in Unexplored}
  <2>1. D \in SUBSET Nat /\ D # {}
    BY <1>1, <1>u
  <2>2. PICK n \in D : \A m \in D : n <= m
    <3> HIDE DEF D
    <3>1. QED
      BY <2>1, SmallestNat
  <2>3. PICK x \in Unexplored : n = d(x)
    OBVIOUS
  <2>4. \A y \in Unexplored : d(x) <= d(y)
    BY <2>2, <2>3
  <2>5. CASE d(x) # Unreachable
    BY <2>4, <2>5
  <2>6. CASE d(x) = Unreachable
    <3>1. d(x) <= d(s) /\ d(s) \in 0..Unreachable
      BY <1>1, <2>4
    <3> HIDE DEF d
    <3>2. FALSE
      BY <1>u, <2>6, <3>1
    <3>3. QED
      BY <3>2
  <2>7. QED
    BY <2>5, <2>6
<1>7. QED
  BY <1>4, <1>5, <1>6

\* find_explore, when nothing here stands in the way.
LEMMA ExploreIs ==
  ASSUME TravelTypeOK, job.name = "find", Unvisited(Here) = {}, Here \in view.seen.entered, NEW p \in Explore
  PROVE  /\ Right(p) /\ p.call \in {"undock", "jump", "failed", "halt"}
         /\ p.call = "halt" => \A s \in Nodes(Map.links) : HopDistance(Table, Here, s) # Unreachable => s \in view.seen.entered
<1>1. CASE FindSystem # {}
  <2>1. PICK s \in FindSystem : p = Toward(System(s))
    BY <1>1 DEF Explore
  <2>2. s \in Nodes(Map.links) /\ s # Here
    BY ReachableIs DEF Unexplored
  <2>3. System(s) \in Spots /\ System(s).poi = Nowhere /\ System(s).system = s
    BY <2>2 DEF System, Spots
  <2>4. /\ p = [call |-> p.call, to |-> p.to] /\ p.call \in {"undock", "failed", "jump"} /\ p.to \in Spots \cup {NotGoing}
        /\ p.call = "jump" => p.to \in Spots
    BY <2>1, <2>2, <2>3, TowardIs
  <2>5. QED
    BY <2>4 DEF Right, TrueEnd, InGameCalls, Endings, Departures
<1>2. CASE FindSystem = {}
  <2>1. p = Ends("halt")
    BY <1>2 DEF Explore
  <2>2. \A s \in Unexplored : HopDistance(Table, Here, s) = Unreachable
    BY <1>2, ReachableIs
  <2>3. \A s \in Nodes(Map.links) : HopDistance(Table, Here, s) # Unreachable => s \in view.seen.entered
    BY <2>2 DEF Unexplored
  <2>4. p.call = "halt" /\ p.to = NotGoing /\ p = [call |-> p.call, to |-> p.to]
    BY <2>1 DEF Ends, Call
  <2>5. Right(p)
    BY <2>3, <2>4 DEF Right, TrueEnd, InGameCalls, Endings, Departures, Here
  <2>6. QED
    BY <2>3, <2>4, <2>5
<1>3. QED
  BY <1>1, <1>2

LEMMA GoIsRight ==
  ASSUME TravelTypeOK, job.name = "go", NEW p \in PlanGo PROVE Right(p) /\ p.call \notin {"again", "paused", "halt"}
<1> DEFINE to == GoTarget(job.target)
<1>0. job.target \in [system : Nat, poi : Nat]
  BY MapIs DEF TravelTypeOK, NoJob
<1>1. CASE ~Known(job.target)
  <2>1. p = Ends("failed")
    BY <1>1 DEF PlanGo
  <2>2. QED
    BY <2>1 DEF Right, TrueEnd, InGameCalls, Endings, Departures, Ends, Call
<1>2. CASE Known(job.target)
  <2>1. to \in Spots /\ to.poi = job.target.poi /\ (to.poi # Nowhere => to.system = Map.at[to.poi]) /\ (to.poi = Nowhere => to = job.target)
    <3>1. CASE job.target.poi = Nowhere
      BY <1>0, <1>2, <3>1 DEF GoTarget, Known, Spots
    <3>2. CASE job.target.poi # Nowhere
      <4>1. job.target.poi \in DOMAIN Map.at
        BY <1>2, <3>2, ViewIs DEF Known
      <4>2. to = [system |-> Map.at[job.target.poi], poi |-> job.target.poi]
        BY <1>0, <3>2 DEF GoTarget
      <4>3. Map.at[job.target.poi] \in Nodes(Map.links)
        BY <4>1, ViewIs, MapIs
      <4>4. QED
        BY <3>2, <4>1, <4>2, <4>3 DEF Spots
    <3>3. QED
      BY <3>1, <3>2
  <2>2. Aim = to.system
    BY DEF Aim
  <2>3. p = IF (IF to.poi # Nowhere THEN view.ship.poi = to.poi ELSE Here = to.system) THEN Ends("done") ELSE Toward(to)
    BY <1>2 DEF PlanGo
  <2> HIDE DEF to
  <2>4. CASE p = Ends("done") /\ (IF to.poi # Nowhere THEN view.ship.poi = to.poi ELSE Here = to.system)
    BY <1>2, <2>1, <2>4 DEF Right, TrueEnd, InGameCalls, Endings, Departures, Ends, Call, Here
  <2>5. CASE p = Toward(to)
    <3>1. /\ p = [call |-> p.call, to |-> p.to] /\ p.call \in {"undock", "done", "travel", "failed", "jump"} /\ p.to \in Spots \cup {NotGoing}
          /\ p.call = "done" => Here = to.system /\ to.poi = Nowhere
          /\ p.call = "travel" => p.to = to /\ Here = to.system
          /\ p.call = "jump" => p.to \in Spots /\ PathCost(Table, Here, to.system) = Weight(p.to.system) + PathCost(Table, p.to.system, to.system)
      BY <2>1, <2>5, TowardIs
    <3>2. p.call \in Departures => p.to \in Spots /\ OnWay(Here, p.to)
      BY <2>1, <2>2, <3>1 DEF Departures, OnWay
    <3>3. p.call = "done" => view.ship.system = job.target.system /\ job.target.poi = Nowhere
      BY <2>1, <3>1 DEF Here
    <3>4. QED
      BY <1>2, <3>1, <3>2, <3>3 DEF Right, TrueEnd, InGameCalls, Endings
  <2>6. QED
    BY <2>3, <2>4, <2>5
<1>3. QED
  BY <1>1, <1>2

LEMMA StationsAre ==
  ASSUME TravelTypeOK
  PROVE  RefuelStation \subseteq DOMAIN Map.at /\ MiningPois \subseteq DOMAIN Map.at /\ DockTargets \subseteq DOMAIN Map.at
<1>1. view.seen.pois \subseteq DOMAIN Map.at /\ view.ship.poi \in DOMAIN Map.at \cup {Nowhere}
  BY ViewIs
<1>2. RefuelStation \subseteq DOMAIN Map.at
  BY <1>1 DEF RefuelStation, Smallest, Nearest
<1>3. MiningPois \subseteq DOMAIN Map.at
  BY <1>1 DEF MiningPois, Nearest
<1>4. DockTargets \subseteq DOMAIN Map.at
  BY <1>1 DEF DockTargets, At
<1>5. QED
  BY <1>2, <1>3, <1>4

\* Plans that end nothing as done, or call without moving.
LEMMA PlainIsRight ==
  ASSUME TravelTypeOK, job.name # "go", NEW c, NEW to \in Spots \cup {NotGoing},
         \/ c \in {"undock", "dock", "mine", "failed", "again", "paused"}
         \/ c = "approach" /\ to \in Spots
         \/ c = "refuel" /\ job.name = "refuel"
         \/ c = "survey" /\ job.name = "find" /\ Unvisited(Here) = {}
         \/ c = "serve" /\ job.name \notin {"go", "refuel", "find", "mine", "dock"}
  PROVE  Right(Call(c, to))
<1>1. PICK p : p = Call(c, to)
  OBVIOUS
<1>2. p = [call |-> p.call, to |-> p.to] /\ p.call = c /\ p.to = to
  BY <1>1 DEF Call
<1>3. Right(p)
  BY <1>2 DEF Right, TrueEnd, InGameCalls, Endings, Departures
<1>4. QED
  BY <1>1, <1>3

LEMMA EndIsRight ==
  ASSUME TravelTypeOK, job.name # "go", NEW how \in Endings,
         TrueEnd([job |-> job, how |-> how, ship |-> view.ship, seen |-> view.seen])
  PROVE  Right(Ends(how))
<1>1. PICK p : p = Ends(how)
  OBVIOUS
<1>2. p = [call |-> p.call, to |-> p.to] /\ p.call = how /\ p.to = NotGoing
  BY <1>1 DEF Call, Ends
<1>3. how \notin InGameCalls
  BY DEF Endings, InGameCalls
<1>4. Right(p)
  BY <1>2, <1>3 DEF Right, Endings, InGameCalls, Departures
<1>5. QED
  BY <1>1, <1>4

LEMMA RefuelIsRight ==
  ASSUME TravelTypeOK, job.name = "refuel", NEW p \in PlanRefuel PROVE Right(p)
<1>1. CASE view.ship.full
  <2>1. p = Ends("done")
    BY <1>1 DEF PlanRefuel
  <2>2. TrueEnd([job |-> job, how |-> "done", ship |-> view.ship, seen |-> view.seen])
    BY <1>1 DEF TrueEnd
  <2>3. QED
    BY <2>1, <2>2, EndIsRight DEF Endings
<1>2. CASE ~view.ship.full /\ (kept # Nowhere \/ RefuelStation # {})
  <2>1. PICK x \in (IF kept # Nowhere THEN {kept} ELSE RefuelStation) :
          p = IF Here # Map.at[x] \/ view.ship.poi # x THEN Toward(Stop(x))
              ELSE IF ~view.ship.docked THEN Call("dock", NotGoing) ELSE Call("refuel", NotGoing)
    BY <1>2 DEF PlanRefuel
  <2>2. x \in DOMAIN Map.at
    <3>1. kept \in DOMAIN Map.at \cup {Nowhere}
      BY DEF TravelTypeOK
    <3>2. QED
      BY <2>1, <3>1, StationsAre
  <2>3. p = Toward(Stop(x)) \/ p = Call("dock", NotGoing) \/ p = Call("refuel", NotGoing)
    BY <2>1
  <2>4. QED
    BY <2>2, <2>3, TowardStop, PlainIsRight
<1>3. CASE ~view.ship.full /\ ~(kept # Nowhere \/ RefuelStation # {})
  <2>1. p = Call("refuel", NotGoing)
    BY <1>3 DEF PlanRefuel
  <2>2. QED
    BY <2>1, PlainIsRight
<1>4. QED
  BY <1>1, <1>2, <1>3

LEMMA FindIsRight ==
  ASSUME TravelTypeOK, job.name = "find", Here \in view.seen.entered,
         view.ship.poi # Nowhere => view.ship.poi \in view.seen.visited, NEW p \in PlanFind
  PROVE  Right(p)
<1>1. CASE view.seen.visited \cap Map.holding # {}
  <2>1. p = Ends("done")
    BY <1>1 DEF PlanFind
  <2>2. TrueEnd([job |-> job, how |-> "done", ship |-> view.ship, seen |-> view.seen])
    BY <1>1 DEF TrueEnd
  <2>3. QED
    BY <2>1, <2>2, EndIsRight DEF Endings
<1>2. CASE ~(view.seen.visited \cap Map.holding # {}) /\ view.ship.docked
  <2>1. p = Call("undock", NotGoing)
    BY <1>2 DEF PlanFind
  <2>2. QED
    BY <2>1, PlainIsRight
<1>3. CASE /\ ~(view.seen.visited \cap Map.holding # {}) /\ ~view.ship.docked
           /\ Unvisited(Here) # {} /\ view.ship.poi \notin Smallest(Unvisited(Here))
  <2>1. PICK x \in Smallest(Unvisited(Here)) : p = Toward(Stop(x))
    BY <1>3 DEF PlanFind
  <2>2. x \in DOMAIN Map.at
    BY ViewIs DEF Smallest, Unvisited, At
  <2>3. QED
    BY <2>1, <2>2, TowardStop
<1>4. CASE /\ ~(view.seen.visited \cap Map.holding # {}) /\ ~view.ship.docked
           /\ ~(Unvisited(Here) # {} /\ view.ship.poi \notin Smallest(Unvisited(Here)))
  <2>1. Unvisited(Here) = {}
    <3>1. Unvisited(Here) # {} => view.ship.poi \in Unvisited(Here)
      BY <1>4 DEF Smallest
    <3>2. Nowhere \notin Unvisited(Here)
      BY ViewIs DEF Unvisited, At
    <3>3. QED
      BY <3>1, <3>2 DEF Unvisited
  <2>2. p = Call("survey", NotGoing) \/ p \in Explore
    BY <1>4 DEF PlanFind
  <2>3. QED
    BY <2>1, <2>2, ExploreIs, PlainIsRight
<1>5. QED
  BY <1>1, <1>2, <1>3, <1>4

LEMMA MineIsRight ==
  ASSUME TravelTypeOK, job.name = "mine", NEW p \in PlanMine PROVE Right(p)
<1>1. CASE view.ship.cargo = HoldSize
  <2>1. p = Ends("done")
    BY <1>1 DEF PlanMine
  <2>2. TrueEnd([job |-> job, how |-> "done", ship |-> view.ship, seen |-> view.seen])
    BY <1>1 DEF TrueEnd
  <2>3. QED
    BY <2>1, <2>2, EndIsRight DEF Endings
<1>2. CASE view.ship.cargo # HoldSize /\ MiningPois = {}
  <2>1. p = Ends("halt")
    BY <1>2 DEF PlanMine
  <2>2. TrueEnd([job |-> job, how |-> "halt", ship |-> view.ship, seen |-> view.seen])
    BY DEF TrueEnd
  <2>3. QED
    BY <2>1, <2>2, EndIsRight DEF Endings
<1>3. CASE view.ship.cargo # HoldSize /\ MiningPois # {}
  <2>1. PICK x \in MiningPois : p = IF view.ship.poi = x THEN Call("mine", NotGoing) ELSE Toward(Stop(x))
    BY <1>3 DEF PlanMine
  <2>2. QED
    BY <2>1, StationsAre, TowardStop, PlainIsRight
<1>4. QED
  BY <1>1, <1>2, <1>3

LEMMA DockIsRight ==
  ASSUME TravelTypeOK, job.name \in {"dock", "set_home", "serve"}, NEW p \in PlanDock PROVE Right(p)
<1>1. CASE DockTargets = {}
  <2>1. p = Ends("halt") \/ p = Ends("done")
    BY <1>1 DEF PlanDock
  <2>2. ~\E x \in view.seen.pois \cap Map.bases : Map.at[x] = view.ship.system
    BY <1>1 DEF DockTargets, At, Here
  <2>3. ASSUME NEW how \in {"halt", "done"} PROVE TrueEnd([job |-> job, how |-> how, ship |-> view.ship, seen |-> view.seen])
    BY <2>2 DEF TrueEnd
  <2>4. QED
    BY <2>1, <2>3, EndIsRight DEF Endings
<1>2. CASE DockTargets # {}
  <2>1. PICK x \in DockTargets : p = Docked(x, IF job.name = "dock" THEN Ends("done") ELSE Call("serve", NotGoing))
    BY <1>2 DEF PlanDock
  <2>2. \/ p = Call("undock", NotGoing) \/ p = Call("approach", Stop(x)) \/ p = Call("dock", NotGoing)
        \/ view.ship.docked /\ p = IF job.name = "dock" THEN Ends("done") ELSE Call("serve", NotGoing)
    BY <2>1 DEF Docked
  <2>3. Stop(x) \in Spots
    BY <2>1, StationsAre, ViewIs
  <2>4. CASE view.ship.docked /\ p = Ends("done") /\ job.name = "dock"
    <3>1. TrueEnd([job |-> job, how |-> "done", ship |-> view.ship, seen |-> view.seen])
      BY <2>4 DEF TrueEnd
    <3>2. QED
      BY <2>4, <3>1, EndIsRight DEF Endings
  <2>5. CASE p = Call("serve", NotGoing) /\ job.name # "dock"
    BY <2>5, PlainIsRight
  <2>6. CASE p = Call("undock", NotGoing) \/ p = Call("approach", Stop(x)) \/ p = Call("dock", NotGoing)
    BY <2>3, <2>6, PlainIsRight
  <2>7. QED
    BY <2>2, <2>4, <2>5, <2>6
<1>3. QED
  BY <1>1, <1>2

LEMMA WaitIsRight == ASSUME TravelTypeOK, job.name = "wait", NEW p \in PlanWait PROVE Right(p)
<1>1. PICK how \in {"done", "paused"} : p = Ends(how)
  BY DEF PlanWait
<1>2. TrueEnd([job |-> job, how |-> how, ship |-> view.ship, seen |-> view.seen])
  BY DEF TrueEnd
<1>3. QED
  BY <1>1, <1>2, EndIsRight DEF Endings

LEMMA PlansAreRight ==
  ASSUME TravelTypeOK, Here \in view.seen.entered,
         view.ship.poi # Nowhere => view.ship.poi \in view.seen.visited, NEW p \in PlansOf
  PROVE  Right(p) /\ (job.name = "go" => p.call \notin {"again", "paused", "halt"})
<1>1. CASE job.name = "go"
  BY <1>1, GoIsRight DEF PlansOf
<1>2. CASE job.name = "refuel"
  BY <1>2, RefuelIsRight DEF PlansOf
<1>3. CASE job.name = "find"
  BY <1>3, FindIsRight DEF PlansOf
<1>4. CASE job.name = "mine"
  BY <1>4, MineIsRight DEF PlansOf
<1>5. CASE job.name = "wait"
  BY <1>5, WaitIsRight DEF PlansOf
<1>6. CASE job.name \in {"dock", "set_home", "serve"}
  BY <1>6, DockIsRight DEF PlansOf
<1>7. CASE job.name \notin {"go", "refuel", "find", "mine", "wait", "dock", "set_home", "serve"}
  <2>1. p = Call("serve", NotGoing)
    BY <1>7 DEF PlansOf
  <2>2. QED
    BY <1>7, <2>1, PlainIsRight
<1>8. QED
  BY <1>1, <1>2, <1>3, <1>4, <1>5, <1>6, <1>7

-----------------------------------------------------------------------------
(* Steps. *)

LEMMA MapStays ==
  ASSUME galaxy' = galaxy
  PROVE  /\ Map' = Map /\ Table' = Table /\ Spots' = Spots /\ Ships' = Ships /\ Sights' = Sights
         /\ \A s : Weight(s)' = Weight(s)
         /\ \A s, t : PathCost(Table, s, t)' = PathCost(Table, s, t)
         /\ \A e : TrueEnd(e)' <=> TrueEnd(e)
<1>1. Map' = Map /\ Table' = Table
  BY DEF Map, Table, RouteTables
<1>2. \A s : Weight(s)' = Weight(s)
  BY DEF Weight, Penalties
<1>3. \A s, t : PathCost(Table, s, t)' = PathCost(Table, s, t)
  BY <1>1 DEF PathCost
<1>4. \A e : TrueEnd(e)' <=> TrueEnd(e)
  BY <1>1 DEF TrueEnd, HopDistance
<1>5. Spots' = Spots
  BY <1>1 DEF Spots
<1>6. QED
  BY <1>1, <1>2, <1>3, <1>4, <1>5 DEF Ships, Sights

\* A tick ends.
LEMMA TickEnds ==
  ASSUME TravelTypeOK, TrueEnd(ended), galaxy' = galaxy, NEW how, Concludes(how),
         how \in {"again", "paused"} \/ TrueEnd([job |-> job, how |-> how, ship |-> ship', seen |-> seen'])
  PROVE  /\ TrueEnd(ended)' /\ job' \in {job, NoJob} /\ (how \notin {"again", "paused"} => job' = NoJob)
         /\ asked' \in [call : {"none", "look"}, to : {NotGoing, Nothing.to}] /\ Planning' /\ Commanded'
<1>1. CASE how \in {"again", "paused"}
  <2>1. asked' = Call("look", NotGoing) /\ job' = job /\ ended' = ended
    BY <1>1 DEF Concludes
  <2>2. asked' \in [call : {"none", "look"}, to : {NotGoing, Nothing.to}] /\ asked'.call = "look"
    BY <2>1 DEF Call
  <2>3. TrueEnd(ended)'
    BY <2>1, MapStays
  <2>4. QED
    BY <1>1, <2>1, <2>2, <2>3 DEF Planning, Commanded, InGameCalls
<1>2. CASE how \notin {"again", "paused"}
  <2>1. asked' = Nothing /\ job' = NoJob /\ ended' = [job |-> job, how |-> how, ship |-> ship', seen |-> seen']
    BY <1>2 DEF Concludes
  <2>2. asked' \in [call : {"none", "look"}, to : {NotGoing, Nothing.to}] /\ asked'.call = "none"
    BY <2>1 DEF Nothing
  <2>3. TrueEnd(ended)'
    BY <1>2, <2>1, MapStays
  <2>4. QED
    BY <1>2, <2>1, <2>2, <2>3 DEF Planning, Commanded, InGameCalls
<1>3. QED
  BY <1>1, <1>2

\* Where a ship is on its trip, as long as it does not arrive.
LEMMA TripStays ==
  ASSUME TravelTypeOK, TripFits, galaxy' = galaxy, trip' = trip, Going' => Going, job' \in {job, NoJob},
         ship'.system = ship.system,
         ship'.going = ship.going \/ (job.name = "go" => OnWay(ship.system, ship'.going))
  PROVE  TripFits'
<1>1. CASE job' = NoJob
  BY <1>1 DEF TripFits, Going, NoJob
<1>2. CASE job' = job /\ Going
  <2>1. Aim \in Nodes(Map.links) /\ trip.spent + PathCost(Table, ship.system, Aim) = trip.cost /\ (ship.going # NotGoing => OnWay(ship.system, ship.going))
    BY <1>2 DEF TripFits
  <2>2. Aim' = Aim
    BY <1>2, MapStays DEF Aim, GoTarget
  <2>3. \A s, to : OnWay(s, to)' <=> OnWay(s, to)
    BY <2>2, MapStays DEF OnWay
  <2>4. ship'.going # NotGoing => OnWay(ship.system, ship'.going)
    BY <1>2, <2>1 DEF Going
  <2>5. OnWay(ship.system, ship.going)' <=> OnWay(ship.system, ship'.going)
    BY <2>2, MapStays DEF OnWay
  <2>6. PathCost(Table, ship.system, Aim)' = PathCost(Table, ship.system, Aim)
    BY <2>2, MapStays DEF PathCost
  <2>7. Aim' \in Nodes(Map.links)'
    BY <2>1, <2>2, MapStays
  <2>8. QED
    BY <2>1, <2>4, <2>5, <2>6, <2>7 DEF TripFits
<1>3. CASE job' = job /\ ~Going
  BY <1>3 DEF TripFits
<1>4. QED
  BY <1>1, <1>2, <1>3

\* What an accepted call does.
LEMMA ObeysIs ==
  ASSUME TravelTypeOK, Commanded, asked.call \in InGameCalls, Obeys
  PROVE  /\ ship' \in Ships /\ seen' \in Sights /\ ship'.system = ship.system
         /\ ship'.going = IF asked.call \in Departures THEN asked.to ELSE ship.going
         /\ asked.call = "refuel" => ship'.full
         /\ asked.call = "survey" => ship' = ship
         /\ seen'.entered = seen.entered
<1>1. /\ ship \in Ships /\ seen \in Sights /\ asked.to \in Spots \cup {NotGoing}
      /\ Map.at \in [DOMAIN Map.at -> Nodes(Map.links)]
  BY MapIs DEF TravelTypeOK
<1>2. ship' = [ship EXCEPT
       !.docked = CASE asked.call = "dock" -> TRUE [] asked.call = "undock" -> FALSE [] OTHER -> @,
       !.going  = IF asked.call \in {"travel", "approach", "jump"} THEN asked.to ELSE @,
       !.full   = asked.call = "refuel" \/ @,
       !.cargo  = IF asked.call = "mine" /\ @ < HoldSize THEN @ + 1 ELSE @]
  BY DEF Obeys
<1>3. seen' = IF asked.call # "survey" THEN seen
             ELSE [seen EXCEPT !.surveyed = @ \cup {ship.system},
                               !.pois = @ \cup {p \in DOMAIN Map.at : Map.at[p] = ship.system}]
  BY DEF Obeys
<1>4. ship' \in Ships
  <2>1. PICK docked, going, full, cargo :
          /\ docked = CASE asked.call = "dock" -> TRUE [] asked.call = "undock" -> FALSE [] OTHER -> ship.docked
          /\ going = IF asked.call \in {"travel", "approach", "jump"} THEN asked.to ELSE ship.going
          /\ full = (asked.call = "refuel" \/ ship.full)
          /\ cargo = IF asked.call = "mine" /\ ship.cargo < HoldSize THEN ship.cargo + 1 ELSE ship.cargo
    OBVIOUS
  <2>2. docked \in BOOLEAN /\ going \in Spots \cup {NotGoing} /\ full \in BOOLEAN
    BY <1>1, <2>1 DEF Ships
  <2>3. cargo \in Nat
    BY <1>1, <2>1, GalaxiesAssumption DEF Ships
  <2>4. ship' = [ship EXCEPT !.docked = docked, !.going = going, !.full = full, !.cargo = cargo]
    BY <1>1, <1>2, <2>1 DEF Ships
  <2>5. QED
    BY <1>1, <2>2, <2>3, <2>4 DEF Ships
<1>5. ship'.system = ship.system /\ ship'.going = IF asked.call \in Departures THEN asked.to ELSE ship.going
  BY <1>1, <1>2 DEF Ships, Departures
<1>6. asked.call = "refuel" => ship'.full
  BY <1>1, <1>2 DEF Ships
<1>7. asked.call = "survey" => ship' = ship
  <2>1. ASSUME asked.call = "survey" PROVE ship' = ship
    <3>1. ship' = [ship EXCEPT !.docked = @, !.going = @, !.full = FALSE \/ @, !.cargo = @]
      BY <1>2, <2>1
    <3>2. (FALSE \/ ship.full) = ship.full
      BY <1>1 DEF Ships
    <3>3. QED
      BY <1>1, <3>1, <3>2 DEF Ships
  <2>2. QED
    BY <2>1
<1>8. seen' \in Sights /\ seen'.entered = seen.entered
  <2>1. CASE asked.call # "survey"
    BY <1>1, <1>3, <2>1
  <2>2. CASE asked.call = "survey"
    <3>1. seen' = [seen EXCEPT !.surveyed = @ \cup {ship.system}, !.pois = @ \cup {p \in DOMAIN Map.at : Map.at[p] = ship.system}]
      BY <1>3, <2>2
    <3>2. ship.system \in Nodes(Map.links)
      BY <1>1 DEF Ships
    <3>3. QED
      BY <1>1, <3>1, <3>2 DEF Sights
  <2>3. QED
    BY <2>1, <2>2
<1>9. QED
  BY <1>4, <1>5, <1>6, <1>7, <1>8

\* A refresh.
LEMMA RefreshesIs ==
  ASSUME TravelTypeOK, Refreshes, ship' = ship
  PROVE  /\ seen' \in Sights /\ view' \in [ship : Ships, seen : Sights] /\ view'.ship = ship /\ view'.seen = seen'
         /\ ship.system \in seen'.entered
         /\ ship.going = NotGoing /\ ship.poi # Nowhere => ship.poi \in seen'.visited
<1>1. ship \in Ships /\ seen \in Sights
  BY DEF TravelTypeOK
<1>2. /\ seen' = [seen EXCEPT !.entered = @ \cup {ship.system},
                          !.visited = IF ship.going = NotGoing THEN @ \cup ({ship.poi} \ {Nowhere}) ELSE @,
                          !.pois = IF ship.going = NotGoing THEN @ \cup ({ship.poi} \ {Nowhere}) ELSE @]
      /\ view' = [ship |-> ship, seen |-> seen']
  BY DEF Refreshes
<1>3. ship.system \in Nodes(Map.links) /\ {ship.poi} \ {Nowhere} \subseteq DOMAIN Map.at
  BY <1>1 DEF Ships
<1>4. seen' \in Sights
  BY <1>1, <1>2, <1>3 DEF Sights
<1>5. QED
  BY <1>1, <1>2, <1>4 DEF Sights

-----------------------------------------------------------------------------
(* The invariant holds at first, and every step keeps it. *)

LEMMA TravelInvStarts == TravelInit => TravelInv
<1> SUFFICES ASSUME TravelInit PROVE TravelInv
  OBVIOUS
<1>1. galaxy \in DOMAIN Galaxies /\ job = NoJob /\ kept = Nowhere /\ asked = Nothing /\ jobs = 0 /\ view = [ship |-> ship, seen |-> seen]
      /\ trip = [spent |-> 0, cost |-> 0] /\ ended = NotEnded
  BY DEF TravelInit
<1>2. ship \in Ships /\ seen \in Sights
  <2>1. PICK s \in Map.starts :
          /\ ship = [system |-> s, poi |-> Nowhere, docked |-> FALSE, going |-> NotGoing, full |-> FALSE, cargo |-> 0]
          /\ seen = [pois |-> Map.known, visited |-> {}, entered |-> {s}, surveyed |-> {}]
    BY DEF TravelInit
  <2>2. s \in Nodes(Map.links) /\ Map.known \subseteq DOMAIN Map.at
    BY <1>1, MapIs
  <2>3. QED
    BY <2>1, <2>2 DEF Ships, Sights
<1>3. TravelTypeOK
  BY <1>1, <1>2 DEF TravelTypeOK, NoJob, Nothing, NotGoing
<1>4. TripFits /\ Planning /\ Commanded
  BY <1>1 DEF TripFits, Going, Planning, Commanded, NoJob, Nothing, InGameCalls
<1>5. TrueEnd(ended)
  BY <1>1 DEF TrueEnd, NotEnded, NoJob
<1>6. QED
  BY <1>3, <1>4, <1>5 DEF TravelInv

\* A step in the middle of no call, and what it has to keep.
LEMMA Between ==
  ASSUME asked'.call \in {"look", "none", "confirm"} PROVE Planning' /\ Commanded'
BY DEF Planning, Commanded, InGameCalls

LEMMA SubmitKeeps == TravelInv /\ Submit => TravelInv'
<1> SUFFICES ASSUME TravelInv, Submit PROVE TravelInv'
  OBVIOUS
<1>1. /\ galaxy' = galaxy /\ ship' = ship /\ seen' = seen /\ view' = view /\ job' \in Map.jobs /\ kept' = Nowhere
      /\ asked' = Call("look", NotGoing) /\ jobs' = jobs + 1 /\ trip' = [spent |-> 0, cost |-> 0] /\ ended' = NotEnded
  BY DEF Submit
<1>2. asked' = [call |-> "look", to |-> NotGoing]
  BY <1>1 DEF Call
<1>3. TravelTypeOK'
  <2>1. NotGoing' = NotGoing
    BY DEF NotGoing, System
  <2>2. QED
    BY <1>1, <1>2, <2>1, MapStays DEF TravelInv, TravelTypeOK
<1>4. TripFits' /\ Planning' /\ Commanded'
  BY <1>1, <1>2, Between DEF TripFits, Going
<1>5. TrueEnd(ended)'
  BY <1>1 DEF TrueEnd, NotEnded, NoJob
<1>6. QED
  BY <1>3, <1>4, <1>5 DEF TravelInv

LEMMA LookKeeps == TravelInv /\ Look => TravelInv'
<1> SUFFICES ASSUME TravelInv, Look PROVE TravelInv'
  OBVIOUS
<1>1. /\ Refreshes /\ asked' = Call("plan", NotGoing) /\ galaxy' = galaxy /\ ship' = ship /\ job' = job /\ kept' = kept
      /\ jobs' = jobs /\ trip' = trip /\ ended' = ended
  BY DEF Look
<1>2. /\ seen' \in Sights /\ view' \in [ship : Ships, seen : Sights] /\ view'.ship = ship /\ view'.seen = seen'
      /\ ship.system \in seen'.entered /\ (ship.going = NotGoing /\ ship.poi # Nowhere => ship.poi \in seen'.visited)
  BY <1>1, RefreshesIs DEF TravelInv
<1>3. asked' = [call |-> "plan", to |-> NotGoing]
  BY <1>1 DEF Call
<1>4. TravelTypeOK'
  BY <1>1, <1>2, <1>3, MapStays DEF TravelInv, TravelTypeOK
<1>5. Planning' /\ Commanded'
  BY <1>1, <1>2, <1>3 DEF Planning, Commanded, InGameCalls
<1>6. TripFits'
  <2>1. Going' => Going
    BY <1>1 DEF Going
  <2>2. QED
    BY <1>1, <2>1, TripStays DEF TravelInv
<1>7. TrueEnd(ended)'
  BY <1>1, MapStays DEF TravelInv
<1>8. QED
  BY <1>4, <1>5, <1>6, <1>7 DEF TravelInv

LEMMA KeepsIs ==
  ASSUME TravelTypeOK, NEW p PROVE job.name = "refuel" => Keeps(p) \in DOMAIN Map.at \cup {Nowhere}
<1> SUFFICES ASSUME job.name = "refuel" PROVE Keeps(p) \in DOMAIN Map.at \cup {Nowhere}
  OBVIOUS
<1>1. kept \in DOMAIN Map.at \cup {Nowhere}
  BY DEF TravelTypeOK
<1>2. RefuelStation # {} => (CHOOSE r \in RefuelStation : TRUE) \in DOMAIN Map.at
  BY StationsAre
<1>3. Keeps(p) = kept \/ (RefuelStation # {} /\ Keeps(p) = CHOOSE r \in RefuelStation : TRUE)
  BY DEF Keeps
<1>4. QED
  BY <1>1, <1>2, <1>3

\* What is known of a go that is planned for the first time.
LEMMA FirstLeg ==
  ASSUME TravelTypeOK, job.name = "go", Known(job.target)
  PROVE  Aim \in Nodes(Map.links) /\ PathCost(Table, Here, Aim) \in Nat
<1>1. Aim \in Nodes(Map.links)
  <2>1. CASE job.target.poi = Nowhere
    BY <2>1 DEF Aim, GoTarget, Known
  <2>2. CASE job.target.poi # Nowhere
    <3>1. job.target \in [system : Nat, poi : Nat]
      BY MapIs DEF TravelTypeOK, NoJob
    <3>2. job.target.poi \in DOMAIN Map.at
      BY <2>2, ViewIs DEF Known
    <3>3. Aim = Map.at[job.target.poi]
      BY <2>2, <3>1 DEF Aim, GoTarget
    <3>4. QED
      BY <3>2, <3>3, ViewIs, MapIs
  <2>3. QED
    BY <2>1, <2>2
<1>2. QED
  BY <1>1, ViewIs, TableOfMap


LEMMA AimStays ==
  ASSUME galaxy' = galaxy, job' = job
  PROVE  Aim' = Aim /\ \A s, to : OnWay(s, to)' <=> OnWay(s, to)
<1>1. Aim' = Aim
  BY MapStays DEF Aim, GoTarget
<1>2. QED
  BY <1>1, MapStays DEF OnWay

LEMMA PlanKeeps == TravelInv /\ Plan => TravelInv'
<1> SUFFICES ASSUME TravelInv, Plan PROVE TravelInv'
  OBVIOUS
<1>0. TravelTypeOK /\ TripFits /\ Planning /\ TrueEnd(ended)
  BY DEF TravelInv
<1>1. /\ asked.call = "plan" /\ galaxy' = galaxy /\ ship' = ship /\ seen' = seen /\ view' = view /\ jobs' = jobs
      /\ trip' = IF job.name = "go" /\ kept = Nowhere /\ Known(job.target) THEN [spent |-> 0, cost |-> PathCost(Table, Here, Aim)] ELSE trip
  BY DEF Plan, Aim
<1>2. PICK p \in Plans :
        /\ kept' = Keeps(p)
        /\ IF p.call \in Endings THEN Concludes(p.call) ELSE asked' = p /\ job' = job /\ ended' = ended
  BY DEF Plan, Endings
<1>3. job' \in {job, NoJob}
  <2>1. Concludes(p.call) => job' \in {job, NoJob}
    BY DEF Concludes
  <2>2. QED
    BY <1>2, <2>1
<1>4. trip' \in [spent : Nat, cost : Nat]
  BY <1>0, <1>1, FirstLeg DEF TravelTypeOK
<1>5. job'.name = "refuel" => kept' \in DOMAIN Map.at \cup {Nowhere}
  <2>1. job.name = "refuel" => kept' \in DOMAIN Map.at \cup {Nowhere}
    BY <1>0, <1>2, KeepsIs
  <2>2. QED
    BY <1>3, <2>1 DEF NoJob
<1>6. asked' \in [call : InGameCalls \cup {"none", "look", "plan", "confirm"}, to : Spots \cup {NotGoing}] => TravelTypeOK'
  BY <1>0, <1>1, <1>3, <1>4, <1>5, MapStays DEF TravelTypeOK
<1>7. ASSUME Concludes(p.call),
             p.call \in {"again", "paused"} \/ TrueEnd([job |-> job, how |-> p.call, ship |-> ship', seen |-> seen'])
      PROVE  TravelTypeOK' /\ Planning' /\ Commanded' /\ TrueEnd(ended)'
  <2>1. PICK how : how = p.call
    OBVIOUS
  <2>2. asked' \in [call : {"none", "look"}, to : {NotGoing, Nothing.to}] /\ TrueEnd(ended)' /\ Planning' /\ Commanded'
    BY <1>0, <1>1, <1>7, <2>1, TickEnds
  <2>3. Nothing.to = NotGoing
    BY DEF Nothing, NotGoing
  <2>4. QED
    BY <1>6, <2>2, <2>3
<1>8. CASE view.ship.going # NotGoing
  <2>1. p = Call("paused", NotGoing) /\ kept' = kept
    BY <1>2, <1>8 DEF Plans, Ends, Keeps
  <2>2. p.call = "paused" /\ Concludes(p.call)
    BY <1>2, <2>1 DEF Call, Endings
  <2>3. TravelTypeOK' /\ Planning' /\ Commanded' /\ TrueEnd(ended)'
    BY <1>7, <2>2
  <2>4. TripFits'
    <3>1. CASE kept = Nowhere
      BY <2>1, <3>1 DEF TripFits, Going
    <3>2. CASE kept # Nowhere
      <4>1. trip' = trip
        BY <1>1, <3>2
      <4>2. Going' => Going
        BY <1>3, <2>1 DEF Going, NoJob
      <4>3. QED
        BY <1>0, <1>1, <1>3, <4>1, <4>2, TripStays
    <3>3. QED
      BY <3>1, <3>2
  <2>5. QED
    BY <2>3, <2>4 DEF TravelInv
<1>9. CASE view.ship.going = NotGoing
  <2>1. ship = view.ship /\ seen = view.seen /\ ship.system \in seen.entered /\ (ship.poi # Nowhere => ship.poi \in seen.visited)
    BY <1>0, <1>1, <1>9 DEF Planning
  <2>2. p \in PlansOf
    BY <1>2, <1>9 DEF Plans
  <2>3. Right(p)
    BY <1>0, <2>1, <2>2, PlansAreRight DEF Here
  <2>4. TravelTypeOK' /\ Planning' /\ Commanded' /\ TrueEnd(ended)'
    <3>1. CASE p.call \in Endings
      <4>1. TrueEnd([job |-> job, how |-> p.call, ship |-> ship', seen |-> seen'])
        BY <1>1, <2>1, <2>3 DEF Right
      <4>2. QED
        BY <1>2, <1>7, <3>1, <4>1
    <3>2. CASE p.call \notin Endings
      <4>1. asked' = p /\ job' = job /\ ended' = ended
        BY <1>2, <3>2
      <4>2. p = [call |-> p.call, to |-> p.to] /\ p.call \in InGameCalls /\ p.to \in Spots \cup {NotGoing}
        BY <2>3, <3>2 DEF Right
      <4>3. TravelTypeOK'
        BY <1>6, <4>1, <4>2
      <4>4. TrueEnd(ended)'
        BY <1>0, <1>1, <4>1, MapStays
      <4>5. Planning'
        BY <4>1, <4>2 DEF Planning, InGameCalls
      <4>6. Unvisited(Here)' = Unvisited(Here)
        BY <1>1, MapStays DEF Unvisited, At, Here
      <4>7. Here = ship.system /\ ship.going = NotGoing
        BY <1>9, <2>1 DEF Here
      <4>8. asked'.call \in Departures => asked'.to \in Spots' /\ (job'.name = "go" => OnWay(ship.system, asked'.to))
        BY <1>1, <2>3, <4>1, <4>7, MapStays DEF Right
      <4>9. asked'.call \in Departures => asked'.to \in Spots' /\ (job'.name = "go" => OnWay(ship.system, asked.to)')
        BY <1>1, <4>1, <4>8, AimStays, MapStays DEF OnWay
      <4>10. /\ asked'.call = "survey" => job'.name = "find" /\ Unvisited(Here)' = {}
             /\ asked'.call = "refuel" => job'.name = "refuel"
             /\ asked'.call = "serve" => job'.name \notin {"go", "refuel", "find", "mine", "dock"}
        BY <2>3, <4>1, <4>6 DEF Right
      <4>11. Commanded'
        BY <1>1, <2>1, <4>7, <4>9, <4>10 DEF Commanded
      <4>12. QED
        BY <4>3, <4>4, <4>5, <4>11
    <3>3. QED
      BY <3>1, <3>2
  <2>5. TripFits'
    <3>1. CASE job' = NoJob \/ job.name # "go"
      BY <1>3, <3>1 DEF TripFits, Going, NoJob
    <3>2. CASE job' = job /\ job.name = "go" /\ kept # Nowhere
      <4>1. trip' = trip /\ Going
        BY <1>1, <3>2 DEF Going
      <4>2. QED
        BY <1>0, <1>1, <1>3, <4>1, TripStays
    <3>3. CASE job' = job /\ job.name = "go" /\ kept = Nowhere
      <4>1. Known(job.target)
        <5>1. p.call # "failed"
          BY <1>2, <3>3 DEF Concludes, Endings, NoJob
        <5>2. QED
          BY <2>3, <3>3, <5>1 DEF Right
      <4>2. Aim \in Nodes(Map.links) /\ PathCost(Table, Here, Aim) \in Nat
        BY <1>0, <3>3, <4>1, FirstLeg
      <4>3. trip' = [spent |-> 0, cost |-> PathCost(Table, Here, Aim)]
        BY <1>1, <3>3, <4>1
      <4>4. Aim' = Aim /\ Here = ship.system /\ ship.going = NotGoing /\ Map' = Map
        BY <1>1, <1>9, <2>1, <3>3, AimStays, MapStays DEF Here
      <4>5. PathCost(Table, ship.system, Aim)' = PathCost(Table, Here, Aim)
        BY <1>1, <4>4, MapStays DEF PathCost
      <4>6. trip'.spent + PathCost(Table, ship.system, Aim)' = trip'.cost
        BY <4>2, <4>3, <4>5
      <4>7. QED
        BY <1>1, <4>2, <4>4, <4>6 DEF TripFits
    <3>4. QED
      BY <1>3, <3>1, <3>2, <3>3
  <2>6. QED
    BY <2>4, <2>5 DEF TravelInv
<1>10. QED
  BY <1>8, <1>9

\* A call that ends its tick, whatever the game made of it.
LEMMA CallEnds ==
  ASSUME TravelInv, galaxy' = galaxy, view' = view, kept' = kept, jobs' = jobs, trip' = trip,
         ship' \in Ships, seen' \in Sights, ship'.system = ship.system,
         ship'.going = ship.going \/ (job.name = "go" => OnWay(ship.system, ship'.going)), NEW how, Concludes(how),
         how \in {"again", "paused"} \/ TrueEnd([job |-> job, how |-> how, ship |-> ship', seen |-> seen'])
  PROVE  TravelInv'
<1>1. TravelTypeOK /\ TripFits /\ TrueEnd(ended)
  BY DEF TravelInv
<1>2. /\ TrueEnd(ended)' /\ job' \in {job, NoJob} /\ asked' \in [call : {"none", "look"}, to : {NotGoing, Nothing.to}]
      /\ Planning' /\ Commanded'
  BY <1>1, TickEnds
<1>3. Nothing.to = NotGoing
  BY DEF Nothing, NotGoing
<1>4. job'.name = "refuel" => kept' \in DOMAIN Map.at \cup {Nowhere}
  BY <1>1, <1>2 DEF TravelTypeOK, NoJob
<1>5. TravelTypeOK'
  BY <1>1, <1>2, <1>3, <1>4, MapStays DEF TravelTypeOK
<1>6. Going' => Going
  BY <1>2 DEF Going, NoJob
<1>7. TripFits'
  BY <1>1, <1>2, <1>6, TripStays
<1>8. QED
  BY <1>2, <1>5, <1>7 DEF TravelInv

\* What a call that was made may do to the ship's way.
LEMMA CallsAreOnWay ==
  ASSUME TravelInv, asked.call \in InGameCalls, Obeys \/ (ship' = ship /\ seen' = seen)
  PROVE  /\ ship' \in Ships /\ seen' \in Sights /\ ship'.system = ship.system
         /\ ship'.going = ship.going \/ (job.name = "go" => OnWay(ship.system, ship'.going))
<1>1. CASE Obeys
  <2>1. /\ ship' \in Ships /\ seen' \in Sights /\ ship'.system = ship.system
        /\ ship'.going = IF asked.call \in Departures THEN asked.to ELSE ship.going
    BY <1>1, ObeysIs DEF TravelInv
  <2>2. asked.call \in Departures => (job.name = "go" => OnWay(ship.system, asked.to))
    BY DEF TravelInv, Commanded
  <2>3. QED
    BY <2>1, <2>2
<1>2. CASE ship' = ship /\ seen' = seen
  BY <1>2 DEF TravelInv, TravelTypeOK
<1>3. QED
  BY <1>1, <1>2

LEMMA FailedIsTrue ==
  ASSUME NEW s, NEW k, NEW j PROVE TrueEnd([job |-> j, how |-> "failed", ship |-> s, seen |-> k])
BY DEF TrueEnd

LEMMA AcceptedKeeps == TravelInv /\ Accepted => TravelInv'
<1> SUFFICES ASSUME TravelInv, Accepted PROVE TravelInv'
  OBVIOUS
<1>1. /\ asked.call \in InGameCalls /\ Obeys /\ galaxy' = galaxy /\ view' = view /\ kept' = kept /\ jobs' = jobs /\ trip' = trip
      /\ Concludes(IF asked.call \in {"refuel", "serve"} THEN "done" ELSE "again")
  BY DEF Accepted, InGame, InGameCalls
<1>2. PICK how : how = IF asked.call \in {"refuel", "serve"} THEN "done" ELSE "again"
  OBVIOUS
<1>3. how \in {"again", "paused"} \/ TrueEnd([job |-> job, how |-> how, ship |-> ship', seen |-> seen'])
  <2>1. CASE asked.call = "refuel"
    <3>1. job.name = "refuel" /\ ship'.full
      BY <1>1, <2>1, ObeysIs DEF TravelInv, Commanded
    <3>2. QED
      BY <1>2, <2>1, <3>1 DEF TrueEnd
  <2>2. CASE asked.call = "serve"
    <3>1. job.name \notin {"go", "refuel", "find", "mine", "dock"}
      BY <1>1, <2>2 DEF TravelInv, Commanded
    <3>2. QED
      BY <1>2, <2>2, <3>1 DEF TrueEnd
  <2>3. QED
    BY <1>2, <2>1, <2>2
<1>4. /\ ship' \in Ships /\ seen' \in Sights /\ ship'.system = ship.system
      /\ ship'.going = ship.going \/ (job.name = "go" => OnWay(ship.system, ship'.going))
  BY <1>1, CallsAreOnWay
<1>5. Concludes(how)
  BY <1>1, <1>2
<1>6. QED
  BY <1>1, <1>3, <1>4, <1>5, CallEnds

LEMMA RefusedKeeps == TravelInv /\ Refused => TravelInv'
<1> SUFFICES ASSUME TravelInv, Refused PROVE TravelInv'
  OBVIOUS
<1>1. /\ asked.call \in InGameCalls /\ galaxy' = galaxy /\ view' = view /\ kept' = kept /\ jobs' = jobs /\ trip' = trip
      /\ ship' = ship /\ seen' = seen
  BY DEF Refused, InGame, InGameCalls
<1>2. PICK how \in {"failed", "again"} : Concludes(how)
  BY DEF Refused
<1>3. how \in {"again", "paused"} \/ TrueEnd([job |-> job, how |-> how, ship |-> ship', seen |-> seen'])
  BY FailedIsTrue
<1>4. ship' \in Ships /\ seen' \in Sights /\ ship'.system = ship.system /\ ship'.going = ship.going
  BY <1>1 DEF TravelInv, TravelTypeOK
<1>5. QED
  BY <1>1, <1>2, <1>3, <1>4, CallEnds

LEMMA SurveyedKeeps == TravelInv /\ Surveyed => TravelInv'
<1> SUFFICES ASSUME TravelInv, Surveyed PROVE TravelInv'
  OBVIOUS
<1>1. /\ asked.call = "survey" /\ asked.call \in InGameCalls /\ galaxy' = galaxy /\ view' = view /\ kept' = kept /\ jobs' = jobs
      /\ trip' = trip /\ (Obeys \/ (ship' = ship /\ seen' = seen))
  BY DEF Surveyed, InGameCalls
<1>2. PICK p \in Explore :
        IF p.call \in {"done", "halt", "failed", "again"} THEN Concludes(p.call) ELSE asked' = p /\ job' = job /\ ended' = ended
  BY DEF Surveyed
<1>3. /\ TravelTypeOK /\ TripFits /\ TrueEnd(ended) /\ job.name = "find" /\ Unvisited(Here) = {} /\ Here \in view.seen.entered
      /\ ship = view.ship /\ ship.going = NotGoing /\ view.seen.entered \subseteq seen.entered
  BY <1>1 DEF TravelInv, Commanded, Here
<1>4. ship' = ship /\ ship \in Ships /\ seen' \in Sights /\ seen'.entered = seen.entered
  <2>1. Obeys => ship' = ship /\ seen' \in Sights /\ seen'.entered = seen.entered
    BY <1>1, ObeysIs DEF TravelInv
  <2>2. QED
    BY <1>1, <2>1 DEF TravelInv, TravelTypeOK
<1>5. /\ Right(p) /\ p.call \in {"undock", "jump", "failed", "halt"}
      /\ p.call = "halt" => \A s \in Nodes(Map.links) : HopDistance(Table, Here, s) # Unreachable => s \in view.seen.entered
  BY <1>2, <1>3, ExploreIs
<1>6. CASE p.call \in {"failed", "halt"}
  <2>1. Concludes(p.call)
    BY <1>2, <1>6
  <2>2. TrueEnd([job |-> job, how |-> p.call, ship |-> ship', seen |-> seen'])
    BY <1>3, <1>4, <1>5, <1>6 DEF TrueEnd, Here
  <2>3. PICK how : how = p.call
    OBVIOUS
  <2>4. QED
    BY <1>1, <1>4, <2>1, <2>2, <2>3, CallEnds
<1>7. CASE p.call \in {"undock", "jump"}
  <2>1. asked' = p /\ job' = job /\ ended' = ended
    BY <1>2, <1>7
  <2>2. p = [call |-> p.call, to |-> p.to] /\ p.to \in Spots \cup {NotGoing} /\ (p.call = "jump" => p.to \in Spots)
    BY <1>5 DEF Right, Departures
  <2>3. TravelTypeOK'
    BY <1>1, <1>3, <1>4, <1>7, <2>1, <2>2, MapStays DEF TravelTypeOK, InGameCalls
  <2>4. Planning' /\ Commanded'
    BY <1>1, <1>3, <1>4, <1>7, <2>1, <2>2, MapStays DEF Planning, Commanded, Departures, Here
  <2>5. TripFits'
    BY <1>3, <2>1 DEF TripFits, Going
  <2>6. TrueEnd(ended)'
    BY <1>1, <1>3, <2>1, MapStays
  <2>7. QED
    BY <2>3, <2>4, <2>5, <2>6 DEF TravelInv
<1>8. QED
  BY <1>5, <1>6, <1>7

\* The tick goes on with a look at what became of a journey.
LEMMA ConfirmsLater ==
  ASSUME TravelInv, galaxy' = galaxy, view' = view, kept' = kept, jobs' = jobs, trip' = trip, job' = job, ended' = ended,
         ship' \in Ships, seen' \in Sights, ship'.system = ship.system,
         ship'.going = ship.going \/ (job.name = "go" => OnWay(ship.system, ship'.going)),
         asked' = Call("confirm", asked.to)
  PROVE  TravelInv'
<1>1. asked' = [call |-> "confirm", to |-> asked.to]
  BY DEF Call
<1>2. TravelTypeOK'
  BY <1>1, MapStays DEF TravelInv, TravelTypeOK
<1>3. Planning' /\ Commanded'
  BY <1>1, Between
<1>4. TripFits'
  <2>1. Going' => Going
    BY DEF Going
  <2>2. QED
    BY <2>1, TripStays DEF TravelInv
<1>5. TrueEnd(ended)'
  BY MapStays DEF TravelInv
<1>6. QED
  BY <1>2, <1>3, <1>4, <1>5 DEF TravelInv

LEMMA LostKeeps == TravelInv /\ Lost => TravelInv'
<1> SUFFICES ASSUME TravelInv, Lost PROVE TravelInv'
  OBVIOUS
<1>1. /\ asked.call \in InGameCalls /\ galaxy' = galaxy /\ view' = view /\ kept' = kept /\ jobs' = jobs /\ trip' = trip
      /\ Obeys \/ (ship' = ship /\ seen' = seen)
  BY DEF Lost, InGame, InGameCalls
<1>2. \/ asked' = Call("confirm", asked.to) /\ job' = job /\ ended' = ended
      \/ Concludes("failed")
  BY DEF Lost
<1>3. /\ ship' \in Ships /\ seen' \in Sights /\ ship'.system = ship.system
      /\ ship'.going = ship.going \/ (job.name = "go" => OnWay(ship.system, ship'.going))
  BY <1>1, CallsAreOnWay
<1>4. CASE Concludes("failed")
  BY <1>1, <1>3, <1>4, FailedIsTrue, CallEnds
<1>5. CASE asked' = Call("confirm", asked.to) /\ job' = job /\ ended' = ended
  BY <1>1, <1>3, <1>5, ConfirmsLater
<1>6. QED
  BY <1>2, <1>4, <1>5

LEMMA ConfirmKeeps == TravelInv /\ Confirm => TravelInv'
<1> SUFFICES ASSUME TravelInv, Confirm PROVE TravelInv'
  OBVIOUS
<1>1. /\ galaxy' = galaxy /\ kept' = kept /\ jobs' = jobs /\ trip' = trip /\ ship' = ship
      /\ (Refreshes \/ (view' = view /\ seen' = seen))
  BY DEF Confirm
<1>2. PICK how \in {"failed", "again"} : Concludes(how)
  BY DEF Confirm
<1>3. TravelTypeOK /\ TripFits /\ TrueEnd(ended)
  BY DEF TravelInv
<1>4. seen' \in Sights /\ view' \in [ship : Ships, seen : Sights]
  BY <1>1, <1>3, RefreshesIs DEF TravelTypeOK
<1>5. how \in {"again", "paused"} \/ TrueEnd([job |-> job, how |-> how, ship |-> ship', seen |-> seen'])
  BY FailedIsTrue
<1>6. /\ TrueEnd(ended)' /\ job' \in {job, NoJob} /\ asked' \in [call : {"none", "look"}, to : {NotGoing, Nothing.to}]
      /\ Planning' /\ Commanded'
  BY <1>1, <1>2, <1>3, <1>5, TickEnds
<1>7. Nothing.to = NotGoing
  BY DEF Nothing, NotGoing
<1>8. job'.name = "refuel" => kept' \in DOMAIN Map.at \cup {Nowhere}
  BY <1>1, <1>3, <1>6 DEF TravelTypeOK, NoJob
<1>9. TravelTypeOK'
  BY <1>1, <1>3, <1>4, <1>6, <1>7, <1>8, MapStays DEF TravelTypeOK
<1>10. Going' => Going
  BY <1>1, <1>6 DEF Going, NoJob
<1>11. TripFits'
  BY <1>1, <1>3, <1>6, <1>10, TripStays
<1>12. QED
  BY <1>6, <1>9, <1>11 DEF TravelInv

LEMMA ArriveKeeps == TravelInv /\ Arrive => TravelInv'
<1> SUFFICES ASSUME TravelInv, Arrive PROVE TravelInv'
  OBVIOUS
<1>1. /\ ship.going # NotGoing /\ galaxy' = galaxy /\ seen' = seen /\ view' = view /\ job' = job /\ kept' = kept /\ asked' = asked
      /\ jobs' = jobs /\ ended' = ended
      /\ ship' = [ship EXCEPT !.system = ship.going.system, !.poi = ship.going.poi, !.going = NotGoing,
                              !.full = @ /\ ship.going.system = ship.system]
      /\ trip' = IF ship.going.system = ship.system \/ job.name # "go" THEN trip
                 ELSE [trip EXCEPT !.spent = @ + Weight(ship.going.system)]
  BY DEF Arrive
<1>2. TravelTypeOK /\ TripFits /\ ship \in Ships /\ ship.going \in Spots /\ trip \in [spent : Nat, cost : Nat]
  BY <1>1 DEF TravelInv, TravelTypeOK, Ships
<1>3. ship.going.system \in Nodes(Map.links) /\ ship.going.poi \in DOMAIN Map.at \cup {Nowhere} /\ ship.system \in Nodes(Map.links)
  BY <1>2 DEF Spots, Ships
<1>4. ship' \in Ships /\ ship'.system = ship.going.system /\ ship'.going = NotGoing
  <2>1. PICK full : full = (ship.full /\ ship.going.system = ship.system)
    OBVIOUS
  <2>2. full \in BOOLEAN
    BY <2>1
  <2>3. ship' = [ship EXCEPT !.system = ship.going.system, !.poi = ship.going.poi, !.going = NotGoing, !.full = full]
    BY <1>1, <1>2, <2>1 DEF Ships
  <2>4. QED
    BY <1>2, <1>3, <2>2, <2>3 DEF Ships
<1>5. Weight(ship.going.system) \in {1, 2}
  BY <1>2, <1>3, TableOfMap DEF TravelTypeOK
<1>6. trip' \in [spent : Nat, cost : Nat]
  BY <1>1, <1>2, <1>5
<1>7. TravelTypeOK'
  BY <1>1, <1>2, <1>4, <1>6, MapStays DEF TravelTypeOK
<1>8. Planning' /\ Commanded'
  <2>1. ~(asked.call = "plan" /\ view.ship.going = NotGoing) /\ asked.call \notin InGameCalls
    BY <1>1 DEF TravelInv, Planning, Commanded
  <2>2. QED
    BY <1>1, <2>1 DEF Planning, Commanded
<1>9. TripFits'
  <2>1. CASE ~Going
    BY <1>1, <2>1 DEF TripFits, Going
  <2>2. CASE Going
    <3>1. /\ Aim \in Nodes(Map.links) /\ trip.spent + PathCost(Table, ship.system, Aim) = trip.cost /\ OnWay(ship.system, ship.going)
          /\ job.name = "go"
      BY <1>1, <1>2, <2>2 DEF TripFits, Going
    <3>2. Aim' = Aim /\ Map' = Map /\ PathCost(Table, ship.system, Aim)' = PathCost(Table, ship.going.system, Aim)
      BY <1>1, <1>4, AimStays, MapStays DEF PathCost
    <3>3. trip'.spent + PathCost(Table, ship.going.system, Aim) = trip'.cost
      <4>1. CASE ship.going.system = ship.system
        BY <1>1, <3>1, <4>1
      <4>2. CASE ship.going.system # ship.system
        <5>1. PathCost(Table, ship.system, Aim) = Weight(ship.going.system) + PathCost(Table, ship.going.system, Aim)
          BY <3>1, <4>2 DEF OnWay
        <5>2. PathCost(Table, ship.system, Aim) \in Nat /\ PathCost(Table, ship.going.system, Aim) \in Nat
          BY <1>2, <1>3, <3>1, TableOfMap DEF TravelTypeOK
        <5>3. trip'.spent = trip.spent + Weight(ship.going.system) /\ trip'.cost = trip.cost
          BY <1>1, <1>2, <3>1, <4>2
        <5>4. QED
          BY <1>2, <1>5, <3>1, <5>1, <5>2, <5>3
      <4>3. QED
        BY <4>1, <4>2
    <3>4. QED
      BY <1>4, <3>1, <3>2, <3>3 DEF TripFits
  <2>3. QED
    BY <2>1, <2>2
<1>10. TrueEnd(ended)'
  BY <1>1, MapStays DEF TravelInv
<1>11. QED
  BY <1>7, <1>8, <1>9, <1>10 DEF TravelInv

LEMMA StutterKeeps == TravelInv /\ UNCHANGED travelVars => TravelInv'
<1> SUFFICES ASSUME TravelInv, UNCHANGED travelVars PROVE TravelInv'
  OBVIOUS
<1>1. /\ galaxy' = galaxy /\ ship' = ship /\ seen' = seen /\ view' = view /\ job' = job /\ kept' = kept /\ asked' = asked
      /\ jobs' = jobs /\ trip' = trip /\ ended' = ended
  BY DEF travelVars
<1>2. TravelTypeOK' /\ TrueEnd(ended)' /\ Planning'
  BY <1>1, MapStays DEF TravelInv, TravelTypeOK, Planning
<1>3. Unvisited(Here)' = Unvisited(Here) /\ \A s, to : OnWay(s, to)' <=> OnWay(s, to)
  BY <1>1, MapStays, AimStays DEF Unvisited, At, Here
<1>4. OnWay(ship.system, asked.to)' <=> OnWay(ship.system, asked.to)
  BY <1>1, MapStays, AimStays DEF OnWay
<1>5. Commanded'
  BY <1>1, <1>3, <1>4, MapStays DEF TravelInv, Commanded
<1>6. TripFits'
  <2>1. Going' => Going
    BY <1>1 DEF Going
  <2>2. QED
    BY <1>1, <2>1, TripStays DEF TravelInv
<1>7. QED
  BY <1>2, <1>5, <1>6 DEF TravelInv

-----------------------------------------------------------------------------
(* The theorems. *)

\* Every step of the travel commands, and of the game that answers them, keeps the
\* invariant.
THEOREM TravelInvariant == TravelSpec => []TravelInv
<1>1. TravelInv /\ [TravelNext]_travelVars => TravelInv'
  BY SubmitKeeps, LookKeeps, PlanKeeps, AcceptedKeeps, RefusedKeeps, SurveyedKeeps, LostKeeps, ConfirmKeeps, ArriveKeeps,
     StutterKeeps DEF TravelNext
<1>2. QED
  BY <1>1, TravelInvStarts, PTL DEF TravelSpec

\* A ship is only ever in, or on its way to, a place of the map, and what is known are
\* places of it (a refuel's continuation is a station).
THEOREM TravelTypeCorrect == TravelSpec => []TravelTypeOK
<1>1. TravelInv => TravelTypeOK
  BY DEF TravelInv
<1>2. QED
  BY <1>1, TravelInvariant, PTL

\* What a command reports when it ends is so in the game, on every map and whatever
\* answers are lost: CommandPlanner's ends are planned on a snapshot.
THEOREM ReportsAreTrue == TravelSpec => []EndsAreTrue
<1>1. TravelInv => EndsAreTrue
  BY DEF TravelInv, TrueEnd, EndsAreTrue
<1>2. QED
  BY <1>1, TravelInvariant, PTL

\* On every map the table of routes holds the cheapest ways, and a go takes one, tick by
\* tick, from where it started to where it was sent (Pathfinder, plan_go).
THEOREM WaysAreShortest == TravelSpec => []TripsAreShortest
<1>1. TravelInv => TripsAreShortest
  <2> SUFFICES ASSUME TravelInv PROVE TripsAreShortest
    OBVIOUS
  <2>1. RoutesAreCheapest(Map.links, Map.strongholds, Table)
    <3>1. IsGraph(Map.links) /\ Map.strongholds \subseteq Nodes(Map.links) /\ Table = RouteTable(Map.links, Map.strongholds)
      BY MapIs DEF TravelInv, TravelTypeOK
    <3>2. PICK links, strongholds : links = Map.links /\ strongholds = Map.strongholds
      OBVIOUS
    <3>3. RoutesAreCheapest(links, strongholds, RouteTable(links, strongholds))
      BY <3>1, <3>2, TableIsCheapest
    <3>4. QED
      BY <3>1, <3>2, <3>3
  <2>2. job.name = "go" /\ kept # Nowhere => trip.spent + PathCost(Table, ship.system, GoTarget(job.target).system) = trip.cost
    BY DEF TravelInv, TripFits, Going, Aim
  <2>3. ended.job.name = "go" /\ ended.how = "done" =>
          IF ended.job.target.poi = Nowhere THEN ended.ship.system = ended.job.target.system
          ELSE ended.ship.poi = ended.job.target.poi
    BY DEF TravelInv, TrueEnd
  <2>4. QED
    BY <2>1, <2>2, <2>3 DEF TripsAreShortest
<1>2. QED
  BY <1>1, TravelInvariant, PTL

-----------------------------------------------------------------------------
(* The invariant of goods. *)

Entries == [item : Items, qty : Nat, at : Nat]
Calls == {"buy", "sell", "cancel_sell", "cancel_buy", "withdraw", "loot", "jettison", "move"}
PhaseNames == {"start", "buying", "final", "selling", "cancelling", "refreshing", "withdrawing",
               "cancelling_all", "looting", "jettisoning", "storing"}

\* The values the variables have; a snapshot shows as many wrecks as there are.
GoodsTypeOK ==
  /\ world \in Worlds /\ sight \in Worlds /\ Len(sight.wrecks) = Len(world.wrecks)
  /\ errand \in GoodsJobs \cup {NoErrand} /\ told \in GoodsJobs \cup {NoErrand}
  /\ phase \in [name : PhaseNames, todo : Seq(Entries), buy : Entries]
  /\ request \in [act : Calls \cup {"none", "look", "plan", "refresh"}, of : Seq(Entries)]
  /\ got \in [Items -> Nat] /\ terms \subseteq Prices /\ errands \in Nat /\ meddling \in Nat

Quantity(s) == Total([n \in DOMAIN s |-> s[n].qty], DOMAIN s)
Within(n) == told.qty > 0 => Total(got, Items) + n <= told.qty

\* What the command's calls have in common: prices it allows, the first of a list.
Bid(b) == b.item = Traded /\ b.at \in Prices /\ (told.at > 0 => b.at <= told.at)
Offer(e) == e.item = Traded /\ e.at \in Prices /\ (told.at > 0 => e.at >= told.at)
FirstOf(todo) == todo # <<>> /\ request.of = <<Head(todo)>>
OrdersOf(todo) == FirstOf(todo) /\ \A n \in DOMAIN todo : todo[n].at \in Prices
Apart(todo) == \A m, n \in DOMAIN todo : todo[m].item = todo[n].item /\ todo[m].at = todo[n].at => m = n
InWrecks(w, todo) == \A n \in DOMAIN todo : w.wrecks[todo[n].at][todo[n].item] >= todo[n].qty

Waiting ==
  request.act \in {"look", "plan"} /\ phase = Start /\ (told.from # "space" => got = None /\ terms = {})
Buying ==
  /\ told.do = "buy" /\ phase.name \in {"buying", "final"} /\ request = [act |-> "buy", of |-> <<phase.buy>>]
  /\ Bid(phase.buy) /\ Within(phase.buy.qty)
Cancelling ==
  /\ told.do = "buy" /\ phase.name = "cancelling" /\ request.act = "cancel_sell" /\ OrdersOf(phase.todo)
  /\ Bid(phase.buy) /\ Within(phase.buy.qty)
Refreshing ==
  /\ told.do = "buy" /\ phase.name = "refreshing" /\ request = [act |-> "refresh", of |-> <<>>]
  /\ Bid(phase.buy) /\ Within(phase.buy.qty)
Withdrawing ==
  /\ told.do = "buy" /\ phase.name = "withdrawing" /\ request.act = "withdraw" /\ Len(request.of) = 1
  /\ Bid(phase.buy) /\ Within(Quantity(request.of) + phase.buy.qty)
  /\ meddling = 0 => Holds(world, "storage", request.of) /\ Fits(world, request.of)
Selling ==
  /\ told.do = "sell" /\ phase.name = "selling" /\ request = [act |-> "sell", of |-> phase.todo]
  /\ Len(phase.todo) = 1 /\ Offer(phase.todo[1]) /\ Within(phase.todo[1].qty)
Unordering ==
  /\ told.do \in {"cancel_buy", "cancel_sell"} /\ phase.name = "cancelling_all" /\ request.act = told.do
  /\ OrdersOf(phase.todo) /\ Within(0)
Looting ==
  /\ told.from = "space" /\ phase.name = "looting" /\ request.act = "loot" /\ FirstOf(phase.todo)
  /\ Apart(phase.todo) /\ \A n \in DOMAIN phase.todo : phase.todo[n].at \in DOMAIN world.wrecks
  /\ meddling = 0 => Fits(world, phase.todo) /\ InWrecks(world, phase.todo)
Jettisoning ==
  /\ told.from = "cargo" /\ told.to = "space" /\ phase.name = "jettisoning" /\ request.act = "jettison"
  /\ FirstOf(phase.todo) /\ Within(Quantity(phase.todo))
  /\ meddling = 0 => Holds(world, "cargo", phase.todo)
Storing ==
  /\ told.from \in Places /\ told.to \in Places /\ phase.name = "storing"
  /\ request = [act |-> "move", of |-> phase.todo] /\ Within(Quantity(phase.todo))
  /\ meddling = 0 => Holds(world, told.from, phase.todo) /\ (told.to = "cargo" => Fits(world, phase.todo))

\* The command is told and somewhere on its way, or over.
OnItsWay ==
  \/ errand = NoErrand /\ request = Quiet /\ phase = Start
  \/ /\ errand = told /\ told # NoErrand
     /\ \/ Waiting \/ Buying \/ Cancelling \/ Refreshing \/ Withdrawing
        \/ Selling \/ Unordering \/ Looting \/ Jettisoning \/ Storing

GoodsInv ==
  /\ GoodsTypeOK /\ KeepsToTheOrder /\ OnItsWay
  /\ request.act = "plan" /\ meddling = 0 => sight = world

-----------------------------------------------------------------------------
(* Sums over sequences. *)

LEMMA SumFirst ==
  ASSUME NEW f, NEW n \in Nat \ {0}, \A i \in 1..n : f[i] \in Int,
         NEW g, \A i \in 1..(n - 1) : g[i] = f[i + 1]
  PROVE  SumFunctionOnSet(f, 1..n) = f[1] + SumFunctionOnSet(g, 1..(n - 1))
<1> DEFINE F(k) == SumFunctionOnSet(f, 1..k)
           G(k) == SumFunctionOnSet(g, 1..k)
           C == {k \in 0..(n - 1) : F(k + 1) = f[1] + G(k)}
<1>1. 0 \in C
  <2>1. 1..1 = {1} /\ 1..0 = {}
    OBVIOUS
  <2>2. F(1) = F(0) + f[1]
    <3>1. 1 \in Nat \ {0} /\ \A i \in 1..1 : f[i] \in Int
      OBVIOUS
    <3>2. SumFunctionOnSet(f, 1..1) = SumFunctionOnSet(f, 1..(1 - 1)) + f[1]
      BY <3>1, SumLast
    <3>3. QED
      BY <3>2
  <2>3. F(0) = 0 /\ G(0) = 0
    BY <2>1, SumEmpty
  <2>4. f[1] \in Int
    OBVIOUS
  <2> HIDE DEF F, G
  <2>5. F(0 + 1) = f[1] + G(0)
    BY <2>2, <2>3, <2>4
  <2>6. QED
    BY <2>5
<1>2. ASSUME NEW k \in 1..(n - 1), k - 1 \in C PROVE k \in C
  <2>1. /\ k \in Nat \ {0} /\ k + 1 \in Nat \ {0} /\ (k + 1) - 1 = k
        /\ (\A i \in 1..k : g[i] \in Int) /\ (\A i \in 1..(k + 1) : f[i] \in Int)
    OBVIOUS
  <2>2. F(k + 1) = F((k + 1) - 1) + f[k + 1]
    BY <2>1, SumLast
  <2>3. G(k) = G(k - 1) + g[k]
    BY <2>1, SumLast
  <2>4. F((k - 1) + 1) = f[1] + G(k - 1) /\ (k - 1) + 1 = k
    BY <1>2
  <2>5. g[k] = f[k + 1] /\ f[k + 1] \in Int /\ f[1] \in Int
    BY <2>1
  <2>6. G(k - 1) \in Int
    <3>1. IsFiniteSet(1..(k - 1)) /\ \A i \in 1..(k - 1) : g[i] \in Int
      BY <2>1, FS_Interval
    <3>2. QED
      BY <3>1, SumType
  <2> HIDE DEF F, G
  <2>7. F(k + 1) = f[1] + G(k)
    BY <2>1, <2>2, <2>3, <2>4, <2>5, <2>6
  <2>8. QED
    BY <2>7
<1>3. \A k \in 0..(n - 1) : k \in C
  <2> HIDE DEF C
  <2>1. QED
    BY <1>1, <1>2, NumberInduction
<1>4. n - 1 \in 0..(n - 1) /\ (n - 1) + 1 = n
  OBVIOUS
<1>5. F((n - 1) + 1) = f[1] + G(n - 1)
  BY <1>3, <1>4
<1>6. QED
  BY <1>4, <1>5

\* What a call asks for: in all, of an item, and in space.
Quantities(s) == [n \in DOMAIN s |-> s[n].qty]
OfItem(s, i) == [n \in DOMAIN s |-> IF s[n].item = i THEN s[n].qty ELSE 0]
Spaces(s) == [n \in DOMAIN s |-> s[n].qty * ItemSize[s[n].item]]
Room(s) == SumFunctionOnSet(Spaces(s), DOMAIN s)

LEMMA ItemFacts ==
  /\ IsFiniteSet(Items) /\ Traded \in Items /\ "all" \notin Items
  /\ \A i \in Items : ItemSize[i] \in Nat /\ ItemSize[i] >= 1
  /\ \A n \in DOMAIN ItemOrder : ItemOrder[n] \in Items
  /\ Len(ItemOrder) \in Nat \ {0} /\ DOMAIN ItemOrder = 1..Len(ItemOrder)
<1>1. Len(ItemOrder) \in Nat /\ DOMAIN ItemOrder = 1..Len(ItemOrder) /\ Len(ItemOrder) # 0
  BY GoodsAssumption
<1>2. Items = {ItemOrder[n] : n \in DOMAIN ItemOrder}
  BY DEF Items, ToSet
<1>3. IsFiniteSet(Items)
  <2>1. IsFiniteSet(DOMAIN ItemOrder)
    BY <1>1, FS_Interval
  <2>2. QED
    BY <1>2, <2>1, ImageIsFinite
<1>4. Traded \in Items
  BY <1>1, <1>2 DEF Traded
<1>5. "all" \notin Items
  BY <1>1, <1>2, GoodsAssumption
<1>6. \A i \in Items : ItemSize[i] \in Nat /\ ItemSize[i] >= 1
  BY GoodsAssumption
<1>7. QED
  BY <1>1, <1>2, <1>3, <1>4, <1>5, <1>6

LEMMA TermsAreNumbers ==
  ASSUME NEW s \in Seq(Entries)
  PROVE  /\ IsFiniteSet(DOMAIN s) /\ DOMAIN s = 1..Len(s) /\ Len(s) \in Nat
         /\ \A n \in DOMAIN s : s[n] \in Entries
         /\ \A n \in DOMAIN s : Quantities(s)[n] = s[n].qty /\ Quantities(s)[n] \in Nat
         /\ \A n \in DOMAIN s : Spaces(s)[n] = s[n].qty * ItemSize[s[n].item] /\ Spaces(s)[n] \in Nat
         /\ \A i : \A n \in DOMAIN s : OfItem(s, i)[n] \in Nat
         /\ Quantity(s) = SumFunctionOnSet(Quantities(s), DOMAIN s) /\ Quantity(s) \in Nat
         /\ Room(s) \in Nat
         /\ \A i : Amount(s, i) = SumFunctionOnSet(OfItem(s, i), DOMAIN s) /\ Amount(s, i) \in Nat
<1>1. DOMAIN s = 1..Len(s) /\ Len(s) \in Nat /\ \A n \in DOMAIN s : s[n] \in Entries
  OBVIOUS
<1>2. IsFiniteSet(DOMAIN s)
  BY <1>1, FS_Interval
<1>3. \A n \in DOMAIN s : Quantities(s)[n] = s[n].qty /\ Quantities(s)[n] \in Nat
  BY <1>1 DEF Quantities, Entries
<1>4. ASSUME NEW n \in DOMAIN s
      PROVE  Spaces(s)[n] = s[n].qty * ItemSize[s[n].item] /\ Spaces(s)[n] \in Nat
  <2>1. s[n].qty \in Nat /\ ItemSize[s[n].item] \in Nat
    BY <1>1, ItemFacts DEF Entries
  <2>2. Spaces(s)[n] = s[n].qty * ItemSize[s[n].item]
    BY DEF Spaces
  <2>3. \A a, b \in Nat : a * b \in Nat
    OBVIOUS
  <2>4. QED
    BY <2>1, <2>2, <2>3
<1>5. \A i : \A n \in DOMAIN s : OfItem(s, i)[n] \in Nat
  BY <1>1 DEF OfItem, Entries
<1>6. Quantity(s) = SumFunctionOnSet(Quantities(s), DOMAIN s)
  BY DEF Quantity, Quantities, Total
<1>7. \A i : Amount(s, i) = SumFunctionOnSet(OfItem(s, i), DOMAIN s)
  BY DEF Amount, OfItem, Total
<1>8. Quantity(s) \in Nat
  BY <1>2, <1>3, <1>6, SumOfNaturals
<1>9. Room(s) \in Nat
  BY <1>2, <1>4, SumOfNaturals DEF Room
<1>10. ASSUME NEW i PROVE Amount(s, i) \in Nat
  BY <1>2, <1>5, <1>7, SumOfNaturals
<1>11. QED
  BY <1>1, <1>2, <1>3, <1>4, <1>5, <1>6, <1>7, <1>8, <1>9, <1>10

\* Nothing is asked for by an empty list; one more entry asks for its part more.
LEMMA NothingAsked == Quantity(<<>>) = 0 /\ Room(<<>>) = 0 /\ \A i : Amount(<<>>, i) = 0
<1>1. DOMAIN <<>> = {}
  OBVIOUS
<1>2. QED
  BY <1>1, SumEmpty DEF Quantity, Room, Amount, Total

LEMMA OneMoreAsked ==
  ASSUME NEW s \in Seq(Entries), NEW e \in Entries
  PROVE  /\ Append(s, e) \in Seq(Entries)
         /\ Quantity(Append(s, e)) = Quantity(s) + e.qty
         /\ Room(Append(s, e)) = Room(s) + e.qty * ItemSize[e.item]
<1> DEFINE t == Append(s, e)
           n == Len(s) + 1
<1>1. t \in Seq(Entries) /\ DOMAIN t = 1..n /\ DOMAIN s = 1..(n - 1) /\ n \in Nat \ {0} /\ t[n] = e
  OBVIOUS
<1>2. \A i \in DOMAIN s : t[i] = s[i]
  OBVIOUS
<1> HIDE DEF t, n
<1>3. Quantity(t) = SumFunctionOnSet(Quantities(t), 1..n) /\ Quantity(s) = SumFunctionOnSet(Quantities(s), 1..(n - 1))
  BY <1>1, TermsAreNumbers
<1>4. Room(t) = SumFunctionOnSet(Spaces(t), 1..n) /\ Room(s) = SumFunctionOnSet(Spaces(s), 1..(n - 1))
  BY <1>1 DEF Room
<1>5. \A i \in 1..n : Quantities(t)[i] \in Int /\ Spaces(t)[i] \in Int
  BY <1>1, TermsAreNumbers
<1>6. /\ SumFunctionOnSet(Quantities(t), 1..n) = SumFunctionOnSet(Quantities(t), 1..(n - 1)) + Quantities(t)[n]
      /\ SumFunctionOnSet(Spaces(t), 1..n) = SumFunctionOnSet(Spaces(t), 1..(n - 1)) + Spaces(t)[n]
  BY <1>1, <1>5, SumLast
<1>7. n \in DOMAIN t /\ \A i \in 1..(n - 1) : i \in DOMAIN t
  BY <1>1
<1>8. Quantities(t)[n] = e.qty /\ Spaces(t)[n] = e.qty * ItemSize[e.item]
  BY <1>1, <1>7, TermsAreNumbers
<1>9. IsFiniteSet(1..(n - 1)) /\ \A i \in 1..(n - 1) : Quantities(t)[i] = Quantities(s)[i] /\ Spaces(t)[i] = Spaces(s)[i]
  <2>1. IsFiniteSet(1..(n - 1))
    BY <1>1, FS_Interval
  <2>2. ASSUME NEW i \in 1..(n - 1) PROVE Quantities(t)[i] = Quantities(s)[i] /\ Spaces(t)[i] = Spaces(s)[i]
    <3>1. i \in DOMAIN s /\ i \in DOMAIN t /\ t[i] = s[i]
      BY <1>1, <1>2, <1>7
    <3>2. QED
      BY <3>1 DEF Quantities, Spaces
  <2>3. QED
    BY <2>1, <2>2
<1>10. /\ SumFunctionOnSet(Quantities(t), 1..(n - 1)) = SumFunctionOnSet(Quantities(s), 1..(n - 1))
       /\ SumFunctionOnSet(Spaces(t), 1..(n - 1)) = SumFunctionOnSet(Spaces(s), 1..(n - 1))
  BY <1>9, SumSame
<1>11. QED
  BY <1>1, <1>3, <1>4, <1>6, <1>8, <1>10 DEF t

\* The first of a list and the rest of it ask for what the list asks for.
LEMMA FirstAndRest ==
  ASSUME NEW s \in Seq(Entries), s # <<>>
  PROVE  /\ Head(s) \in Entries /\ Tail(s) \in Seq(Entries) /\ Head(s) = s[1]
         /\ Quantity(s) = Head(s).qty + Quantity(Tail(s))
         /\ Room(s) = Head(s).qty * ItemSize[Head(s).item] + Room(Tail(s))
         /\ \A i : Amount(s, i) = (IF Head(s).item = i THEN Head(s).qty ELSE 0) + Amount(Tail(s), i)
<1> DEFINE t == Tail(s)
           n == Len(s)
<1>1. /\ Head(s) \in Entries /\ t \in Seq(Entries) /\ Head(s) = s[1] /\ n \in Nat \ {0}
      /\ DOMAIN s = 1..n /\ DOMAIN t = 1..(n - 1)
      /\ \A i \in 1..(n - 1) : t[i] = s[i + 1]
  OBVIOUS
<1> HIDE DEF t, n
<1>2. 1 \in DOMAIN s /\ \A i \in 1..(n - 1) : i \in DOMAIN t /\ i + 1 \in DOMAIN s
  BY <1>1
<1>3. Quantity(s) = Head(s).qty + Quantity(t)
  <2>1. \A i \in 1..n : Quantities(s)[i] \in Int
    BY <1>1, TermsAreNumbers
  <2>2. \A i \in 1..(n - 1) : Quantities(t)[i] = Quantities(s)[i + 1]
    BY <1>1, <1>2 DEF Quantities
  <2>3. SumFunctionOnSet(Quantities(s), 1..n) = Quantities(s)[1] + SumFunctionOnSet(Quantities(t), 1..(n - 1))
    BY <1>1, <2>1, <2>2, SumFirst
  <2>4. QED
    BY <1>1, <1>2, <2>3, TermsAreNumbers
<1>4. Room(s) = Head(s).qty * ItemSize[Head(s).item] + Room(t)
  <2>1. \A i \in 1..n : Spaces(s)[i] \in Int
    BY <1>1, TermsAreNumbers
  <2>2. \A i \in 1..(n - 1) : Spaces(t)[i] = Spaces(s)[i + 1]
    BY <1>1, <1>2 DEF Spaces
  <2>3. SumFunctionOnSet(Spaces(s), 1..n) = Spaces(s)[1] + SumFunctionOnSet(Spaces(t), 1..(n - 1))
    BY <1>1, <2>1, <2>2, SumFirst
  <2>4. Spaces(s)[1] = Head(s).qty * ItemSize[Head(s).item]
    BY <1>1, <1>2 DEF Spaces
  <2>5. QED
    BY <1>1, <2>3, <2>4 DEF Room
<1>5. ASSUME NEW i PROVE Amount(s, i) = (IF Head(s).item = i THEN Head(s).qty ELSE 0) + Amount(t, i)
  <2>1. \A k \in 1..n : OfItem(s, i)[k] \in Int
    BY <1>1, TermsAreNumbers
  <2>2. \A k \in 1..(n - 1) : OfItem(t, i)[k] = OfItem(s, i)[k + 1]
    BY <1>1, <1>2 DEF OfItem
  <2>3. SumFunctionOnSet(OfItem(s, i), 1..n) = OfItem(s, i)[1] + SumFunctionOnSet(OfItem(t, i), 1..(n - 1))
    BY <1>1, <2>1, <2>2, SumFirst
  <2>4. OfItem(s, i)[1] = IF Head(s).item = i THEN Head(s).qty ELSE 0
    BY <1>1, <1>2 DEF OfItem
  <2>5. Amount(s, i) = SumFunctionOnSet(OfItem(s, i), 1..n) /\ Amount(t, i) = SumFunctionOnSet(OfItem(t, i), 1..(n - 1))
    BY <1>1, TermsAreNumbers
  <2>6. QED
    BY <2>3, <2>4, <2>5
<1>6. QED
  BY <1>1, <1>3, <1>4, <1>5 DEF t

\* A single call asks for what it says.
LEMMA SingleAsks ==
  ASSUME NEW e \in Entries
  PROVE  /\ <<e>> \in Seq(Entries) /\ Quantity(<<e>>) = e.qty /\ Room(<<e>>) = e.qty * ItemSize[e.item]
         /\ \A i : Amount(<<e>>, i) = IF e.item = i THEN e.qty ELSE 0
<1>0. PICK s : s = <<e>>
  OBVIOUS
<1>1. s \in Seq(Entries) /\ s # <<>> /\ Head(s) = e /\ Tail(s) = <<>>
  BY <1>0
<1>2. e.qty \in Nat /\ e.qty * ItemSize[e.item] \in Nat
  <2>1. e.qty \in Nat /\ ItemSize[e.item] \in Nat
    BY ItemFacts DEF Entries
  <2>2. \A a, b \in Nat : a * b \in Nat
    OBVIOUS
  <2>3. QED
    BY <2>1, <2>2
<1>3. /\ Quantity(s) = e.qty + Quantity(<<>>)
      /\ Room(s) = e.qty * ItemSize[e.item] + Room(<<>>)
      /\ \A i : Amount(s, i) = (IF e.item = i THEN e.qty ELSE 0) + Amount(<<>>, i)
  BY <1>1, FirstAndRest
<1>4. PICK r : r = e.qty * ItemSize[e.item]
  OBVIOUS
<1>5. Room(s) = r /\ r \in Nat
  BY <1>2, <1>3, <1>4, NothingAsked
<1>6. \A i : Amount(s, i) = IF e.item = i THEN e.qty ELSE 0
  BY <1>2, <1>3, NothingAsked
<1>7. Quantity(s) = e.qty
  BY <1>2, <1>3, NothingAsked
<1>8. QED
  BY <1>0, <1>1, <1>4, <1>5, <1>6, <1>7

-----------------------------------------------------------------------------
(* What is taken of a list of targets. *)

LEMMA Division ==
  ASSUME NEW a \in Nat, NEW s \in Nat, s >= 1
  PROVE  /\ a \div s \in Nat
         /\ \A n \in Nat : n <= a \div s => n * s <= a /\ n * s \in Nat
<1>1. a \div s \in Nat /\ (a \div s) * s <= a
  OBVIOUS
<1>2. \A m, n \in Nat : n <= m => n * s <= m * s
  OBVIOUS
<1>3. \A n \in Nat : n * s \in Nat
  OBVIOUS
<1>4. ASSUME NEW n \in Nat, n <= a \div s PROVE n * s <= a
  <2>1. PICK m \in Nat : m = a \div s
    BY <1>1
  <2>2. PICK p, q : p = n * s /\ q = m * s
    OBVIOUS
  <2>3. p <= q /\ q <= a /\ p \in Nat /\ q \in Nat
    BY <1>1, <1>2, <1>3, <1>4, <2>1, <2>2
  <2>4. QED
    BY <2>2, <2>3
<1>5. QED
  BY <1>1, <1>3, <1>4

Loads(w) == [i \in Items |-> w.places["cargo"][i] * ItemSize[i]]

LEMMA UsedIsNumber ==
  ASSUME NEW w \in Worlds
  PROVE  /\ \A i \in Items : Loads(w)[i] = w.places["cargo"][i] * ItemSize[i] /\ Loads(w)[i] \in Nat
         /\ Used(w) = SumFunctionOnSet(Loads(w), Items)
         /\ Used(w) \in Nat /\ Free(w) \in Nat
<1>1. ASSUME NEW i \in Items PROVE Loads(w)[i] = w.places["cargo"][i] * ItemSize[i] /\ Loads(w)[i] \in Nat
  <2>1. w.places["cargo"][i] \in Nat /\ ItemSize[i] \in Nat
    BY ItemFacts DEF Worlds, Places, Stores
  <2>2. \A a, b \in Nat : a * b \in Nat
    OBVIOUS
  <2>3. Loads(w)[i] = w.places["cargo"][i] * ItemSize[i]
    BY DEF Loads
  <2>4. QED
    BY <2>1, <2>2, <2>3
<1>2. Used(w) = SumFunctionOnSet(Loads(w), Items)
  BY DEF Used, Loads, Total
<1>3. Used(w) \in Nat
  BY <1>1, <1>2, ItemFacts, SumOfNaturals
<1>4. Free(w) \in Nat
  BY <1>3, GoodsAssumption DEF Free
<1>5. QED
  BY <1>1, <1>2, <1>3, <1>4

\* What has been taken so far, of which targets, and what is left of the hold and of the order.
Takings(to) ==
  {b \in [free : Int, left : Nat, out : Seq(Entries)] : to = "cargo" => b.free \in Nat}
Takes(b, t, to, qty) ==
  LET k == Part(b, t, to, qty)
  IN IF k = 0 THEN b
     ELSE [free |-> b.free - k * ItemSize[t.item], left |-> IF qty = 0 THEN 0 ELSE b.left - k,
           out |-> Append(b.out, [t EXCEPT !.qty = k])]

LEMMA PartFits ==
  ASSUME NEW to, NEW b \in Takings(to), NEW t \in Entries, NEW qty \in Nat
  PROVE  /\ Part(b, t, to, qty) \in Nat /\ Part(b, t, to, qty) <= t.qty
         /\ qty # 0 => Part(b, t, to, qty) <= b.left
         /\ to = "cargo" => Part(b, t, to, qty) * ItemSize[t.item] <= b.free
         /\ Part(b, t, to, qty) * ItemSize[t.item] \in Nat
<1> DEFINE k == Part(b, t, to, qty)
<1>1. t.qty \in Nat /\ b.left \in Nat /\ ItemSize[t.item] \in Nat /\ ItemSize[t.item] >= 1
  BY ItemFacts DEF Entries, Takings
<1>2. PICK s \in Nat : s = ItemSize[t.item] /\ s >= 1
  BY <1>1
<1>3. to = "cargo" => /\ Fit(b.free, t.item) \in Nat
                      /\ \A n \in Nat : n <= Fit(b.free, t.item) => n * s <= b.free /\ n * s \in Nat
  <2>1. SUFFICES ASSUME to = "cargo"
                 PROVE /\ Fit(b.free, t.item) \in Nat
                       /\ \A n \in Nat : n <= Fit(b.free, t.item) => n * s <= b.free /\ n * s \in Nat
    OBVIOUS
  <2>2. b.free \in Nat /\ Fit(b.free, t.item) = b.free \div s
    BY <1>2, <2>1 DEF Takings, Fit
  <2>3. QED
    BY <1>2, <2>2, Division
<1>4. PICK f : f = Fit(b.free, t.item)
  OBVIOUS
<1>5. k = Least(IF to = "cargo" THEN f ELSE t.qty, Least(t.qty, IF qty = 0 THEN t.qty ELSE b.left))
  BY <1>4 DEF Part
<1>6. k \in Nat /\ k <= t.qty /\ (qty # 0 => k <= b.left) /\ (to = "cargo" => k <= f)
  BY <1>1, <1>3, <1>4, <1>5 DEF Least
<1> HIDE DEF k
<1>7. \A a, c \in Nat : a * c \in Nat
  OBVIOUS
<1>8. QED
  BY <1>2, <1>3, <1>4, <1>6, <1>7 DEF k

LEMMA TakesType ==
  ASSUME NEW to, NEW b \in Takings(to), NEW t \in Entries, NEW qty \in Nat
  PROVE  Takes(b, t, to, qty) \in Takings(to)
<1> DEFINE k == Part(b, t, to, qty)
           p == k * ItemSize[t.item]
<1>1. k \in Nat /\ (qty # 0 => k <= b.left) /\ (to = "cargo" => p <= b.free) /\ p \in Nat
  BY PartFits
<1>2. Takes(b, t, to, qty) = IF k = 0 THEN b
         ELSE [free |-> b.free - p, left |-> IF qty = 0 THEN 0 ELSE b.left - k, out |-> Append(b.out, [t EXCEPT !.qty = k])]
  BY DEF Takes
<1> HIDE DEF k, p
<1>3. [t EXCEPT !.qty = k] \in Entries
  BY <1>1 DEF Entries
<1>4. b.out \in Seq(Entries) /\ b.free \in Int /\ b.left \in Nat /\ (to = "cargo" => b.free \in Nat)
  BY DEF Takings
<1>5. Append(b.out, [t EXCEPT !.qty = k]) \in Seq(Entries)
  BY <1>3, <1>4
<1>6. QED
  BY <1>1, <1>2, <1>4, <1>5 DEF Takings

\* The table of the takings exists, and what is taken comes from its end.
LEMMA TakenTable ==
  ASSUME NEW w \in Worlds, NEW targets \in Seq(Entries), NEW to, NEW qty \in Nat
  PROVE  \E g : /\ g[0] = [free |-> Free(w), left |-> qty, out |-> <<>>]
                /\ \A i \in 0..Len(targets) : g[i] \in Takings(to)
                /\ \A i \in 1..Len(targets) : g[i] = Takes(g[i - 1], targets[i], to, qty)
                /\ Taken(w, targets, to, qty) = g[Len(targets)].out
<1> DEFINE n == Len(targets)
           base == [free |-> Free(w), left |-> qty, out |-> <<>>]
           Tabled(g) == [i \in 0..n |-> IF i = 0 THEN base ELSE Takes(g[i - 1], targets[i], to, qty)]
           G == CHOOSE g : g = Tabled(g)
           step == [i \in 1..n |-> [b \in Takings(to) |-> Takes(b, targets[i], to, qty)]]
<1>1. n \in Nat /\ \A i \in 1..n : targets[i] \in Entries
  OBVIOUS
<1>2. base \in Takings(to)
  BY UsedIsNumber DEF Takings
<1>3. step \in [1..n -> [Takings(to) -> Takings(to)]]
  BY <1>1, TakesType
<1>4. \E g \in [0..n -> Takings(to)] : g[0] = base /\ \A i \in 1..n : g[i] = step[i][g[i - 1]]
  <2>1. PICK X : X = Takings(to)
    OBVIOUS
  <2>2. PICK k, a, f : k = n /\ a = base /\ f = step
    OBVIOUS
  <2> HIDE DEF n, base, step, Table, G
  <2>3. k \in Nat /\ a \in X /\ f \in [1..k -> [X -> X]]
    BY <1>1, <1>2, <1>3, <2>1, <2>2
  <2>4. PICK g : Unrolls(g, k, X, a, f)
    BY <2>3, Recursion
  <2>5. QED
    BY <2>1, <2>2, <2>4 DEF Unrolls
<1>5. PICK h \in [0..n -> Takings(to)] : h[0] = base /\ \A i \in 1..n : h[i] = step[i][h[i - 1]]
  BY <1>4
<1>6. ASSUME NEW i \in 1..n PROVE h[i - 1] \in Takings(to) /\ h[i] = Takes(h[i - 1], targets[i], to, qty)
  <2>1. i - 1 \in 0..n
    BY <1>1
  <2>2. h[i - 1] \in Takings(to)
    BY <2>1
  <2>3. h[i] = step[i][h[i - 1]]
    BY <1>5
  <2>4. QED
    BY <2>2, <2>3
<1>7. h = Tabled(h)
  <2>1. ASSUME NEW i \in 0..n PROVE h[i] = IF i = 0 THEN base ELSE Takes(h[i - 1], targets[i], to, qty)
    <3>1. CASE i = 0
      BY <1>5, <3>1
    <3>2. CASE i # 0
      <4>1. i \in 1..n
        BY <1>1, <3>2
      <4>2. QED
        BY <1>6, <3>2, <4>1
    <3>3. QED
      BY <3>1, <3>2
  <2> HIDE DEF n, base
  <2>2. QED
    BY <2>1
<1>8. G = Tabled(G)
  <2> HIDE DEF Table
  <2>1. QED
    BY <1>7
<1>9. Taken(w, targets, to, qty) = G[n].out
  BY DEF Taken, Takes
<1> HIDE DEF G, step
<1>10. G[0] = base /\ \A i \in 1..n : G[i] = Takes(G[i - 1], targets[i], to, qty)
  <2>1. \A i \in 0..n : G[i] = IF i = 0 THEN base ELSE Takes(G[i - 1], targets[i], to, qty)
    <3> HIDE DEF n, base
    <3>1. QED
      BY <1>8
  <2>2. 0 \in 0..n /\ \A i \in 1..n : i \in 0..n /\ i # 0
    BY <1>1
  <2> HIDE DEF n, base
  <2>3. QED
    BY <2>1, <2>2
<1>11. \A i \in 0..n : G[i] \in Takings(to)
  <2> DEFINE C == {i \in 0..n : G[i] \in Takings(to)}
  <2>1. 0 \in C
    BY <1>1, <1>2, <1>10
  <2>2. ASSUME NEW i \in 1..n, i - 1 \in C PROVE i \in C
    <3>1. G[i - 1] \in Takings(to) /\ targets[i] \in Entries /\ G[i] = Takes(G[i - 1], targets[i], to, qty)
      BY <1>1, <1>10, <2>2
    <3>2. G[i] \in Takings(to)
      BY <3>1, TakesType
    <3>3. QED
      BY <1>1, <3>2
  <2> HIDE DEF C
  <2>3. \A i \in 0..n : i \in C
    <3> HIDE DEF n
    <3>1. QED
      BY <1>1, <2>1, <2>2, NumberInduction
  <2>4. QED
    BY <2>3 DEF C
<1>12. QED
  BY <1>9, <1>10, <1>11

\* What was taken up to a target: it adds up, and it is of the targets up to there.
Same(e, t) == e.item = t.item /\ e.at = t.at
SoundTakings(b, i, w, targets, to, qty) ==
  /\ qty # 0 => Quantity(b.out) + b.left = qty
  /\ to = "cargo" => Room(b.out) + b.free = Free(w)
  /\ \A n \in DOMAIN b.out : \E m \in 1..i : Same(b.out[n], targets[m]) /\ b.out[n].qty <= targets[m].qty
  /\ Apart(targets) => Apart(b.out)

LEMMA LongerByOne ==
  ASSUME NEW s \in Seq(Entries), NEW e \in Entries
  PROVE  /\ DOMAIN Append(s, e) = 1..(Len(s) + 1) /\ Append(s, e)[Len(s) + 1] = e
         /\ Len(s) + 1 \in DOMAIN Append(s, e)
         /\ \A n \in DOMAIN Append(s, e) :
              n = Len(s) + 1 \/ (n \in DOMAIN s /\ Append(s, e)[n] = s[n])
OBVIOUS

LEMMA TakesSoundly ==
  ASSUME NEW w \in Worlds, NEW targets \in Seq(Entries), NEW to, NEW qty \in Nat,
         NEW i \in 1..Len(targets), NEW b \in Takings(to), SoundTakings(b, i - 1, w, targets, to, qty)
  PROVE  SoundTakings(Takes(b, targets[i], to, qty), i, w, targets, to, qty)
<1> DEFINE t == targets[i]
           k == Part(b, t, to, qty)
           e == [t EXCEPT !.qty = k]
           p == k * ItemSize[t.item]
           c == Takes(b, t, to, qty)
<1>1. t \in Entries /\ i \in Nat \ {0} /\ i \in DOMAIN targets
  OBVIOUS
<1>2. k \in Nat /\ k <= t.qty /\ (qty # 0 => k <= b.left) /\ (to = "cargo" => p <= b.free) /\ p \in Nat
  BY <1>1, PartFits
<1>3. b.out \in Seq(Entries) /\ b.free \in Int /\ b.left \in Nat
  BY DEF Takings
<1>4. c = IF k = 0 THEN b
          ELSE [free |-> b.free - p, left |-> IF qty = 0 THEN 0 ELSE b.left - k, out |-> Append(b.out, e)]
  BY DEF Takes
<1> HIDE DEF k, p, c
<1>5. e \in Entries /\ e.qty = k /\ e.item = t.item /\ e.at = t.at
  BY <1>1, <1>2 DEF Entries
<1> HIDE DEF e, t
<1>6. ASSUME NEW n \in DOMAIN b.out
      PROVE  \E m \in 1..(i - 1) : Same(b.out[n], targets[m]) /\ b.out[n].qty <= targets[m].qty
  BY DEF SoundTakings
<1>7. CASE k = 0
  <2>1. c = b /\ \A m \in 1..(i - 1) : m \in 1..i
    BY <1>1, <1>4, <1>7
  <2>2. QED
    BY <2>1 DEF SoundTakings, c, t
<1>8. CASE k # 0
  <2> DEFINE out == Append(b.out, e)
             z == Len(b.out) + 1
  <2>1. c.out = out /\ c.free = b.free - p /\ (qty # 0 => c.left = b.left - k)
    BY <1>4, <1>8
  <2>2. Quantity(out) = Quantity(b.out) + k /\ Room(out) = Room(b.out) + k * ItemSize[t.item]
    BY <1>3, <1>5, OneMoreAsked
  <2>3. Quantity(b.out) \in Nat /\ Room(b.out) \in Nat
    BY <1>3, TermsAreNumbers
  <2>4. qty # 0 => Quantity(out) + c.left = qty
    <3>1. qty # 0 => Quantity(b.out) + b.left = qty
      BY DEF SoundTakings
    <3> HIDE DEF out
    <3>2. QED
      BY <1>2, <1>3, <2>1, <2>2, <2>3, <3>1
  <2>5. to = "cargo" => Room(out) + c.free = Free(w)
    <3>1. to = "cargo" => Room(b.out) + b.free = Free(w)
      BY DEF SoundTakings
    <3>2. Room(out) = Room(b.out) + p
      BY <2>2 DEF p
    <3> HIDE DEF out
    <3>3. QED
      BY <1>2, <1>3, <2>1, <2>3, <3>1, <3>2
  <2>6. /\ DOMAIN out = 1..z /\ out[z] = e /\ z \in DOMAIN out
        /\ \A n \in DOMAIN out : n = z \/ (n \in DOMAIN b.out /\ out[n] = b.out[n])
    BY <1>3, <1>5, LongerByOne
  <2> HIDE DEF out, z
  <2>7. ASSUME NEW n \in DOMAIN out PROVE \E m \in 1..i : Same(out[n], targets[m]) /\ out[n].qty <= targets[m].qty
    <3>1. CASE n = z
      <4>1. Same(out[n], targets[i]) /\ out[n].qty <= targets[i].qty /\ i \in 1..i
        BY <1>1, <1>2, <1>5, <2>6, <3>1 DEF Same, t
      <4>2. QED
        BY <4>1
    <3>2. CASE n \in DOMAIN b.out /\ out[n] = b.out[n]
      <4>1. PICK m \in 1..(i - 1) : Same(b.out[n], targets[m]) /\ b.out[n].qty <= targets[m].qty
        BY <1>6, <3>2
      <4>2. m \in 1..i
        BY <1>1
      <4>3. QED
        BY <3>2, <4>1, <4>2
    <3>3. QED
      BY <2>6, <3>1, <3>2
  <2>8. ASSUME Apart(targets) PROVE Apart(out)
    <3>1. ASSUME NEW n \in DOMAIN b.out PROVE ~(b.out[n].item = e.item /\ b.out[n].at = e.at)
      <4>1. PICK m \in 1..(i - 1) : Same(b.out[n], targets[m])
        BY <1>6
      <4>2. m \in DOMAIN targets /\ m # i
        BY <1>1
      <4>3. ~(targets[m].item = t.item /\ targets[m].at = t.at)
        BY <1>1, <2>8, <4>2 DEF Apart, t
      <4>4. QED
        BY <1>5, <4>1, <4>3 DEF Same
    <3>2. Apart(b.out)
      BY <2>8 DEF SoundTakings
    <3>3. QED
      BY <2>6, <3>1, <3>2 DEF Apart
  <2>9. QED
    BY <2>1, <2>4, <2>5, <2>7, <2>8 DEF SoundTakings, c, t
<1>9. QED
  BY <1>7, <1>8

\* What is taken: no more than was asked for or fits, and every part of it of a target.
LEMMA TakenIsSound ==
  ASSUME NEW w \in Worlds, NEW targets \in Seq(Entries), NEW to, NEW qty \in Nat,
         NEW out, out = Taken(w, targets, to, qty)
  PROVE  /\ out \in Seq(Entries)
         /\ qty # 0 => Quantity(out) <= qty
         /\ to = "cargo" => Room(out) <= Free(w)
         /\ \A n \in DOMAIN out :
              \E m \in DOMAIN targets : Same(out[n], targets[m]) /\ out[n].qty <= targets[m].qty
         /\ Apart(targets) => Apart(out)
<1>1. PICK g : /\ g[0] = [free |-> Free(w), left |-> qty, out |-> <<>>]
               /\ \A i \in 0..Len(targets) : g[i] \in Takings(to)
               /\ \A i \in 1..Len(targets) : g[i] = Takes(g[i - 1], targets[i], to, qty)
               /\ Taken(w, targets, to, qty) = g[Len(targets)].out
  BY TakenTable
<1> DEFINE n == Len(targets)
           C == {i \in 0..n : SoundTakings(g[i], i, w, targets, to, qty)}
<1>2. n \in Nat /\ n \in 0..n /\ DOMAIN targets = 1..n
  OBVIOUS
<1>3. 0 \in C
  <2>1. g[0].out = <<>> /\ g[0].left = qty /\ g[0].free = Free(w)
    BY <1>1
  <2>2. Free(w) \in Nat
    BY UsedIsNumber
  <2>3. Apart(<<>>) /\ \A m \in DOMAIN <<>> : FALSE
    BY DEF Apart
  <2>4. SoundTakings(g[0], 0, w, targets, to, qty)
    BY <2>1, <2>2, <2>3, NothingAsked DEF SoundTakings
  <2>5. QED
    BY <1>2, <2>4
<1>4. ASSUME NEW i \in 1..n, i - 1 \in C PROVE i \in C
  <2>1. g[i - 1] \in Takings(to) /\ SoundTakings(g[i - 1], i - 1, w, targets, to, qty)
    BY <1>1, <1>4
  <2>2. SoundTakings(Takes(g[i - 1], targets[i], to, qty), i, w, targets, to, qty)
    BY <2>1, TakesSoundly
  <2>3. g[i] = Takes(g[i - 1], targets[i], to, qty) /\ i \in 0..n
    BY <1>1, <1>2
  <2>4. QED
    BY <2>2, <2>3
<1>5. \A i \in 0..n : i \in C
  <2> HIDE DEF C, n
  <2>1. QED
    BY <1>2, <1>3, <1>4, NumberInduction
<1>6. SoundTakings(g[n], n, w, targets, to, qty) /\ g[n] \in Takings(to) /\ out = g[n].out
  BY <1>1, <1>2, <1>5
<1> HIDE DEF n, C
<1>7. out \in Seq(Entries) /\ g[n].left \in Nat /\ (to = "cargo" => g[n].free \in Nat)
  BY <1>6 DEF Takings
<1>8. Quantity(out) \in Nat /\ Room(out) \in Nat /\ Free(w) \in Nat
  BY <1>7, TermsAreNumbers, UsedIsNumber
<1>9. (qty # 0 => Quantity(out) + g[n].left = qty) /\ (to = "cargo" => Room(out) + g[n].free = Free(w))
  BY <1>6 DEF SoundTakings
<1>10. (qty # 0 => Quantity(out) <= qty) /\ (to = "cargo" => Room(out) <= Free(w))
  BY <1>7, <1>8, <1>9
<1>11. QED
  BY <1>2, <1>6, <1>7, <1>10 DEF SoundTakings

-----------------------------------------------------------------------------
(* Targets, and what is there of them. *)

LEMMA SourceTargetsAre ==
  ASSUME NEW w \in Worlds, NEW from \in Places, NEW item,
         NEW targets, targets = SourceTargets(w, from, item)
  PROVE  /\ targets \in Seq(Entries) /\ Apart(targets)
         /\ \A n \in DOMAIN targets : targets[n].at = 0 /\ targets[n].qty <= w.places[from][targets[n].item]
<1>1. DOMAIN targets = 1..Len(ItemOrder) /\ Len(ItemOrder) \in Nat /\ DOMAIN ItemOrder = 1..Len(ItemOrder)
  BY ItemFacts DEF SourceTargets
<1>2. w.places[from] \in [Items -> Nat]
  BY DEF Worlds
<1>3. ASSUME NEW n \in DOMAIN targets
      PROVE  /\ targets[n] \in Entries /\ targets[n].at = 0 /\ targets[n].item = ItemOrder[n]
             /\ targets[n].qty <= w.places[from][targets[n].item]
  <2>1. ItemOrder[n] \in Items
    BY <1>1, ItemFacts
  <2>2. PICK q : q = IF item \in {"all", ItemOrder[n]} THEN w.places[from][ItemOrder[n]] ELSE 0
    OBVIOUS
  <2>3. targets[n] = Entry(ItemOrder[n], q, 0)
    BY <1>1, <2>2 DEF SourceTargets
  <2>4. w.places[from][ItemOrder[n]] \in Nat
    BY <1>2, <2>1
  <2>5. q \in Nat /\ q <= w.places[from][ItemOrder[n]]
    BY <2>2, <2>4
  <2>6. QED
    BY <2>1, <2>3, <2>5 DEF Entry, Entries
<1>4. targets \in Seq(Entries)
  <2>1. targets = [n \in 1..Len(ItemOrder) |-> targets[n]]
    BY <1>1 DEF SourceTargets
  <2>2. \A n \in 1..Len(ItemOrder) : targets[n] \in Entries
    BY <1>1, <1>3
  <2>3. targets \in [1..Len(ItemOrder) -> Entries]
    BY <2>1, <2>2
  <2>4. QED
    BY <1>1, <2>3
<1>5. Apart(targets)
  BY <1>1, <1>3, GoodsAssumption DEF Apart
<1>6. QED
  BY <1>3, <1>4, <1>5

\* A place of the loops of space_loot_targets is a wreck and an item.
LEMMA RowAndColumn ==
  ASSUME NEW a \in Nat, NEW b \in Nat \ {0}, NEW m \in 1..(a * b)
  PROVE  /\ 1 + ((m - 1) \div b) \in 1..a /\ 1 + ((m - 1) % b) \in 1..b
         /\ m = ((m - 1) \div b) * b + ((m - 1) % b) + 1
<1>1. \A x \in Nat : x \div b \in Nat /\ x % b \in 0..(b - 1) /\ x = b * (x \div b) + (x % b)
  OBVIOUS
<1>2. PICK q, r : q = (m - 1) \div b /\ r = (m - 1) % b
  OBVIOUS
<1>3. m - 1 \in Nat /\ a * b \in Nat /\ m - 1 < a * b
  <2>1. \A x, y \in Nat : x * y \in Nat
    OBVIOUS
  <2>2. PICK c : c = a * b
    OBVIOUS
  <2>3. c \in Nat /\ m \in 1..c
    BY <2>1, <2>2
  <2>4. QED
    BY <2>2, <2>3
<1>4. q \in Nat /\ r \in 0..(b - 1) /\ m - 1 = b * q + r
  BY <1>1, <1>2, <1>3
<1>5. b * q = q * b
  BY <1>4
<1>6. q < a
  <2>1. SUFFICES ASSUME a <= q PROVE FALSE
    BY <1>4
  <2>2. \A x, y \in Nat : x <= y => x * b <= y * b
    OBVIOUS
  <2>3. PICK c, d : c = a * b /\ d = q * b
    OBVIOUS
  <2>4. c <= d
    BY <1>4, <2>1, <2>2, <2>3
  <2>5. c \in Nat /\ m - 1 < c /\ m - 1 = d + r
    BY <1>3, <1>4, <1>5, <2>3
  <2>6. d \in Nat
    <3>1. \A x, y \in Nat : x * y \in Nat
      OBVIOUS
    <3>2. QED
      BY <1>4, <2>3, <3>1
  <2>7. QED
    BY <1>4, <2>4, <2>5, <2>6
<1>7. PICK d : d = q * b
  OBVIOUS
<1>8. m - 1 = d + r
  BY <1>4, <1>5, <1>7
<1>9. d \in Nat
  <2>1. \A x, y \in Nat : x * y \in Nat
    OBVIOUS
  <2>2. QED
    BY <1>4, <1>7, <2>1
<1>10. m = d + r + 1
  BY <1>4, <1>8, <1>9
<1>11. QED
  BY <1>2, <1>4, <1>6, <1>7, <1>10

LEMMA LootTargetsAre ==
  ASSUME NEW w \in Worlds, NEW wreck, NEW item, NEW targets, targets = LootTargets(w, wreck, item)
  PROVE  /\ targets \in Seq(Entries) /\ Apart(targets)
         /\ \A n \in DOMAIN targets : targets[n].at \in DOMAIN w.wrecks
         /\ InWrecks(w, targets)
<1> DEFINE a == Len(w.wrecks)
           b == Len(ItemOrder)
           Row(m) == 1 + ((m - 1) \div b)
           Column(m) == 1 + ((m - 1) % b)
<1>1. a \in Nat /\ b \in Nat \ {0} /\ DOMAIN w.wrecks = 1..a /\ DOMAIN ItemOrder = 1..b
  BY ItemFacts DEF Worlds
<1>2. \A k \in 1..a : w.wrecks[k] \in [Items -> Nat]
  BY <1>1 DEF Worlds
<1>3. DOMAIN targets = 1..(a * b)
  BY DEF LootTargets
<1>4. ASSUME NEW m \in 1..(a * b)
      PROVE  /\ targets[m] \in Entries /\ targets[m].at = Row(m) /\ Row(m) \in 1..a
             /\ targets[m].item = ItemOrder[Column(m)] /\ Column(m) \in 1..b
             /\ targets[m].qty <= w.wrecks[targets[m].at][targets[m].item]
  <2>1. PICK k, c : k = Row(m) /\ c = Column(m)
    OBVIOUS
  <2>2. k \in 1..a /\ c \in 1..b
    <3> HIDE DEF a, b
    <3>1. QED
      BY <1>1, <2>1, RowAndColumn
  <2>3. PICK i : i = ItemOrder[c]
    OBVIOUS
  <2>4. PICK q : q = IF wreck \in {0, k} /\ item \in {"all", i} THEN w.wrecks[k][i] ELSE 0
    OBVIOUS
  <2>5. targets[m] = Entry(i, q, k)
    BY <1>3, <2>1, <2>3, <2>4 DEF LootTargets
  <2>6. i \in Items
    BY <1>1, <2>2, <2>3, ItemFacts
  <2>7. q \in Nat /\ q <= w.wrecks[k][i]
    <3>1. w.wrecks[k][i] \in Nat
      BY <1>2, <2>2, <2>6
    <3>2. QED
      BY <2>4, <3>1
  <2>8. k \in Nat
    BY <1>1, <2>2
  <2> HIDE DEF a, b, Row, Column
  <2>9. QED
    BY <2>1, <2>2, <2>3, <2>5, <2>6, <2>7, <2>8 DEF Entry, Entries
<1>5. a * b \in Nat
  <2>1. \A x, y \in Nat : x * y \in Nat
    OBVIOUS
  <2>2. QED
    BY <1>1, <2>1
<1>6. targets \in Seq(Entries)
  <2>1. PICK z : z = a * b
    OBVIOUS
  <2>2. DOMAIN targets = 1..z /\ z \in Nat /\ \A n \in 1..z : targets[n] \in Entries
    BY <1>3, <1>4, <1>5, <2>1
  <2>3. targets = [n \in 1..z |-> targets[n]]
    BY <2>1 DEF LootTargets
  <2>4. targets \in [1..z -> Entries]
    BY <2>2, <2>3
  <2>5. QED
    BY <2>2, <2>4
<1>7. Apart(targets)
  <2>1. SUFFICES ASSUME NEW m \in DOMAIN targets, NEW n \in DOMAIN targets,
                        targets[m].item = targets[n].item, targets[m].at = targets[n].at
                 PROVE  m = n
    BY DEF Apart
  <2>2. m \in 1..(a * b) /\ n \in 1..(a * b)
    BY <1>3
  <2>3. Row(m) = Row(n) /\ ItemOrder[Column(m)] = ItemOrder[Column(n)]
    BY <1>4, <2>1, <2>2
  <2>4. Column(m) = Column(n)
    <3>1. Column(m) \in DOMAIN ItemOrder /\ Column(n) \in DOMAIN ItemOrder
      BY <1>1, <1>4, <2>2
    <3> HIDE DEF Column
    <3>2. QED
      BY <2>3, <3>1, GoodsAssumption
  <2>5. PICK q, r, u, v : q = (m - 1) \div b /\ r = (m - 1) % b /\ u = (n - 1) \div b /\ v = (n - 1) % b
    OBVIOUS
  <2>6. m = q * b + r + 1 /\ n = u * b + v + 1
    <3> HIDE DEF a, b
    <3>1. QED
      BY <1>1, <2>2, <2>5, RowAndColumn
  <2>7. q \in Nat /\ r \in Nat /\ u \in Nat /\ v \in Nat
    <3>1. \A x \in Nat : x \div b \in Nat /\ x % b \in Nat
      BY <1>1
    <3>2. PICK z : z = a * b
      OBVIOUS
    <3>3. m - 1 \in Nat /\ n - 1 \in Nat
      BY <1>5, <2>2, <3>2
    <3>4. QED
      BY <2>5, <3>1, <3>3
  <2>8. 1 + q = 1 + u /\ 1 + r = 1 + v
    BY <2>3, <2>4, <2>5
  <2>9. q = u /\ r = v
    BY <2>7, <2>8
  <2>10. QED
    BY <2>6, <2>9
<1>8. QED
  BY <1>1, <1>3, <1>4, <1>6, <1>7 DEF InWrecks

\* Stacks of different items, each there, are all there.
LEMMA ApartHolds ==
  ASSUME NEW s \in Seq(Entries), Apart(s), NEW f \in [Items -> Nat],
         \A n \in DOMAIN s : s[n].at = 0 /\ s[n].qty <= f[s[n].item]
  PROVE  \A i \in Items : Amount(s, i) <= f[i]
<1> SUFFICES ASSUME NEW i \in Items PROVE Amount(s, i) <= f[i]
  OBVIOUS
<1>1. IsFiniteSet(DOMAIN s) /\ Amount(s, i) = SumFunctionOnSet(OfItem(s, i), DOMAIN s)
  BY TermsAreNumbers
<1>2. f[i] \in Nat
  OBVIOUS
<1>3. CASE \E n \in DOMAIN s : s[n].item = i
  <2>1. PICK n \in DOMAIN s : s[n].item = i
    BY <1>3
  <2>2. \A m \in DOMAIN s \ {n} : s[m].item # i
    BY <2>1 DEF Apart
  <2>3. \A m \in DOMAIN s \ {n} : OfItem(s, i)[m] = 0
    BY <2>2 DEF OfItem
  <2>4. OfItem(s, i)[n] = s[n].qty /\ OfItem(s, i)[n] \in Int
    BY <2>1, TermsAreNumbers DEF OfItem
  <2>5. Amount(s, i) = s[n].qty
    BY <1>1, <2>3, <2>4, SumOfOne
  <2>6. QED
    BY <2>1, <2>5
<1>4. CASE \A n \in DOMAIN s : s[n].item # i
  <2>1. \A m \in DOMAIN s : OfItem(s, i)[m] = 0
    BY <1>4 DEF OfItem
  <2>2. Amount(s, i) = 0
    BY <1>1, <2>1, SumOfNothing
  <2>3. QED
    BY <1>2, <2>2
<1>5. QED
  BY <1>3, <1>4

\* What a call moves of all items together is what it asks for.
LEMMA AmountsAddUp ==
  ASSUME NEW s \in Seq(Entries)
  PROVE  SumFunctionOnSet([i \in Items |-> Amount(s, i)], Items) = Quantity(s)
<1> DEFINE A == [i \in Items |-> OfItem(s, i)]
           D == DOMAIN s
<1>1. IsFiniteSet(D) /\ IsFiniteSet(Items) /\ \A n \in D : s[n] \in Entries
  BY TermsAreNumbers, ItemFacts
<1>2. \A i \in Items : A[i] = OfItem(s, i) /\ \A n \in D : A[i][n] \in Int
  BY TermsAreNumbers
<1>3. \A i \in Items : SumFunctionOnSet(A[i], D) = Amount(s, i)
  BY <1>2, TermsAreNumbers
<1>4. ASSUME NEW n \in D
      PROVE  SumFunctionOnSet([i \in Items |-> A[i][n]], Items) = Quantities(s)[n]
  <2> DEFINE f == [i \in Items |-> A[i][n]]
             y == s[n].item
  <2>1. y \in Items /\ s[n].qty \in Int
    BY <1>1 DEF Entries
  <2>2. \A i \in Items : f[i] = IF y = i THEN s[n].qty ELSE 0
    BY <1>2 DEF OfItem
  <2> HIDE DEF f, y
  <2>3. f[y] \in Int /\ f[y] = s[n].qty /\ \A i \in Items \ {y} : f[i] = 0
    BY <2>1, <2>2
  <2>4. SumFunctionOnSet(f, Items) = s[n].qty
    BY <1>1, <2>1, <2>3, SumOfOne
  <2>5. QED
    BY <2>4 DEF f, Quantities
<1> DEFINE P == [i \in Items |-> SumFunctionOnSet(A[i], D)]
           Q == [n \in D |-> SumFunctionOnSet([i \in Items |-> A[i][n]], Items)]
<1>5. SumFunctionOnSet(P, Items) = SumFunctionOnSet(Q, D)
  <2> HIDE DEF A, D
  <2>1. QED
    BY <1>1, <1>2, SumSwap
<1>6. P = [i \in Items |-> Amount(s, i)]
  BY <1>3
<1>7. SumFunctionOnSet(Q, D) = SumFunctionOnSet(Quantities(s), D)
  <2>1. \A n \in D : Q[n] = Quantities(s)[n]
    <3> HIDE DEF A
    <3>1. QED
      BY <1>4
  <2> HIDE DEF Q, D
  <2>2. QED
    BY <1>1, <2>1, SumSame
<1>8. Quantity(s) = SumFunctionOnSet(Quantities(s), D)
  BY TermsAreNumbers
<1> HIDE DEF P, Q, A, D
<1>9. QED
  BY <1>5, <1>6, <1>7, <1>8

-----------------------------------------------------------------------------
(* What the game does with a call, and what it answers. *)

LEMMA BooksAre ==
  ASSUME NEW book \in Books
  PROVE  /\ IsFiniteSet(Prices) /\ \A p \in Prices : book[p] \in Nat
         /\ \A S : Depth(book, S) \in Nat
         /\ \A rank, S : \A qty \in Nat : Fill(book, rank, S, qty) \in Books
         /\ Quoted(book) \in SUBSET Prices
<1>1. IsFiniteSet(Prices)
  BY GoodsAssumption, FS_Interval DEF Prices
<1>2. \A p \in Prices : book[p] \in Nat
  BY DEF Books
<1>3. ASSUME NEW S PROVE Depth(book, S) \in Nat
  <2>1. IsFiniteSet(S \cap Prices)
    BY <1>1, FS_Intersection
  <2>2. SumFunctionOnSet(book, S \cap Prices) \in Nat
    BY <1>2, <2>1, SumOfNaturals
  <2>3. QED
    BY <2>2 DEF Depth, Total
<1>4. ASSUME NEW rank, NEW S, NEW qty \in Nat PROVE Fill(book, rank, S, qty) \in Books
  <2>1. ASSUME NEW p \in Prices, NEW T PROVE book[p] - Matched(book, T, qty, p) \in Nat
    <3>1. PICK d \in Nat : d = Depth(book, T)
      BY <1>3
    <3>2. Matched(book, T, qty, p) = Least(book[p], qty - Least(qty, d))
      BY <3>1 DEF Matched
    <3>3. book[p] \in Nat
      BY <1>2
    <3>4. QED
      BY <3>2, <3>3 DEF Least
  <2>2. \A p \in Prices : (IF p \in S THEN book[p] - Matched(book, {x \in S : rank[x] < rank[p]}, qty, p) ELSE book[p]) \in Nat
    BY <1>2, <2>1
  <2>3. QED
    BY <2>2 DEF Fill, Books
<1>5. QED
  BY <1>1, <1>2, <1>3, <1>4 DEF Quoted

\* What a call did, to the world and to what the command has moved, at which prices; and
\* the answer.
Did(o, s, ps) ==
  /\ o.w \in Worlds /\ Len(o.w.wrecks) = Len(world.wrecks) /\ o.at \subseteq ps
  /\ o.got = None \/ o.got = [i \in Items |-> Amount(s, i)]
Outcome(o, s, ps) ==
  /\ Did(o, s, ps) /\ o.ans.left \in Nat /\ o.ans.ids \in SUBSET Prices
  /\ o.ans.is # "ok" => o.w = world /\ o.got = None /\ o.at = {}

LEMMA RefusalEnds ==
  ASSUME world \in Worlds, NEW ans, ans.left \in Nat, ans.ids \in SUBSET Prices, ans.is # "ok", NEW s, NEW ps
  PROVE  \A o \in Refusal(ans) : Outcome(o, s, ps) /\ o.ans = ans
BY DEF Refusal, Outcome, Did

LEMMA Effected ==
  ASSUME NEW w \in Worlds, Len(w.wrecks) = Len(world.wrecks), NEW s, NEW ps
  PROVE  \A o \in Effect(w, s, ps) :
           Outcome(o, s, ps) /\ o.w = w /\ o.ans.is = "ok" /\ o.got = [i \in Items |-> Amount(s, i)]
BY DEF Effect, Outcome, Did, Ans

LEMMA AnswersAre ==
  \A is : /\ Ans(is).is = is /\ Ans(is).left = 0 /\ Ans(is).ids = {}
          /\ \A n : LET a == [Ans(is) EXCEPT !.left = n] IN a.is = is /\ a.left = n /\ a.ids = {}
          /\ \A ids : LET a == [Ans(is) EXCEPT !.ids = ids] IN a.is = is /\ a.left = 0 /\ a.ids = ids
BY DEF Ans

\* A world whose places and market are changed is a world.
LEMMA WorldsAre ==
  ASSUME NEW w \in Worlds
  PROVE  /\ w.places \in [Places -> [Items -> Nat]] /\ w.wrecks \in Seq([Items -> Nat])
         /\ w.asks \in Books /\ w.bids \in Books /\ w.mine \in Books /\ w.wants \in Books
         /\ "cargo" \in Places /\ "storage" \in Places /\ "faction" \in Places
         /\ \A p \in Places : w.places[p] \in [Items -> Nat]
BY DEF Worlds, Places, Stores

LEMMA BuysAre ==
  ASSUME world \in Worlds, NEW s, s = request.of, NEW e \in Entries, e.item = Traded, e.at \in Prices
  PROVE  \A o \in GameBuys(e) : Outcome(o, s, {e.at})
<1> DEFINE crossed == Quoted(world.mine) \cap 1..e.at
           n == Least(e.qty, Depth(world.asks, 1..e.at))
           A == Fill(world.asks, LowFirst, 1..e.at, e.qty)
           P == [world.places EXCEPT !["storage"] = [world.places["storage"] EXCEPT ![e.item] = @ + n]]
           W == [world.wants EXCEPT ![e.at] = @ + (e.qty - n)]
           w == [world EXCEPT !.asks = A, !.places = P, !.wants = W]
<1>1. e.qty \in Nat /\ e.item \in Items
  BY DEF Entries
<1>2. n \in Nat /\ e.qty - n \in Nat
  <2>1. Depth(world.asks, 1..e.at) \in Nat
    BY WorldsAre, BooksAre
  <2>2. QED
    BY <1>1, <2>1 DEF Least
<1>3. A \in Books
  BY <1>1, WorldsAre, BooksAre
<1>4. P \in [Places -> [Items -> Nat]]
  <2> HIDE DEF n
  <2>1. QED
    BY <1>1, <1>2, WorldsAre
<1>5. W \in Books
  <2> HIDE DEF n
  <2>1. QED
    BY <1>2, WorldsAre DEF Books
<1>6. w \in Worlds /\ w.wrecks = world.wrecks
  <2> HIDE DEF A, P, W
  <2>1. QED
    BY <1>3, <1>4, <1>5 DEF Worlds
<1>7. GameBuys(e) = IF crossed # {} THEN Refusal([Ans("crossing") EXCEPT !.ids = crossed]) \cup Refusal(Ans("crossing"))
                    ELSE Effect(w, request.of, {e.at})
  <2>1. w = [world EXCEPT !.asks = A, !.places["storage"][e.item] = @ + n, !.wants[e.at] = @ + (e.qty - n)]
    <3> HIDE DEF A, n
    <3>1. QED
      BY WorldsAre
  <2> HIDE DEF w
  <2>2. QED
    BY <2>1 DEF GameBuys
<1> HIDE DEF w, crossed
<1>8. \A o \in Effect(w, request.of, {e.at}) : Outcome(o, s, {e.at})
  BY <1>6, Effected
<1>9. \A o \in Refusal([Ans("crossing") EXCEPT !.ids = crossed]) \cup Refusal(Ans("crossing")) : Outcome(o, s, {e.at})
  <2>1. crossed \in SUBSET Prices
    BY WorldsAre, BooksAre DEF crossed
  <2>2. PICK a, b : a = [Ans("crossing") EXCEPT !.ids = crossed] /\ b = Ans("crossing")
    OBVIOUS
  <2>3. /\ a.left \in Nat /\ a.ids \in SUBSET Prices /\ a.is # "ok"
        /\ b.left \in Nat /\ b.ids \in SUBSET Prices /\ b.is # "ok"
    BY <2>1, <2>2, AnswersAre
  <2>4. QED
    BY <2>2, <2>3, RefusalEnds
<1>10. QED
  BY <1>7, <1>8, <1>9

LEMMA SellsAre ==
  ASSUME world \in Worlds, NEW s, s = request.of, NEW e \in Entries, e.item = Traded, e.at \in Prices
  PROVE  \A o \in GameSells(e) : Outcome(o, s, {e.at})
<1> DEFINE n == Least(e.qty, Depth(world.bids, e.at..MaxPrice))
           k == Least(e.qty, world.places["cargo"][e.item])
           B == Fill(world.bids, HighFirst, e.at..MaxPrice, e.qty)
           M == [world.mine EXCEPT ![e.at] = @ + (e.qty - n)]
           C == [world.places EXCEPT !["cargo"] = [world.places["cargo"] EXCEPT ![e.item] = @ - k]]
           P == [C EXCEPT !["storage"] = [C["storage"] EXCEPT ![e.item] = @ - (e.qty - k)]]
           w == [world EXCEPT !.bids = B, !.mine = M, !.places = P]
<1>1. e.qty \in Nat /\ e.item \in Items
  BY DEF Entries
<1>2. world.places["cargo"][e.item] \in Nat /\ world.places["storage"][e.item] \in Nat
  BY <1>1, WorldsAre
<1>3. Sellable(world, e.item) \in Nat
  BY <1>2 DEF Sellable
<1>4. CASE Sellable(world, e.item) < e.qty
  <2>1. PICK a : a = [Ans("insufficient") EXCEPT !.left = Sellable(world, e.item)]
    OBVIOUS
  <2>2. GameSells(e) = Refusal(a)
    BY <1>4, <2>1 DEF GameSells
  <2>3. a.left \in Nat /\ a.ids \in SUBSET Prices /\ a.is # "ok"
    BY <1>3, <2>1, AnswersAre
  <2>4. QED
    BY <2>2, <2>3, RefusalEnds
<1>5. CASE ~(Sellable(world, e.item) < e.qty)
  <2>1. n \in Nat /\ e.qty - n \in Nat
    <3>1. Depth(world.bids, e.at..MaxPrice) \in Nat
      BY WorldsAre, BooksAre
    <3>2. QED
      BY <1>1, <3>1 DEF Least
  <2>2. /\ k \in Nat /\ world.places["cargo"][e.item] - k \in Nat
        /\ world.places["storage"][e.item] - (e.qty - k) \in Nat
    BY <1>1, <1>2, <1>5 DEF Least, Sellable
  <2>3. B \in Books
    BY <1>1, WorldsAre, BooksAre
  <2>4. M \in Books
    <3> HIDE DEF n
    <3>1. QED
      BY <2>1, WorldsAre DEF Books
  <2>5. C \in [Places -> [Items -> Nat]] /\ C["storage"] = world.places["storage"]
    <3> HIDE DEF k
    <3>1. QED
      BY <1>1, <2>2, WorldsAre
  <2>6. P \in [Places -> [Items -> Nat]]
    <3> HIDE DEF k, C
    <3>1. QED
      BY <1>1, <2>2, <2>5, WorldsAre
  <2>7. w \in Worlds /\ w.wrecks = world.wrecks
    <3> HIDE DEF B, M, P
    <3>1. QED
      BY <2>3, <2>4, <2>6 DEF Worlds
  <2>8. GameSells(e) = Effect(w, request.of, {e.at})
    <3>1. w = [world EXCEPT !.bids = B, !.mine[e.at] = @ + (e.qty - n),
                            !.places["cargo"][e.item] = @ - k, !.places["storage"][e.item] = @ - (e.qty - k)]
      <4> HIDE DEF B, n, k
      <4>1. QED
        BY WorldsAre
    <3> HIDE DEF w
    <3>2. QED
      BY <1>5, <3>1 DEF GameSells
  <2> HIDE DEF w
  <2>9. QED
    BY <2>7, <2>8, Effected
<1>6. QED
  BY <1>4, <1>5

LEMMA CancelsAre ==
  ASSUME world \in Worlds, NEW s, NEW e \in Entries, e.at \in Prices
  PROVE  /\ \A o \in GameCancelsSale(e) : Outcome(o, s, {}) /\ o.got = None
         /\ \A o \in GameCancelsBuy(e) : Outcome(o, s, {}) /\ o.got = None
<1> DEFINE M == [world.mine EXCEPT ![e.at] = 0]
           P == [world.places EXCEPT !["storage"] = [world.places["storage"] EXCEPT ![Traded] = @ + world.mine[e.at]]]
           w == [world EXCEPT !.mine = M, !.places = P]
           v == [world EXCEPT !.wants = [world.wants EXCEPT ![e.at] = 0]]
<1>1. M \in Books /\ world.mine[e.at] \in Nat /\ [world.wants EXCEPT ![e.at] = 0] \in Books
  BY WorldsAre DEF Books
<1>2. P \in [Places -> [Items -> Nat]]
  BY <1>1, WorldsAre, ItemFacts
<1>3. w \in Worlds /\ w.wrecks = world.wrecks /\ v \in Worlds /\ v.wrecks = world.wrecks
  <2> HIDE DEF M, P
  <2>1. QED
    BY <1>1, <1>2 DEF Worlds
<1>4. PICK a : a = Ans("error")
  OBVIOUS
<1>5. a.left \in Nat /\ a.ids \in SUBSET Prices /\ a.is # "ok"
  BY <1>4, AnswersAre
<1>6. [i \in Items |-> Amount(<<>>, i)] = None
  BY NothingAsked DEF None
<1>7. ASSUME NEW o, Outcome(o, <<>>, {}) PROVE Outcome(o, s, {}) /\ o.got = None
  BY <1>6, <1>7 DEF Outcome, Did
<1>8. \A o \in Refusal(a) : Outcome(o, <<>>, {})
  BY <1>5, RefusalEnds
<1>9. /\ w = [world EXCEPT !.mine[e.at] = 0, !.places["storage"][Traded] = @ + world.mine[e.at]]
      /\ v = [world EXCEPT !.wants[e.at] = 0]
  BY WorldsAre
<1> HIDE DEF w, v
<1>10. \A o \in Effect(w, <<>>, {}) \cup Effect(v, <<>>, {}) : Outcome(o, <<>>, {})
  BY <1>3, Effected
<1>11. /\ GameCancelsSale(e) = IF world.mine[e.at] = 0 THEN Refusal(a) ELSE Effect(w, <<>>, {})
       /\ GameCancelsBuy(e) = IF world.wants[e.at] = 0 THEN Refusal(a) ELSE Effect(v, <<>>, {})
  BY <1>4, <1>9 DEF GameCancelsSale, GameCancelsBuy
<1>12. QED
  BY <1>7, <1>8, <1>10, <1>11

LEMMA FitsIsRoom == \A w, s : Fits(w, s) <=> Free(w) >= Room(s)
BY DEF Fits, Room, Spaces, Total

\* More in the hold takes up so much of it.
LEMMA HoldFills ==
  ASSUME NEW v \in Worlds, NEW w \in Worlds, NEW i \in Items, NEW q \in Nat, q <= Fit(Free(v), i),
         w.places["cargo"] = [v.places["cargo"] EXCEPT ![i] = @ + q]
  PROVE  Free(w) = Free(v) - q * ItemSize[i]
<1> DEFINE p == q * ItemSize[i]
           c == v.places["cargo"]
<1>1. c \in [Items -> Nat] /\ ItemSize[i] \in Nat /\ ItemSize[i] >= 1 /\ Free(v) \in Nat
  BY WorldsAre, ItemFacts, UsedIsNumber
<1>2. p \in Nat /\ p <= Free(v)
  BY <1>1, Division DEF Fit
<1>3. \A j \in Items \ {i} : Loads(w)[j] = Loads(v)[j]
  BY <1>1 DEF Loads
<1>4. Loads(w)[i] = Loads(v)[i] + p
  <2>1. w.places["cargo"][i] = c[i] + q /\ c[i] \in Nat
    BY <1>1
  <2>2. \A a, b, x \in Nat : (a + b) * x = a * x + b * x
    OBVIOUS
  <2>3. (c[i] + q) * ItemSize[i] = c[i] * ItemSize[i] + q * ItemSize[i]
    BY <1>1, <2>1, <2>2
  <2>4. QED
    BY <2>1, <2>3, UsedIsNumber
<1>5. \A j \in Items : Loads(v)[j] \in Int /\ Loads(w)[j] \in Int
  BY UsedIsNumber
<1>6. SumFunctionOnSet(Loads(w), Items) = SumFunctionOnSet(Loads(v), Items) - Loads(v)[i] + Loads(w)[i]
  BY <1>3, <1>5, ItemFacts, SumChangesAt
<1>7. Used(w) = Used(v) - Loads(v)[i] + Loads(w)[i] /\ Used(v) \in Nat /\ Used(w) \in Nat
  BY <1>6, UsedIsNumber
<1>8. Loads(v)[i] \in Int
  BY <1>5
<1> HIDE DEF p, c
<1>9. Used(w) = Used(v) + p
  BY <1>2, <1>4, <1>7, <1>8
<1>10. Free(w) = Free(v) - p
  <2>1. Capacity \in Nat
    BY GoodsAssumption
  <2>2. QED
    BY <1>2, <1>7, <1>9, <2>1 DEF Free
<1>11. QED
  BY <1>10 DEF p

LEMMA LootsAre ==
  ASSUME world \in Worlds, NEW s, s = request.of, NEW e \in Entries, e.at \in DOMAIN world.wrecks
  PROVE  \A o \in GameLoots(e) :
           /\ Outcome(o, s, {})
           /\ o.ans.is = "ok" =>
                /\ Free(o.w) = Free(world) - e.qty * ItemSize[e.item]
                /\ DOMAIN o.w.wrecks = DOMAIN world.wrecks
                /\ \A k \in DOMAIN world.wrecks : \A i \in Items :
                     k # e.at \/ i # e.item => o.w.wrecks[k][i] = world.wrecks[k][i]
<1> DEFINE K == [world.wrecks EXCEPT ![e.at] = [world.wrecks[e.at] EXCEPT ![e.item] = @ - e.qty]]
           P == [world.places EXCEPT !["cargo"] = [world.places["cargo"] EXCEPT ![e.item] = @ + e.qty]]
           w == [world EXCEPT !.wrecks = K, !.places = P]
<1>1. e.qty \in Nat /\ e.item \in Items /\ world.wrecks[e.at] \in [Items -> Nat]
  BY WorldsAre DEF Entries
<1>2. ASSUME NEW a, a \in {Ans("missing"), Ans("full")}
      PROVE  \A o \in Refusal(a) : Outcome(o, s, {}) /\ o.ans.is # "ok"
  <2>1. a.left \in Nat /\ a.ids \in SUBSET Prices /\ a.is # "ok"
    BY <1>2, AnswersAre
  <2>2. QED
    BY <2>1, RefusalEnds
<1>3. CASE world.wrecks[e.at][e.item] < e.qty
  BY <1>2, <1>3 DEF GameLoots
<1>4. CASE ~(world.wrecks[e.at][e.item] < e.qty) /\ Fit(Free(world), e.item) < e.qty
  BY <1>2, <1>4 DEF GameLoots
<1>5. CASE ~(world.wrecks[e.at][e.item] < e.qty) /\ ~(Fit(Free(world), e.item) < e.qty)
  <2>1. world.wrecks[e.at][e.item] - e.qty \in Nat
    BY <1>1, <1>5
  <2>2. [world.wrecks[e.at] EXCEPT ![e.item] = @ - e.qty] \in [Items -> Nat]
    BY <1>1, <2>1
  <2>3. K \in Seq([Items -> Nat]) /\ Len(K) = Len(world.wrecks) /\ DOMAIN K = DOMAIN world.wrecks
    <3>1. PICK f \in [Items -> Nat] : f = [world.wrecks[e.at] EXCEPT ![e.item] = @ - e.qty]
      BY <2>2
    <3>2. PICK x \in Seq([Items -> Nat]) : x = world.wrecks
      BY WorldsAre
    <3>3. K = [x EXCEPT ![e.at] = f] /\ e.at \in DOMAIN x
      BY <3>1, <3>2
    <3> HIDE DEF K
    <3>4. QED
      BY <3>2, <3>3
  <2>4. P \in [Places -> [Items -> Nat]] /\ P["cargo"] = [world.places["cargo"] EXCEPT ![e.item] = @ + e.qty]
    <3>1. PICK f : f = [world.places["cargo"] EXCEPT ![e.item] = @ + e.qty]
      OBVIOUS
    <3>2. world.places \in [Places -> [Items -> Nat]] /\ world.places["cargo"] \in [Items -> Nat]
      BY WorldsAre
    <3>3. "cargo" \in Places
      BY DEF Places
    <3>4. f \in [Items -> Nat]
      BY <1>1, <3>1, <3>2
    <3>5. P = [world.places EXCEPT !["cargo"] = f]
      BY <3>1
    <3> HIDE DEF P
    <3>6. QED
      BY <3>1, <3>2, <3>3, <3>4, <3>5
  <2>5. w \in Worlds /\ w.wrecks = K /\ w.places = P
    <3> HIDE DEF K, P
    <3>1. QED
      BY <2>3, <2>4 DEF Worlds
  <2>6. \A k \in DOMAIN world.wrecks : \A i \in Items :
          k # e.at \/ i # e.item => K[k][i] = world.wrecks[k][i]
    BY <1>1
  <2>7. GameLoots(e) = Effect(w, s, {})
    <3>1. w = [world EXCEPT !.wrecks[e.at][e.item] = @ - e.qty, !.places["cargo"][e.item] = @ + e.qty]
      BY WorldsAre
    <3> HIDE DEF w
    <3>2. QED
      BY <1>5, <3>1 DEF GameLoots
  <2>8. Free(w) = Free(world) - e.qty * ItemSize[e.item]
    <3>1. Fit(Free(world), e.item) \in Nat
      BY <1>1, ItemFacts, UsedIsNumber, Division DEF Fit
    <3>2. e.qty <= Fit(Free(world), e.item)
      BY <1>1, <1>5, <3>1
    <3> HIDE DEF w, K, P
    <3>3. w.places["cargo"] = [world.places["cargo"] EXCEPT ![e.item] = @ + e.qty]
      BY <2>4, <2>5
    <3>4. QED
      BY <1>1, <2>5, <3>2, <3>3, HoldFills
  <2> HIDE DEF w, K, P
  <2>9. \A o \in Effect(w, s, {}) : Outcome(o, s, {}) /\ o.w = w
    <3>1. \A o \in Effect(w, s, {}) : Outcome(o, s, {})
      BY <2>3, <2>5, Effected
    <3>2. QED
      BY <3>1 DEF Effect
  <2>10. QED
    BY <2>3, <2>5, <2>6, <2>7, <2>8, <2>9
<1>6. QED
  BY <1>3, <1>4, <1>5

LEMMA JettisonsAre ==
  ASSUME world \in Worlds, NEW s \in Seq(Entries), s = request.of, s # <<>>, NEW e, e = Head(s)
  PROVE  \A o \in GameJettisons(e) :
           /\ Outcome(o, s, {})
           /\ o.ans.is = "ok" =>
                \A i \in Items : o.w.places["cargo"][i] = world.places["cargo"][i] - (IF e.item = i THEN e.qty ELSE 0)
<1> DEFINE P == [world.places EXCEPT !["cargo"] = [world.places["cargo"] EXCEPT ![e.item] = @ - e.qty]]
           w == [world EXCEPT !.places = P]
<1>1. e \in Entries /\ e.qty \in Nat /\ e.item \in Items
  BY FirstAndRest DEF Entries
<1>2. CASE ~Holds(world, "cargo", s)
  <2>1. PICK a : a = Ans("error")
    OBVIOUS
  <2>2. a.left \in Nat /\ a.ids \in SUBSET Prices /\ a.is # "ok"
    BY <2>1, AnswersAre
  <2>3. GameJettisons(e) = Refusal(a)
    BY <1>2, <2>1 DEF GameJettisons
  <2>4. QED
    BY <2>2, <2>3, RefusalEnds
<1>3. CASE Holds(world, "cargo", s)
  <2>1. world.places["cargo"][e.item] >= Amount(s, e.item) /\ world.places["cargo"] \in [Items -> Nat]
    BY <1>1, <1>3, WorldsAre DEF Holds
  <2>2. Amount(s, e.item) = e.qty + Amount(Tail(s), e.item) /\ Amount(Tail(s), e.item) \in Nat
    BY FirstAndRest, TermsAreNumbers
  <2>3. world.places["cargo"][e.item] - e.qty \in Nat
    BY <1>1, <2>1, <2>2
  <2>4. P \in [Places -> [Items -> Nat]]
    BY <1>1, <2>3, WorldsAre
  <2>5. \A i \in Items : P["cargo"][i] = world.places["cargo"][i] - (IF e.item = i THEN e.qty ELSE 0)
    BY <1>1, <2>1, WorldsAre
  <2>6. w \in Worlds /\ w.wrecks = world.wrecks /\ w.places = P
    <3> HIDE DEF P
    <3>1. QED
      BY <2>4 DEF Worlds
  <2>7. GameJettisons(e) = Effect(w, s, {})
    <3>1. w = [world EXCEPT !.places["cargo"][e.item] = @ - e.qty]
      BY WorldsAre
    <3> HIDE DEF w
    <3>2. QED
      BY <1>3, <3>1 DEF GameJettisons
  <2> HIDE DEF w, P
  <2>8. \A o \in Effect(w, s, {}) : Outcome(o, s, {}) /\ o.w = w
    <3>1. \A o \in Effect(w, s, {}) : Outcome(o, s, {})
      BY <2>6, Effected
    <3>2. ASSUME NEW o \in Effect(w, s, {}) PROVE o.w = w
      BY DEF Effect
    <3>3. QED
      BY <3>1, <3>2
  <2>9. QED
    BY <2>5, <2>6, <2>7, <2>8
<1>4. QED
  BY <1>2, <1>3

LEMMA MovesAre ==
  ASSUME world \in Worlds, NEW s \in Seq(Entries), s = request.of, NEW from \in Places, NEW to \in Places
  PROVE  \A o \in GameMoves(from, to) : Outcome(o, s, {})
<1> DEFINE F == [i \in Items |-> world.places[from][i] - Amount(s, i)]
           A == [world.places EXCEPT ![from] = F]
           T == [i \in Items |-> A[to][i] + Amount(s, i)]
           P == [A EXCEPT ![to] = T]
           w == [world EXCEPT !.places = P]
<1>1. ASSUME NEW a, a \in {Ans("error"), Ans("full")} PROVE \A o \in Refusal(a) : Outcome(o, s, {})
  <2>1. a.left \in Nat /\ a.ids \in SUBSET Prices /\ a.is # "ok"
    BY <1>1, AnswersAre
  <2>2. QED
    BY <2>1, RefusalEnds
<1>2. CASE ~Holds(world, from, s) \/ (to = "cargo" /\ ~Fits(world, s))
  BY <1>1, <1>2 DEF GameMoves
<1>3. CASE Holds(world, from, s) /\ ~(to = "cargo" /\ ~Fits(world, s))
  <2>1. \A i \in Items : Amount(s, i) \in Nat
    BY TermsAreNumbers
  <2>2. F \in [Items -> Nat]
    <3>1. ASSUME NEW i \in Items PROVE world.places[from][i] - Amount(s, i) \in Nat
      <4>1. world.places[from][i] >= Amount(s, i) /\ world.places[from][i] \in Nat
        BY <1>3, WorldsAre DEF Holds
      <4>2. QED
        BY <2>1, <4>1
    <3>2. QED
      BY <3>1
  <2>3. A \in [Places -> [Items -> Nat]]
    <3> HIDE DEF F
    <3>1. QED
      BY <2>2, WorldsAre
  <2>4. T \in [Items -> Nat]
    <3> HIDE DEF A
    <3>1. \A i \in Items : A[to][i] \in Nat
      BY <2>3
    <3>2. QED
      BY <2>1, <3>1
  <2>5. P \in [Places -> [Items -> Nat]]
    <3> HIDE DEF A, T
    <3>1. QED
      BY <2>3, <2>4
  <2>6. w \in Worlds /\ w.wrecks = world.wrecks
    <3> HIDE DEF P
    <3>1. QED
      BY <2>5 DEF Worlds
  <2>7. w = Moves(world, from, to, s)
    <3> DEFINE v == [world EXCEPT !.places = A]
    <3>1. v = [world EXCEPT !.places[from] = [i \in Items |-> @[i] - Amount(s, i)]]
      BY WorldsAre
    <3>2. v.places = A /\ w = [v EXCEPT !.places = P]
      <4> HIDE DEF A, P
      <4>1. QED
        BY WorldsAre DEF Worlds
    <3> HIDE DEF v
    <3>3. Moves(world, from, to, s) = [v EXCEPT !.places[to] = [i \in Items |-> @[i] + Amount(s, i)]]
      BY <3>1 DEF Moves
    <3>4. [v EXCEPT !.places[to] = [i \in Items |-> @[i] + Amount(s, i)]] = [v EXCEPT !.places = P]
      <4> HIDE DEF A
      <4>1. QED
        BY <3>2
    <3>5. QED
      BY <3>2, <3>3, <3>4
  <2>8. GameMoves(from, to) = Effect(w, s, {})
    <3> HIDE DEF w
    <3>1. QED
      BY <1>3, <2>7 DEF GameMoves
  <2> HIDE DEF w
  <2>9. QED
    BY <2>6, <2>8, Effected
<1>4. QED
  BY <1>2, <1>3

-----------------------------------------------------------------------------
(* What a command has moved by the time a call is answered. *)

LEMMA JobsAre ==
  ASSUME NEW t \in GoodsJobs
  PROVE  /\ t.qty \in Nat /\ t # NoErrand /\ t.do \in {"buy", "sell", "cancel_buy", "cancel_sell", "transfer"}
         /\ t.do # "transfer" => t.item = Traded /\ t.at \in Prices \cup {0} /\ t.from = "none" /\ t.to = "none"
         /\ t.do = "transfer" => /\ t.at \in Nat
                                 /\ t.from \in Places \cup {"space"} /\ t.to \in Places \cup {"space"}
                                 /\ t.item \in Items \cup {"all"} /\ (t.item = "all" => t.qty = 0)
                                 /\ (t.from = "space" => t.to = "cargo") /\ (t.to = "space" => t.from = "cargo")
<1>1. t \in Trades \/ t \in Transfers
  BY GoodsAssumption
<1>2. CASE t \in Trades
  BY <1>2 DEF Trades, NoErrand
<1>3. CASE t \in Transfers
  BY <1>3 DEF Transfers, NoErrand
<1>4. QED
  BY <1>1, <1>2, <1>3

LEMMA NothingMoved == None \in [Items -> Nat] /\ Total(None, Items) = 0
<1>1. None \in [Items -> Nat] /\ \A i \in Items : None[i] = 0
  BY DEF None
<1>2. QED
  BY <1>1, ItemFacts, SumOfNothing DEF Total

LEMMA Gained ==
  ASSUME got \in [Items -> Nat], NEW s \in Seq(Entries), NEW ps, NEW o, Did(o, s, ps),
         got' = [i \in Items |-> got[i] + o.got[i]]
  PROVE  /\ got' \in [Items -> Nat] /\ Total(got', Items) \in Nat /\ Total(got, Items) \in Nat /\ Quantity(s) \in Nat
         /\ o.got = None => got' = got /\ Total(got', Items) = Total(got, Items)
         /\ \/ got' = got /\ Total(got', Items) = Total(got, Items)
            \/ Total(got', Items) = Total(got, Items) + Quantity(s)
<1> DEFINE A == [i \in Items |-> Amount(s, i)]
<1>1. o.got = None \/ o.got = A
  BY DEF Did
<1>2. A \in [Items -> Nat]
  BY TermsAreNumbers
<1>3. got' \in [Items -> Nat]
  <2> HIDE DEF A
  <2>1. o.got \in [Items -> Nat]
    BY <1>1, <1>2, NothingMoved
  <2>2. QED
    BY <2>1
<1>4. Total(got', Items) \in Nat /\ Total(got, Items) \in Nat /\ Quantity(s) \in Nat
  BY <1>3, ItemFacts, SumOfNaturals, TermsAreNumbers DEF Total
<1>5. ASSUME o.got = None PROVE got' = got
  <2>1. \A i \in Items : got'[i] = got[i]
    BY <1>3, <1>5 DEF None
  <2>2. QED
    BY <1>3, <2>1
<1>6. CASE o.got = A
  <2>1. \A i \in Items : got[i] \in Int /\ A[i] \in Int /\ got'[i] = got[i] + A[i]
    BY <1>2, <1>6
  <2>2. SumFunctionOnSet(got', Items) = SumFunctionOnSet(got, Items) + SumFunctionOnSet(A, Items)
    <3> HIDE DEF A
    <3>1. QED
      BY <2>1, ItemFacts, SumOfSums
  <2>3. SumFunctionOnSet(A, Items) = Quantity(s)
    BY AmountsAddUp
  <2>4. Total(got', Items) = Total(got, Items) + Quantity(s)
    BY <2>2, <2>3 DEF Total
  <2>5. QED
    BY <1>3, <1>4, <1>5, <2>4
<1>7. QED
  BY <1>1, <1>3, <1>4, <1>5, <1>6

\* The prices a call may trade at.
Quote == IF request.act \in {"buy", "sell"} THEN {First.at} ELSE {}

\* A call that is waited for is a proper one.
LEMMA OutcomesAre ==
  ASSUME GoodsInv, Calling
  PROVE  \A o \in Outcomes :
           Outcome(o, request.of, Quote) /\ (request.act \in {"cancel_buy", "cancel_sell"} => o.got = None)
<1> DEFINE s == request.of
           Proper == \A o \in Outcomes :
             Outcome(o, s, Quote) /\ (request.act \in {"cancel_buy", "cancel_sell"} => o.got = None)
<1>1. world \in Worlds /\ s \in Seq(Entries) /\ phase.todo \in Seq(Entries) /\ phase.buy \in Entries
  BY DEF GoodsInv, GoodsTypeOK
<1>2. ASSUME NEW e, s = <<e>> PROVE First = e
  BY <1>2 DEF First
<1>3. errand = told /\ told \in GoodsJobs
  BY DEF GoodsInv, GoodsTypeOK, OnItsWay, Calling, Quiet
<1>4. CASE Buying
  <2>1. request.act = "buy" /\ s = <<phase.buy>> /\ phase.buy.item = Traded /\ phase.buy.at \in Prices
    BY <1>4 DEF Buying, Bid
  <2>2. First = phase.buy /\ Outcomes = GameBuys(First) /\ Quote = {First.at}
    BY <1>2, <2>1 DEF Outcomes, Quote
  <2>3. QED
    BY <1>1, <2>1, <2>2, BuysAre
<1>5. CASE Selling
  <2>1. /\ request.act = "sell" /\ s = phase.todo /\ phase.todo[1].item = Traded /\ phase.todo[1].at \in Prices
        /\ Len(phase.todo) = 1
    BY <1>5 DEF Selling, Offer
  <2>2. First = phase.todo[1] /\ First \in Entries
    BY <1>1, <2>1 DEF First
  <2>3. Outcomes = GameSells(First) /\ Quote = {First.at}
    BY <2>1 DEF Outcomes, Quote
  <2>4. QED
    BY <1>1, <2>1, <2>2, <2>3, SellsAre
<1>6. CASE Cancelling \/ Unordering
  <2>1. /\ request.act \in {"cancel_buy", "cancel_sell"} /\ phase.todo # <<>> /\ s = <<Head(phase.todo)>>
        /\ \A n \in DOMAIN phase.todo : phase.todo[n].at \in Prices
    BY <1>6 DEF Cancelling, Unordering, OrdersOf, FirstOf
  <2>2. First = Head(phase.todo) /\ First \in Entries /\ First.at \in Prices
    BY <1>1, <1>2, <2>1
  <2>3. Outcomes \in {GameCancelsSale(First), GameCancelsBuy(First)} /\ Quote = {}
    BY <2>1 DEF Outcomes, Quote
  <2>4. QED
    BY <1>1, <2>2, <2>3, CancelsAre
<1>7. CASE Withdrawing
  <2>1. request.act = "withdraw"
    BY <1>7 DEF Withdrawing
  <2>2. Outcomes = GameMoves("storage", "cargo") /\ Quote = {}
    BY <2>1 DEF Outcomes, Quote
  <2>3. \A o \in Outcomes : Outcome(o, s, Quote)
    BY <1>1, <2>2, MovesAre, WorldsAre
  <2>4. QED
    BY <2>1, <2>3
<1>8. CASE Looting
  <2>1. /\ request.act = "loot" /\ phase.todo # <<>> /\ s = <<Head(phase.todo)>>
        /\ \A n \in DOMAIN phase.todo : phase.todo[n].at \in DOMAIN world.wrecks
    BY <1>8 DEF Looting, FirstOf
  <2>2. First = Head(phase.todo) /\ First \in Entries /\ First.at \in DOMAIN world.wrecks
    BY <1>1, <1>2, <2>1
  <2>3. Outcomes = GameLoots(First) /\ Quote = {}
    BY <2>1 DEF Outcomes, Quote
  <2>4. \A o \in Outcomes : Outcome(o, s, Quote)
    BY <1>1, <2>2, <2>3, LootsAre
  <2>5. QED
    BY <2>1, <2>4
<1>9. CASE Jettisoning
  <2>1. request.act = "jettison" /\ s = <<Head(phase.todo)>>
    BY <1>9 DEF Jettisoning, FirstOf
  <2>2. s # <<>> /\ First = Head(s)
    BY <2>1 DEF First
  <2>3. Outcomes = GameJettisons(First) /\ Quote = {}
    BY <2>1 DEF Outcomes, Quote
  <2>4. \A o \in Outcomes : Outcome(o, s, Quote)
    BY <1>1, <2>2, <2>3, JettisonsAre
  <2>5. QED
    BY <2>1, <2>4
<1>10. CASE Storing
  <2>1. request.act = "move" /\ errand.from \in Places /\ errand.to \in Places
    BY <1>3, <1>10 DEF Storing
  <2>2. Outcomes = GameMoves(errand.from, errand.to) /\ Quote = {}
    BY <2>1 DEF Outcomes, Quote
  <2>3. \A o \in Outcomes : Outcome(o, s, Quote)
    BY <1>1, <2>1, <2>2, MovesAre
  <2>4. QED
    BY <2>1, <2>3
<1>11. ~Waiting /\ ~Refreshing
  BY DEF Waiting, Refreshing, Calling
<1>12. errand # NoErrand
  BY <1>3, JobsAre
<1>13. QED
  BY <1>4, <1>5, <1>6, <1>7, <1>8, <1>9, <1>10, <1>11, <1>12 DEF GoodsInv, OnItsWay

\* Whatever a call did, the command keeps to what it was told.
LEMMA CallsKeepToTheOrder ==
  ASSUME GoodsInv, Calling, NEW o, Did(o, request.of, Quote),
         request.act \in {"cancel_buy", "cancel_sell"} => o.got = None,
         got' = [i \in Items |-> got[i] + o.got[i]], terms' = terms \cup o.at, UNCHANGED told
  PROVE  KeepsToTheOrder' /\ got' \in [Items -> Nat] /\ terms' \subseteq Prices
<1> DEFINE s == request.of
<1>1. s \in Seq(Entries) /\ got \in [Items -> Nat] /\ phase.todo \in Seq(Entries) /\ phase.buy \in Entries /\ terms \subseteq Prices
  BY DEF GoodsInv, GoodsTypeOK
<1>2. /\ got' \in [Items -> Nat] /\ Total(got', Items) \in Nat /\ Total(got, Items) \in Nat /\ Quantity(s) \in Nat
      /\ o.got = None => Total(got', Items) = Total(got, Items)
      /\ \/ Total(got', Items) = Total(got, Items)
         \/ Total(got', Items) = Total(got, Items) + Quantity(s)
  BY <1>1, Gained
<1>3. told \in GoodsJobs /\ told # NoErrand /\ ~Waiting /\ ~Refreshing /\ told.qty \in Nat
  <2>1. told \in GoodsJobs /\ told # NoErrand
    BY DEF GoodsInv, GoodsTypeOK, OnItsWay, Calling, Quiet
  <2>2. QED
    BY <2>1, JobsAre DEF Waiting, Refreshing, Calling
<1>4. o.at \subseteq Quote
  BY DEF Did
<1>5. ASSUME told.qty > 0, told.from # "space" PROVE Total(got', Items) <= told.qty
  <2>1. CASE request.act \in {"cancel_buy", "cancel_sell"}
    <3>1. Total(got, Items) <= told.qty
      BY <1>3, <1>5 DEF GoodsInv, KeepsToTheOrder
    <3>2. QED
      BY <1>2, <2>1, <3>1
  <2>2. CASE request.act \notin {"cancel_buy", "cancel_sell"}
    <3>1. \E n \in Nat : Quantity(s) <= n /\ Within(n)
      <4>1. CASE Buying
        <5>1. s = <<phase.buy>> /\ Within(phase.buy.qty)
          BY <4>1 DEF Buying
        <5>2. Quantity(s) = phase.buy.qty
          BY <1>1, <5>1, SingleAsks
        <5>3. QED
          BY <1>2, <5>1, <5>2
      <4>2. CASE Selling
        <5>1. s = phase.todo /\ Len(phase.todo) = 1 /\ Within(phase.todo[1].qty)
          BY <4>2 DEF Selling
        <5>2. phase.todo = <<phase.todo[1]>> /\ phase.todo[1] \in Entries
          BY <1>1, <5>1
        <5>3. Quantity(s) = phase.todo[1].qty
          BY <5>1, <5>2, SingleAsks
        <5>4. QED
          BY <1>2, <5>1, <5>3
      <4>3. CASE Withdrawing
        <5>1. Within(Quantity(s) + phase.buy.qty) /\ phase.buy.qty \in Nat
          BY <1>1, <4>3 DEF Withdrawing, Entries
        <5>2. Quantity(s) <= Quantity(s) + phase.buy.qty /\ Quantity(s) + phase.buy.qty \in Nat
          BY <1>2, <5>1
        <5>3. QED
          BY <5>1, <5>2
      <4>4. CASE Jettisoning
        <5>1. s = <<Head(phase.todo)>> /\ phase.todo # <<>> /\ Within(Quantity(phase.todo))
          BY <4>4 DEF Jettisoning, FirstOf
        <5>2. Quantity(phase.todo) = Head(phase.todo).qty + Quantity(Tail(phase.todo))
              /\ Head(phase.todo) \in Entries /\ Tail(phase.todo) \in Seq(Entries)
          BY <1>1, <5>1, FirstAndRest
        <5>3. Quantity(s) = Head(phase.todo).qty
          BY <5>1, <5>2, SingleAsks
        <5>4. Quantity(phase.todo) \in Nat /\ Quantity(Tail(phase.todo)) \in Nat
          BY <1>1, <5>2, TermsAreNumbers
        <5>5. QED
          BY <1>2, <5>1, <5>2, <5>3, <5>4
      <4>5. CASE Storing
        <5>1. s = phase.todo /\ Within(Quantity(phase.todo))
          BY <4>5 DEF Storing
        <5>2. QED
          BY <1>2, <5>1
      <4>6. ~Looting /\ ~Cancelling /\ ~Unordering
        BY <1>5, <2>2 DEF Looting, Cancelling, Unordering
      <4>7. errand # NoErrand
        BY DEF GoodsInv, OnItsWay, Calling, Quiet
      <4>8. QED
        BY <1>3, <4>1, <4>2, <4>3, <4>4, <4>5, <4>6, <4>7 DEF GoodsInv, OnItsWay
    <3>2. QED
      BY <1>2, <1>3, <1>5, <3>1 DEF Within
  <2>3. QED
    BY <2>1, <2>2
<1>6. ASSUME NEW p \in o.at
      PROVE  /\ p \in Prices /\ (told.do = "buy" /\ told.at > 0 => p <= told.at) /\ (told.do = "sell" => p >= told.at)
  <2>1. request.act \in {"buy", "sell"} /\ p = First.at
    BY <1>4 DEF Quote
  <2>2. Buying \/ Selling
    BY <1>3, <2>1 DEF GoodsInv, OnItsWay, Quiet, Cancelling, Withdrawing, Unordering, Looting, Jettisoning, Storing
  <2>3. CASE Buying
    <3>1. request.of = <<phase.buy>> /\ Bid(phase.buy) /\ told.do = "buy"
      BY <2>3 DEF Buying
    <3>2. p = phase.buy.at
      BY <2>1, <3>1 DEF First
    <3>3. QED
      BY <3>1, <3>2 DEF Bid
  <2>4. CASE Selling
    <3>1. request.of = phase.todo /\ Len(phase.todo) = 1 /\ Offer(phase.todo[1]) /\ told.do = "sell"
      BY <2>4 DEF Selling
    <3>2. p = phase.todo[1].at
      BY <1>1, <2>1, <3>1 DEF First
    <3>3. told.at \in Nat
      BY <1>3, <3>1, JobsAre DEF Prices
    <3>4. QED
      BY <3>1, <3>2, <3>3 DEF Offer, Prices
  <2>5. QED
    BY <2>2, <2>3, <2>4
<1>7. KeepsToTheOrder'
  <2>1. /\ told.do = "buy" /\ told.at > 0 => \A p \in terms : p <= told.at
        /\ told.do = "sell" => \A p \in terms : p >= told.at
    BY <1>3 DEF GoodsInv, KeepsToTheOrder
  <2>2. \A p \in terms' : p \in terms \/ p \in o.at
    OBVIOUS
  <2>3. QED
    BY <1>5, <1>6, <2>1, <2>2 DEF KeepsToTheOrder
<1>8. QED
  BY <1>1, <1>2, <1>6, <1>7

-----------------------------------------------------------------------------
(* Plans that are followed. *)

Phases == [name : PhaseNames, todo : Seq(Entries), buy : Entries]
OnACall == Buying \/ Cancelling \/ Refreshing \/ Withdrawing \/ Selling \/ Unordering \/ Looting \/ Jettisoning \/ Storing

\* A step after which the rest of the state is as it should be.
Kept ==
  /\ world' \in Worlds /\ sight' \in Worlds /\ Len(sight'.wrecks) = Len(world'.wrecks)
  /\ told' \in GoodsJobs \cup {NoErrand} /\ got' \in [Items -> Nat] /\ terms' \subseteq Prices
  /\ errands' \in Nat /\ meddling' \in Nat /\ KeepsToTheOrder'

LEMMA StartIsPhase == Start \in Phases /\ Start.name = "start" /\ Start.todo = <<>> /\ Start.buy \in Entries
<1>1. Entry(Traded, 0, 0) \in Entries
  BY ItemFacts DEF Entry, Entries
<1>2. QED
  BY <1>1 DEF Start, Phases, PhaseNames

LEMMA ThensAre ==
  /\ \A name, todo : Then(name, todo).name = name /\ Then(name, todo).todo = todo
  /\ \A name \in PhaseNames : \A todo \in Seq(Entries) : Then(name, todo) \in Phases
  /\ \A name, b : LET ph == [Start EXCEPT !.name = name, !.buy = b]
                  IN /\ ph.name = name /\ ph.buy = b
                     /\ name \in PhaseNames /\ b \in Entries => ph \in Phases
BY StartIsPhase DEF Then, Start, Phases

LEMMA Ended ==
  ASSUME Kept, NEW how \in {"done", "failed"}, Follows(Halts(how))
  PROVE  GoodsInv'
<1>1. errand' = NoErrand /\ request' = Quiet /\ phase' = Start
  BY DEF Follows, Halts, Sends
<1>2. phase' \in Phases /\ request' \in [act : Calls \cup {"none", "look", "plan", "refresh"}, of : Seq(Entries)]
  BY <1>1, StartIsPhase DEF Quiet
<1>3. request'.act # "plan"
  BY <1>1 DEF Quiet
<1>4. QED
  BY <1>1, <1>2, <1>3 DEF Kept, GoodsInv, GoodsTypeOK, OnItsWay, Phases

LEMMA SentOn ==
  ASSUME Kept, NEW act \in Calls \cup {"refresh"}, NEW of \in Seq(Entries), NEW ph \in Phases,
         Follows(Sends(act, of, ph)), errand \in GoodsJobs, errand = told',
         request' = [act |-> act, of |-> of] /\ phase' = ph => OnACall'
  PROVE  GoodsInv'
<1>1. errand' = errand /\ request' = [act |-> act, of |-> of] /\ phase' = ph
  BY DEF Follows, Sends, Calls
<1>2. told' # NoErrand
  BY JobsAre
<1>3. request'.act # "plan" /\ request' \in [act : Calls \cup {"none", "look", "plan", "refresh"}, of : Seq(Entries)]
  BY <1>1 DEF Calls
<1>4. OnItsWay'
  BY <1>1, <1>2 DEF OnItsWay, OnACall
<1>5. QED
  BY <1>1, <1>3, <1>4 DEF Kept, GoodsInv, GoodsTypeOK, Phases

LEMMA Retried ==
  ASSUME Kept, Follows(Halts("again")), errand \in GoodsJobs, errand = told', told'.from = "space"
  PROVE  GoodsInv'
<1>1. errand' = errand /\ request' = [act |-> "look", of |-> <<>>] /\ phase' = Start
  BY DEF Follows, Halts, Sends
<1>2. told' # NoErrand
  BY JobsAre
<1>3. request'.act # "plan" /\ request' \in [act : Calls \cup {"none", "look", "plan", "refresh"}, of : Seq(Entries)]
  BY <1>1
<1>4. phase' \in Phases
  BY <1>1, StartIsPhase
<1>5. OnItsWay'
  BY <1>1, <1>2 DEF OnItsWay, Waiting
<1>6. QED
  BY <1>1, <1>3, <1>4, <1>5 DEF Kept, GoodsInv, GoodsTypeOK, Phases

LEMMA ListsAre ==
  ASSUME NEW ids \in SUBSET Prices, ids # {}, NEW todo \in Listed(ids)
  PROVE  todo \in Seq(Entries) /\ todo # <<>> /\ \A n \in DOMAIN todo : todo[n].at \in Prices
<1>1. IsFiniteSet(ids)
  <2>1. IsFiniteSet(Prices)
    BY GoodsAssumption, FS_Interval DEF Prices
  <2>2. QED
    BY <2>1, FS_Subset
<1>2. Cardinality(ids) \in Nat /\ Cardinality(ids) # 0
  BY <1>1, FS_CardinalityType, FS_EmptySet
<1>3. PICK s \in SetToSeqs(ids) : todo = [n \in DOMAIN s |-> Entry(Traded, 0, s[n])]
  BY DEF Listed
<1>4. PICK c : c = Cardinality(ids)
  OBVIOUS
<1>5. s \in [1..c -> ids]
  BY <1>4 DEF SetToSeqs
<1>6. DOMAIN todo = 1..c /\ \A n \in 1..c : todo[n] = Entry(Traded, 0, s[n]) /\ s[n] \in Prices
  BY <1>3, <1>5
<1>7. \A n \in 1..c : todo[n] \in Entries /\ todo[n].at \in Prices
  BY <1>6, ItemFacts DEF Entry, Entries, Prices
<1>8. todo \in [1..c -> Entries]
  <2>1. todo = [n \in 1..c |-> todo[n]]
    BY <1>3, <1>5
  <2>2. QED
    BY <1>7, <2>1
<1>9. c \in Nat /\ c # 0 /\ 1 \in 1..c
  BY <1>2, <1>4
<1>10. QED
  BY <1>6, <1>7, <1>8, <1>9

\* The rest of a list that has more than one entry.
LEMMA RestOf ==
  ASSUME NEW s \in Seq(Entries), Len(s) > 1
  PROVE  /\ Tail(s) \in Seq(Entries) /\ Tail(s) # <<>> /\ s # <<>>
         /\ \A n \in DOMAIN Tail(s) : n + 1 \in DOMAIN s /\ Tail(s)[n] = s[n + 1]
<1>1. Tail(s) \in Seq(Entries) /\ Len(Tail(s)) = Len(s) - 1 /\ Len(s) \in Nat
  OBVIOUS
<1>2. DOMAIN Tail(s) = 1..(Len(s) - 1) /\ DOMAIN s = 1..Len(s)
  OBVIOUS
<1>3. ASSUME NEW n \in 1..(Len(s) - 1) PROVE n + 1 \in 1..Len(s) /\ Tail(s)[n] = s[n + 1]
  OBVIOUS
<1>4. Tail(s) # <<>> /\ s # <<>>
  <2>1. PICK t : t = Tail(s)
    OBVIOUS
  <2>2. Len(t) > 0 /\ Len(s) > 0
    BY <1>1, <2>1
  <2>3. t # <<>> /\ s # <<>>
    BY <2>2
  <2>4. QED
    BY <2>1, <2>3
<1>5. QED
  BY <1>1, <1>2, <1>3, <1>4

-----------------------------------------------------------------------------
(* Steps that are no answers. *)

LEMMA GiveKeeps == ASSUME GoodsInv, Give PROVE GoodsInv'
<1>1. /\ told' = errand' /\ errand' \in GoodsJobs /\ got' = None /\ terms' = {} /\ phase' = Start
      /\ request' = [act |-> "look", of |-> <<>>] /\ errands' \in Nat /\ UNCHANGED <<world, sight, meddling>>
  BY DEF Give, GoodsInv, GoodsTypeOK
<1>2. told'.qty \in Nat /\ told' # NoErrand
  BY <1>1, JobsAre
<1>3. Total(got', Items) = 0 /\ got' \in [Items -> Nat]
  BY <1>1, NothingMoved
<1>4. KeepsToTheOrder'
  BY <1>1, <1>2, <1>3 DEF KeepsToTheOrder
<1>5. OnItsWay'
  BY <1>1, <1>2 DEF OnItsWay, Waiting
<1>6. GoodsTypeOK'
  BY <1>1, <1>3, StartIsPhase DEF GoodsInv, GoodsTypeOK, Phases
<1>7. QED
  BY <1>1, <1>4, <1>5, <1>6 DEF GoodsInv

LEMMA LookAroundKeeps == ASSUME GoodsInv, LookAround PROVE GoodsInv'
<1>1. /\ request.act = "look" /\ sight' = world /\ request' = [act |-> "plan", of |-> <<>>]
      /\ UNCHANGED <<world, errand, phase, told, got, terms, errands, meddling>>
  BY DEF LookAround
<1>2. GoodsTypeOK'
  BY <1>1 DEF GoodsInv, GoodsTypeOK
<1>3. KeepsToTheOrder'
  BY <1>1 DEF GoodsInv, KeepsToTheOrder
<1>4. errand = told /\ told # NoErrand /\ Waiting
  BY <1>1 DEF GoodsInv, OnItsWay, Quiet, Buying, Cancelling, Refreshing, Withdrawing, Selling, Unordering,
              Looting, Jettisoning, Storing
<1>5. OnItsWay'
  BY <1>1, <1>4 DEF OnItsWay, Waiting
<1>6. QED
  BY <1>1, <1>2, <1>3, <1>5 DEF GoodsInv

LEMMA MeddleKeeps == ASSUME GoodsInv, Meddle PROVE GoodsInv'
<1>1. /\ meddling' = meddling + 1 /\ meddling \in Nat /\ world \in Worlds
      /\ UNCHANGED <<sight, errand, phase, request, told, got, terms, errands>>
  BY DEF Meddle, GoodsInv, GoodsTypeOK
<1>2. world' \in Worlds /\ Len(world'.wrecks) = Len(world.wrecks) /\ DOMAIN world'.wrecks = DOMAIN world.wrecks
  <2>1. CASE \E i \in Items, s \in Stores : world.places[s][i] > 0 /\ world' = [world EXCEPT !.places[s][i] = @ - 1]
    <3>1. PICK i \in Items, s \in Stores : world.places[s][i] > 0 /\ world' = [world EXCEPT !.places[s][i] = @ - 1]
      BY <2>1
    <3>2. s \in Places /\ world.places[s] \in [Items -> Nat]
      BY <1>1, WorldsAre DEF Places
    <3>3. [world.places[s] EXCEPT ![i] = @ - 1] \in [Items -> Nat]
      BY <3>1, <3>2
    <3>4. PICK P : P = [world.places EXCEPT ![s] = [world.places[s] EXCEPT ![i] = @ - 1]]
      OBVIOUS
    <3>5. P \in [Places -> [Items -> Nat]]
      BY <1>1, <3>2, <3>3, <3>4, WorldsAre
    <3>6. world' = [world EXCEPT !.places = P]
      BY <3>1, <3>4
    <3>7. QED
      BY <1>1, <3>5, <3>6 DEF Worlds
  <2>2. CASE \E k \in DOMAIN world.wrecks, i \in Items : world.wrecks[k][i] > 0 /\ world' = [world EXCEPT !.wrecks[k][i] = 0]
    <3>1. PICK k \in DOMAIN world.wrecks, i \in Items : world' = [world EXCEPT !.wrecks[k][i] = 0]
      BY <2>2
    <3>2. PICK x \in Seq([Items -> Nat]) : x = world.wrecks
      BY <1>1, WorldsAre
    <3>3. [x[k] EXCEPT ![i] = 0] \in [Items -> Nat]
      BY <3>1, <3>2
    <3>4. PICK f \in [Items -> Nat] : f = [x[k] EXCEPT ![i] = 0]
      BY <3>3
    <3>5. PICK K : K = [x EXCEPT ![k] = f]
      OBVIOUS
    <3>6. K \in Seq([Items -> Nat]) /\ Len(K) = Len(x) /\ DOMAIN K = DOMAIN x
      BY <3>1, <3>2, <3>5
    <3>7. world' = [world EXCEPT !.wrecks = K]
      BY <3>1, <3>2, <3>4, <3>5
    <3>8. QED
      BY <1>1, <3>2, <3>6, <3>7 DEF Worlds
  <2>3. ASSUME NEW book \in Books, NEW p \in Prices, NEW n \in Nat PROVE [book EXCEPT ![p] = n] \in Books
    BY DEF Books
  <2>4. CASE \E p \in Prices : world.asks[p] > 0 /\ world' = [world EXCEPT !.asks[p] = @ - 1]
    <3>1. PICK p \in Prices : world.asks[p] > 0 /\ world' = [world EXCEPT !.asks[p] = @ - 1]
      BY <2>4
    <3>2. world.asks \in Books
      BY <1>1, WorldsAre
    <3>3. world.asks[p] - 1 \in Nat
      BY <3>1, <3>2, BooksAre
    <3>4. [world.asks EXCEPT ![p] = @ - 1] \in Books
      BY <2>3, <3>2, <3>3
    <3>5. QED
      BY <1>1, <3>1, <3>4 DEF Worlds
  <2>5. CASE \E p \in Prices : world.bids[p] > 0 /\ world' = [world EXCEPT !.bids[p] = @ - 1]
    <3>1. PICK p \in Prices : world.bids[p] > 0 /\ world' = [world EXCEPT !.bids[p] = @ - 1]
      BY <2>5
    <3>2. world.bids \in Books
      BY <1>1, WorldsAre
    <3>3. world.bids[p] - 1 \in Nat
      BY <3>1, <3>2, BooksAre
    <3>4. [world.bids EXCEPT ![p] = @ - 1] \in Books
      BY <2>3, <3>2, <3>3
    <3>5. QED
      BY <1>1, <3>1, <3>4 DEF Worlds
  <2>6. CASE \E p \in Prices : world.mine[p] > 0 /\ world' = [world EXCEPT !.mine[p] = @ - 1]
    <3>1. PICK p \in Prices : world.mine[p] > 0 /\ world' = [world EXCEPT !.mine[p] = @ - 1]
      BY <2>6
    <3>2. world.mine \in Books
      BY <1>1, WorldsAre
    <3>3. world.mine[p] - 1 \in Nat
      BY <3>1, <3>2, BooksAre
    <3>4. [world.mine EXCEPT ![p] = @ - 1] \in Books
      BY <2>3, <3>2, <3>3
    <3>5. QED
      BY <1>1, <3>1, <3>4 DEF Worlds
  <2>7. CASE world' = [world EXCEPT !.asks[1] = @ + 1]
    <3>1. world.asks \in Books
      BY <1>1, WorldsAre
    <3>2. [world.asks EXCEPT ![1] = @ + 1] \in Books
      <4>1. CASE 1 \in Prices
        <5>1. world.asks[1] + 1 \in Nat
          BY <3>1, <4>1, BooksAre
        <5>2. QED
          BY <2>3, <3>1, <4>1, <5>1
      <4>2. CASE 1 \notin Prices
        <5>1. [world.asks EXCEPT ![1] = @ + 1] = world.asks
          BY <3>1, <4>2 DEF Books
        <5>2. QED
          BY <3>1, <5>1
      <4>3. QED
        BY <4>1, <4>2
    <3>3. QED
      BY <1>1, <2>7, <3>2 DEF Worlds
  <2>8. QED
    BY <2>1, <2>2, <2>4, <2>5, <2>6, <2>7 DEF Meddle
<1>3. meddling' \in Nat /\ meddling' # 0
  BY <1>1
<1>4. GoodsTypeOK'
  BY <1>1, <1>2, <1>3 DEF GoodsInv, GoodsTypeOK
<1>5. KeepsToTheOrder'
  BY <1>1 DEF GoodsInv, KeepsToTheOrder
<1>6. /\ (Waiting => Waiting') /\ (Buying => Buying') /\ (Cancelling => Cancelling') /\ (Refreshing => Refreshing')
      /\ (Selling => Selling') /\ (Unordering => Unordering')
  BY <1>1 DEF Waiting, Buying, Cancelling, Refreshing, Selling, Unordering, Bid, Offer, Within, OrdersOf, FirstOf
<1>7. /\ (Withdrawing => Withdrawing') /\ (Jettisoning => Jettisoning') /\ (Storing => Storing')
      /\ (Looting => Looting')
  BY <1>1, <1>2, <1>3 DEF Withdrawing, Jettisoning, Storing, Looting, Bid, Within, FirstOf, Quantity
<1>8. OnItsWay'
  <2>1. OnItsWay
    BY DEF GoodsInv
  <2>2. CASE errand = NoErrand
    BY <1>1, <2>1, <2>2 DEF GoodsInv, GoodsTypeOK, OnItsWay
  <2>3. CASE errand # NoErrand
    BY <1>1, <1>6, <1>7, <2>1, <2>3 DEF OnItsWay
  <2>4. QED
    BY <2>2, <2>3
<1>9. QED
  BY <1>3, <1>4, <1>5, <1>8 DEF GoodsInv

-----------------------------------------------------------------------------
(* Answers. *)

LEMMA BuysNow ==
  ASSUME Kept, UNCHANGED told, errand = told, told \in GoodsJobs, told.do = "buy",
         NEW b \in Entries, Bid(b), NEW name \in {"buying", "final"},
         told.qty > 0 => Total(got', Items) + b.qty <= told.qty, Follows(BuyNow(b, name))
  PROVE  GoodsInv'
<1> DEFINE ph == [Start EXCEPT !.name = name, !.buy = b]
<1>1. ph \in Phases /\ ph.name = name /\ ph.buy = b
  BY ThensAre DEF PhaseNames
<1> HIDE DEF ph
<1>2. <<b>> \in Seq(Entries) /\ "buy" \in Calls \cup {"refresh"}
  BY DEF Calls
<1>3. Follows(Sends("buy", <<b>>, ph))
  BY DEF BuyNow, ph
<1>4. request' = [act |-> "buy", of |-> <<b>>] /\ phase' = ph => OnACall'
  <2>1. SUFFICES ASSUME request' = [act |-> "buy", of |-> <<b>>], phase' = ph PROVE Buying'
    BY DEF OnACall
  <2>2. Bid(b)' /\ Within(b.qty)'
    BY DEF Bid, Within
  <2>3. phase'.buy = b /\ phase'.name \in {"buying", "final"}
    BY <1>1, <2>1
  <2>4. QED
    BY <2>1, <2>2, <2>3 DEF Buying, Bid, Within
<1>5. QED
  BY <1>1, <1>2, <1>3, <1>4, SentOn

LEMMA AnsweredKept ==
  ASSUME GoodsInv, Calling, NEW o, Did(o, request.of, Quote),
         request.act \in {"cancel_buy", "cancel_sell"} => o.got = None,
         world' = o.w, got' = [i \in Items |-> got[i] + o.got[i]], terms' = terms \cup o.at,
         UNCHANGED <<sight, told, errands, meddling>>
  PROVE  /\ Kept /\ errand = told /\ told \in GoodsJobs
         /\ Total(got', Items) \in Nat /\ Total(got, Items) \in Nat /\ Quantity(request.of) \in Nat
         /\ o.got = None => Total(got', Items) = Total(got, Items)
         /\ \/ Total(got', Items) = Total(got, Items)
            \/ Total(got', Items) = Total(got, Items) + Quantity(request.of)
<1>1. KeepsToTheOrder' /\ got' \in [Items -> Nat] /\ terms' \subseteq Prices
  BY CallsKeepToTheOrder
<1>2. world' \in Worlds /\ Len(world'.wrecks) = Len(world.wrecks)
  BY DEF Did
<1>3. errand = told /\ told \in GoodsJobs
  BY DEF GoodsInv, GoodsTypeOK, OnItsWay, Calling, Quiet
<1>4. Kept
  BY <1>1, <1>2 DEF Kept, GoodsInv, GoodsTypeOK
<1>5. got \in [Items -> Nat] /\ request.of \in Seq(Entries)
  BY DEF GoodsInv, GoodsTypeOK
<1>6. QED
  BY <1>3, <1>4, <1>5, Gained

LEMMA FailsKeep == ASSUME GoodsInv, Fails PROVE GoodsInv'
<1>1. PICK o \in Outcomes \cup {[w |-> world, got |-> None, at |-> {}]} :
        world' = o.w /\ got' = [i \in Items |-> got[i] + o.got[i]] /\ terms' = terms \cup o.at
  BY DEF Fails
<1>2. Calling /\ UNCHANGED <<sight, told, errands, meddling>>
  BY DEF Fails
<1>3. Did(o, request.of, Quote) /\ (request.act \in {"cancel_buy", "cancel_sell"} => o.got = None)
  <2>1. CASE o \in Outcomes
    BY <1>2, <2>1, OutcomesAre DEF Outcome
  <2>2. CASE o = [w |-> world, got |-> None, at |-> {}]
    BY <2>2 DEF Did, GoodsInv, GoodsTypeOK
  <2>3. QED
    BY <2>1, <2>2
<1>4. Kept
  BY <1>1, <1>2, <1>3, AnsweredKept
<1>5. PICK p \in OnAnswer(Ans("failure")) : Follows(p)
  BY DEF Fails
<1>6. p = Halts("failed")
  <2>1. PICK a : a = Ans("failure")
    OBVIOUS
  <2>2. a.is = "failure"
    BY <2>1, AnswersAre
  <2>3. OnAnswer(a) = {Halts("failed")}
    BY <2>2 DEF OnAnswer, OnBuyAnswer, OnSellAnswer, OnCancelAnswer, OnWithdrawAnswer, OnLootAnswer, OnJettisonAnswer
  <2>4. QED
    BY <1>5, <2>1, <2>3
<1>7. QED
  BY <1>4, <1>5, <1>6, Ended

LEMMA RefreshMidwayKeeps == ASSUME GoodsInv, RefreshMidway PROVE GoodsInv'
<1>1. request.act = "refresh" /\ UNCHANGED <<world, told, got, terms, errands, meddling>>
  BY DEF RefreshMidway
<1>2. Refreshing /\ errand = told /\ told \in GoodsJobs
  BY <1>1 DEF GoodsInv, GoodsTypeOK, OnItsWay, Quiet, Waiting, Buying, Cancelling, Withdrawing, Selling, Unordering,
              Looting, Jettisoning, Storing
<1>3. ASSUME sight' \in Worlds, Len(sight'.wrecks) = Len(world'.wrecks) PROVE Kept
  BY <1>1, <1>3 DEF Kept, GoodsInv, GoodsTypeOK, KeepsToTheOrder
<1>4. CASE UNCHANGED sight /\ Follows(Halts("failed"))
  <2>1. Kept
    BY <1>1, <1>3, <1>4 DEF GoodsInv, GoodsTypeOK
  <2>2. QED
    BY <1>4, <2>1, Ended
<1>5. CASE sight' = world /\ Follows(BuyTheRest(world))
  <2>1. Kept
    BY <1>1, <1>3, <1>5 DEF GoodsInv, GoodsTypeOK
  <2> DEFINE b == phase.buy
             n == Least(b.qty, Least(world.places["storage"][b.item], Fit(Free(world), b.item)))
  <2>2. /\ b \in Entries /\ Bid(b) /\ told.do = "buy" /\ world \in Worlds /\ got \in [Items -> Nat]
        /\ (told.qty > 0 => Total(got, Items) + b.qty <= told.qty)
    BY <1>2 DEF GoodsInv, GoodsTypeOK, Refreshing, Within
  <2>3. b.qty \in Nat /\ b.item \in Items /\ b.at \in Nat
    BY <2>2 DEF Entries
  <2>4. /\ Fit(Free(world), b.item) \in Nat
        /\ \A k \in Nat : k <= Fit(Free(world), b.item) => k * ItemSize[b.item] <= Free(world)
    BY <2>2, <2>3, ItemFacts, UsedIsNumber, Division DEF Fit
  <2>5. world.places["storage"][b.item] \in Nat
    BY <2>2, <2>3, WorldsAre
  <2>6. n \in Nat /\ n <= b.qty /\ n <= world.places["storage"][b.item] /\ n <= Fit(Free(world), b.item)
    <3>1. PICK f \in Nat : f = Fit(Free(world), b.item)
      BY <2>4
    <3>2. PICK g \in Nat : g = world.places["storage"][b.item]
      BY <2>5
    <3>3. n = Least(b.qty, Least(g, f))
      BY <3>1, <3>2
    <3>4. QED
      BY <2>3, <3>1, <3>2, <3>3 DEF Least
  <2>7. Total(got, Items) \in Nat
    BY <2>2, ItemFacts, SumOfNaturals DEF Total
  <2>8. CASE n = 0
    <3>1. Follows(BuyNow(b, "final"))
      BY <1>5, <2>8 DEF BuyTheRest
    <3>2. told.qty > 0 => Total(got', Items) + b.qty <= told.qty
      BY <1>1, <2>2
    <3> HIDE DEF b, n
    <3>3. QED
      BY <1>1, <1>2, <2>1, <2>2, <3>1, <3>2, BuysNow
  <2>9. CASE n # 0
    <3> DEFINE e == Entry(b.item, n, 0)
               c == [b EXCEPT !.qty = @ - n]
               ph == [Start EXCEPT !.name = "withdrawing", !.buy = c]
    <3>1. Follows(Sends("withdraw", <<e>>, ph))
      BY <1>5, <2>9 DEF BuyTheRest
    <3> HIDE DEF n
    <3>2. e \in Entries /\ e.qty = n /\ e.item = b.item
      BY <2>3, <2>6 DEF Entry, Entries
    <3>3. c \in Entries /\ c.qty = b.qty - n /\ c.at = b.at /\ c.item = b.item
      BY <2>2, <2>3, <2>6 DEF Entries
    <3> HIDE DEF b, e, c
    <3>4. ph \in Phases /\ ph.name = "withdrawing" /\ ph.buy = c
      BY <3>3, ThensAre DEF PhaseNames
    <3>5. <<e>> \in Seq(Entries) /\ Quantity(<<e>>) = n /\ Room(<<e>>) = n * ItemSize[b.item]
          /\ \A i : Amount(<<e>>, i) = IF b.item = i THEN n ELSE 0
      BY <3>2, SingleAsks
    <3>6. Holds(world, "storage", <<e>>) /\ Fits(world, <<e>>)
      <4>1. Holds(world, "storage", <<e>>)
        <5>1. ASSUME NEW i \in Items PROVE world.places["storage"][i] >= Amount(<<e>>, i)
          <6>1. world.places["storage"][i] \in Nat
            BY <2>2, WorldsAre
          <6>2. Amount(<<e>>, i) = IF b.item = i THEN n ELSE 0
            BY <3>5
          <6>3. CASE b.item = i
            BY <2>6, <6>1, <6>2, <6>3
          <6>4. CASE b.item # i
            BY <6>1, <6>2, <6>4
          <6>5. QED
            BY <6>3, <6>4
        <5>2. QED
          BY <5>1 DEF Holds
      <4>2. Room(<<e>>) <= Free(world) /\ Room(<<e>>) \in Nat /\ Free(world) \in Nat
        BY <2>2, <2>4, <2>6, <3>5, TermsAreNumbers, UsedIsNumber
      <4>3. QED
        BY <4>1, <4>2, FitsIsRoom
    <3> HIDE DEF ph
    <3>7. request' = [act |-> "withdraw", of |-> <<e>>] /\ phase' = ph => OnACall'
      <4>1. SUFFICES ASSUME request' = [act |-> "withdraw", of |-> <<e>>], phase' = ph PROVE Withdrawing'
        BY DEF OnACall
      <4>2. request'.act = "withdraw" /\ request'.of = <<e>> /\ phase'.buy = c /\ phase'.name = "withdrawing"
        BY <3>4, <4>1
      <4>3. Bid(c)
        BY <2>2, <3>3 DEF Bid
      <4>4. told.qty > 0 => Total(got, Items) + (n + c.qty) <= told.qty
        <5>1. n + c.qty = b.qty
          BY <2>3, <2>6, <3>3
        <5>2. QED
          BY <2>2, <5>1
      <4>5. Holds(world', "storage", <<e>>) /\ Fits(world', <<e>>)
        BY <1>1, <3>6
      <4>6. Bid(phase.buy)'
        BY <1>1, <4>2, <4>3 DEF Bid
      <4>7. Within(Quantity(request.of) + phase.buy.qty)'
        BY <1>1, <3>5, <4>2, <4>4 DEF Within
      <4>8. Len(request'.of) = 1
        BY <4>2
      <4>9. told'.do = "buy"
        BY <1>1, <2>2
      <4>10. QED
        BY <4>2, <4>5, <4>6, <4>7, <4>8, <4>9 DEF Withdrawing
    <3>8. "withdraw" \in Calls \cup {"refresh"} /\ errand = told'
      BY <1>1, <1>2 DEF Calls
    <3>9. QED
      BY <1>2, <2>1, <3>1, <3>4, <3>5, <3>7, <3>8, SentOn
  <2>10. QED
    BY <2>8, <2>9
<1>6. QED
  BY <1>4, <1>5 DEF RefreshMidway

LEMMA BuyingAnswered ==
  ASSUME Kept, UNCHANGED told, errand = told, told \in GoodsJobs, GoodsTypeOK, Buying, NEW ans, ans.ids \in SUBSET Prices,
         ans.is = "crossing" => Total(got', Items) = Total(got, Items),
         NEW p \in OnAnswer(ans), Follows(p)
  PROVE  GoodsInv'
<1> DEFINE b == phase.buy
<1>1. b \in Entries /\ Bid(b) /\ told.do = "buy" /\ (told.qty > 0 => Total(got, Items) + b.qty <= told.qty)
  BY DEF GoodsTypeOK, Buying, Within
<1>2. (ans.is # "crossing" \/ phase.name = "final") => p \in {Halts("done"), Halts("failed")}
  BY DEF Buying, OnAnswer, OnBuyAnswer
<1>3. CASE p \in {Halts("done"), Halts("failed")}
  BY <1>3, Ended
<1>4. CASE ans.is = "crossing" /\ phase.name # "final"
  <2>1. p \in OnBuyAnswer(ans)
    BY <1>4 DEF Buying, OnAnswer
  <2>2. CASE CrossedBy(ans.ids) = {}
    <3>1. p = BuyNow(b, "final")
      BY <1>4, <2>1, <2>2 DEF OnBuyAnswer
    <3> HIDE DEF b
    <3>2. QED
      BY <1>1, <1>4, <3>1, BuysNow
  <2>3. CASE CrossedBy(ans.ids) # {}
    <3> DEFINE Ph(todo) == [name |-> "cancelling", todo |-> todo, buy |-> b]
    <3>1. PICK todo \in Listed(CrossedBy(ans.ids)) : p = Issue("cancel_sell", Ph(todo))
      BY <1>4, <2>1, <2>3 DEF OnBuyAnswer
    <3> HIDE DEF b
    <3>2. CrossedBy(ans.ids) \in SUBSET Prices
      BY DEF CrossedBy, Quoted
    <3>3. todo \in Seq(Entries) /\ todo # <<>> /\ \A n \in DOMAIN todo : todo[n].at \in Prices
      BY <2>3, <3>2, ListsAre
    <3>4. PICK ph : ph = Ph(todo)
      OBVIOUS
    <3>5. ph \in Phases /\ ph.name = "cancelling" /\ ph.todo = todo /\ ph.buy = b
      BY <1>1, <3>3, <3>4 DEF Phases, PhaseNames
    <3>6. Follows(Sends("cancel_sell", <<Head(todo)>>, ph))
      BY <3>1, <3>4, <3>5 DEF Issue
    <3>7. <<Head(todo)>> \in Seq(Entries)
      BY <3>3
    <3>8. request' = [act |-> "cancel_sell", of |-> <<Head(todo)>>] /\ phase' = ph => OnACall'
      <4>1. SUFFICES ASSUME request' = [act |-> "cancel_sell", of |-> <<Head(todo)>>], phase' = ph PROVE Cancelling'
        BY DEF OnACall
      <4>2. request'.act = "cancel_sell" /\ request'.of = <<Head(todo)>> /\ phase'.todo = todo /\ phase'.buy = b
            /\ phase'.name = "cancelling"
        BY <3>5, <4>1
      <4>3. OrdersOf(phase.todo)'
        BY <3>3, <4>2 DEF OrdersOf, FirstOf
      <4>4. Bid(phase.buy)' /\ Within(phase.buy.qty)'
        BY <1>1, <1>4, <4>2 DEF Bid, Within
      <4>5. told'.do = "buy"
        BY <1>1
      <4>6. QED
        BY <4>2, <4>3, <4>4, <4>5 DEF Cancelling
    <3>9. "cancel_sell" \in Calls \cup {"refresh"}
      BY DEF Calls
    <3>10. QED
      BY <3>5, <3>6, <3>7, <3>8, <3>9, SentOn
  <2>4. QED
    BY <2>2, <2>3
<1>5. QED
  BY <1>2, <1>3, <1>4

LEMMA CancellingAnswered ==
  ASSUME Kept, UNCHANGED told, errand = told, told \in GoodsJobs, GoodsTypeOK, Cancelling, NEW ans,
         Total(got', Items) = Total(got, Items),
         NEW p \in OnAnswer(ans), Follows(p)
  PROVE  GoodsInv'
<1> DEFINE b == phase.buy
           todo == phase.todo
<1>1. /\ b \in Entries /\ Bid(b) /\ told.do = "buy" /\ (told.qty > 0 => Total(got, Items) + b.qty <= told.qty)
      /\ todo \in Seq(Entries) /\ todo # <<>> /\ phase \in Phases /\ \A n \in DOMAIN todo : todo[n].at \in Prices
  BY DEF GoodsTypeOK, Cancelling, Within, OrdersOf, FirstOf, Phases
<1>2. p \in OnCancelAnswer(ans)
  BY DEF Cancelling, OnAnswer
<1>3. CASE ans.is = "failure"
  BY <1>2, <1>3, Ended DEF OnCancelAnswer
<1>4. CASE ans.is # "failure" /\ Len(todo) > 1
  <2> DEFINE ph == [phase EXCEPT !.todo = Tail(@)]
             rest == Tail(todo)
  <2>1. p = Issue("cancel_sell", ph)
    BY <1>2, <1>4 DEF OnCancelAnswer
  <2>2. /\ rest \in Seq(Entries) /\ rest # <<>> /\ \A n \in DOMAIN rest : rest[n].at \in Prices
    BY <1>1, <1>4, RestOf
  <2>3. ph \in Phases /\ ph.name = "cancelling" /\ ph.todo = rest /\ ph.buy = b
    BY <1>1, <2>2 DEF Phases, Cancelling
  <2> HIDE DEF ph, rest, todo, b
  <2>4. Follows(Sends("cancel_sell", <<Head(rest)>>, ph))
    BY <2>1, <2>3 DEF Issue
  <2>5. <<Head(rest)>> \in Seq(Entries)
    BY <2>2
  <2>6. request' = [act |-> "cancel_sell", of |-> <<Head(rest)>>] /\ phase' = ph => OnACall'
    <3>1. SUFFICES ASSUME request' = [act |-> "cancel_sell", of |-> <<Head(rest)>>], phase' = ph PROVE Cancelling'
      BY DEF OnACall
    <3>2. request'.act = "cancel_sell" /\ request'.of = <<Head(rest)>> /\ phase'.todo = rest /\ phase'.buy = b
          /\ phase'.name = "cancelling"
      BY <2>3, <3>1
    <3>3. OrdersOf(phase.todo)'
      BY <2>2, <3>2 DEF OrdersOf, FirstOf
    <3>4. Bid(phase.buy)' /\ Within(phase.buy.qty)'
      BY <1>1, <3>2 DEF Bid, Within
    <3>5. told'.do = "buy"
      BY <1>1
    <3>6. QED
      BY <3>2, <3>3, <3>4, <3>5 DEF Cancelling
  <2>7. "cancel_sell" \in Calls \cup {"refresh"}
    BY DEF Calls
  <2>8. QED
    BY <2>3, <2>4, <2>5, <2>6, <2>7, SentOn
<1>5. CASE ans.is # "failure" /\ ~(Len(todo) > 1)
  <2> DEFINE ph == [phase EXCEPT !.name = "refreshing"]
  <2>1. Follows(Sends("refresh", <<>>, ph))
    BY <1>2, <1>5 DEF OnCancelAnswer
  <2>2. ph \in Phases /\ ph.name = "refreshing" /\ ph.buy = b
    BY <1>1 DEF Phases, PhaseNames
  <2> HIDE DEF ph, b, todo
  <2>3. request' = [act |-> "refresh", of |-> <<>>] /\ phase' = ph => OnACall'
    <3>1. SUFFICES ASSUME request' = [act |-> "refresh", of |-> <<>>], phase' = ph PROVE Refreshing'
      BY DEF OnACall
    <3>2. phase'.buy = b /\ phase'.name = "refreshing"
      BY <2>2, <3>1
    <3>3. Bid(phase.buy)' /\ Within(phase.buy.qty)'
      BY <1>1, <3>2 DEF Bid, Within
    <3>4. told'.do = "buy"
      BY <1>1
    <3>5. QED
      BY <3>1, <3>2, <3>3, <3>4 DEF Refreshing
  <2>4. <<>> \in Seq(Entries)
    OBVIOUS
  <2>5. QED
    BY <2>1, <2>2, <2>3, <2>4, SentOn
<1>6. QED
  BY <1>3, <1>4, <1>5

LEMMA WithdrawingAnswered ==
  ASSUME Kept, UNCHANGED told, errand = told, told \in GoodsJobs, GoodsTypeOK, Withdrawing, NEW ans,
         Total(got, Items) \in Nat, Total(got', Items) \in Nat, Quantity(request.of) \in Nat,
         Total(got', Items) <= Total(got, Items) + Quantity(request.of),
         NEW p \in OnAnswer(ans), Follows(p)
  PROVE  GoodsInv'
<1> DEFINE b == phase.buy
<1>1. /\ b \in Entries /\ Bid(b) /\ told.do = "buy"
      /\ (told.qty > 0 => Total(got, Items) + (Quantity(request.of) + b.qty) <= told.qty)
  BY DEF GoodsTypeOK, Withdrawing, Within
<1>2. p \in OnWithdrawAnswer(ans)
  BY DEF Withdrawing, OnAnswer
<1>3. p = Halts("failed") \/ p = Halts("done") \/ p = BuyNow(b, "final")
  BY <1>2 DEF OnWithdrawAnswer
<1>4. CASE p = BuyNow(b, "final")
  <2>1. b.qty \in Nat /\ told.qty \in Nat
    BY <1>1, JobsAre DEF Entries
  <2> HIDE DEF b
  <2>2. told.qty > 0 => Total(got', Items) + b.qty <= told.qty
    BY <1>1, <2>1
  <2>3. QED
    BY <1>1, <1>4, <2>2, BuysNow
<1>5. QED
  BY <1>3, <1>4, Ended

LEMMA SellingAnswered ==
  ASSUME Kept, UNCHANGED told, errand = told, told \in GoodsJobs, GoodsTypeOK, Selling, NEW ans, ans.left \in Nat,
         ans.is = "insufficient" => Total(got', Items) = Total(got, Items), Total(got, Items) \in Nat,
         NEW p \in OnAnswer(ans), Follows(p)
  PROVE  GoodsInv'
<1> DEFINE todo == phase.todo
<1>1. /\ todo \in Seq(Entries) /\ Len(todo) = 1 /\ Offer(todo[1]) /\ told.do = "sell" /\ phase \in Phases
      /\ (told.qty > 0 => Total(got, Items) + todo[1].qty <= told.qty) /\ phase.name = "selling"
  BY DEF GoodsTypeOK, Selling, Within, Phases
<1>2. p \in OnSellAnswer(ans)
  BY DEF Selling, OnAnswer
<1>3. todo[1] \in Entries /\ Head(todo) = todo[1] /\ todo = <<todo[1]>> /\ 1 \in DOMAIN todo
  <2>1. todo = <<todo[1]>> /\ todo[1] \in Entries
    BY <1>1
  <2>2. PICK e \in Entries : e = todo[1]
    BY <2>1
  <2>3. todo = <<e>>
    BY <2>1, <2>2
  <2> HIDE DEF todo
  <2>4. QED
    BY <2>2, <2>3
<1>4. CASE ans.is = "insufficient" /\ 0 < ans.left /\ ans.left < Head(todo).qty
  <2> DEFINE e == [todo[1] EXCEPT !.qty = ans.left]
             rest == [todo EXCEPT ![1] = e]
             ph == [phase EXCEPT !.todo = rest]
  <2>1. e \in Entries /\ e.qty = ans.left /\ e.item = todo[1].item /\ e.at = todo[1].at
    BY <1>3 DEF Entries
  <2>2. rest = <<e>>
    <3> HIDE DEF e, todo
    <3>1. QED
      BY <1>3
  <2>3. p = Issue("sell", ph)
    <3>1. ph = [phase EXCEPT !.todo[1].qty = ans.left]
      BY <1>1 DEF Phases
    <3> HIDE DEF ph
    <3>2. QED
      BY <1>2, <1>4, <3>1 DEF OnSellAnswer
  <2> HIDE DEF rest, e
  <2>4. ph \in Phases /\ ph.todo = <<e>> /\ ph.name = "selling"
    <3>1. <<e>> \in Seq(Entries)
      BY <2>1
    <3>2. ph = [phase EXCEPT !.todo = <<e>>]
      BY <2>2
    <3> HIDE DEF ph
    <3>3. QED
      BY <1>1, <3>1, <3>2 DEF Phases
  <2> HIDE DEF ph
  <2>5. Follows(Sends("sell", <<e>>, ph))
    BY <2>3, <2>4 DEF Issue
  <2>6. request' = [act |-> "sell", of |-> <<e>>] /\ phase' = ph => OnACall'
    <3>1. SUFFICES ASSUME request' = [act |-> "sell", of |-> <<e>>], phase' = ph PROVE Selling'
      BY DEF OnACall
    <3>2. phase'.todo = <<e>> /\ phase'.name = "selling"
      BY <2>4, <3>1
    <3>3. e.qty <= todo[1].qty /\ e.qty \in Nat /\ todo[1].qty \in Nat
      BY <1>3, <1>4, <2>1 DEF Entries
    <3>4. told.qty \in Nat
      BY JobsAre
    <3> HIDE DEF todo
    <3>5. told.qty > 0 => Total(got, Items) + e.qty <= told.qty
      BY <1>1, <3>3, <3>4
    <3>6. Offer(e)
      BY <1>1, <2>1 DEF Offer
    <3>7. Len(phase'.todo) = 1 /\ phase'.todo[1] = e
      BY <3>2
    <3>8. Offer(phase.todo[1])' /\ Within(phase.todo[1].qty)'
      BY <1>4, <3>5, <3>6, <3>7 DEF Offer, Within
    <3>9. told'.do = "sell"
      BY <1>1
    <3>10. QED
      BY <3>1, <3>2, <3>7, <3>8, <3>9 DEF Selling
  <2>7. "sell" \in Calls \cup {"refresh"} /\ <<e>> \in Seq(Entries)
    BY <2>1 DEF Calls
  <2>8. QED
    BY <2>4, <2>5, <2>6, <2>7, SentOn
<1>5. CASE ~(ans.is = "insufficient" /\ 0 < ans.left /\ ans.left < Head(todo).qty)
  <2>1. p = Halts("failed") \/ p = Halts("done")
    BY <1>1, <1>2, <1>5 DEF OnSellAnswer, Next1
  <2>2. QED
    BY <2>1, Ended
<1>6. QED
  BY <1>4, <1>5

LEMMA UnorderingAnswered ==
  ASSUME Kept, UNCHANGED told, errand = told, told \in GoodsJobs, GoodsTypeOK, Unordering, NEW ans,
         Total(got', Items) = Total(got, Items), Total(got, Items) \in Nat,
         NEW p \in OnAnswer(ans), Follows(p)
  PROVE  GoodsInv'
<1> DEFINE todo == phase.todo
           act == told.do
<1>1. /\ act \in {"cancel_buy", "cancel_sell"} /\ (told.qty > 0 => Total(got, Items) + 0 <= told.qty)
      /\ todo \in Seq(Entries) /\ todo # <<>> /\ phase \in Phases /\ \A n \in DOMAIN todo : todo[n].at \in Prices
      /\ phase.name = "cancelling_all"
  BY DEF GoodsTypeOK, Unordering, Within, OrdersOf, FirstOf, Phases
<1>2. p = Halts("failed") \/ p \in Next1(act)
  BY DEF Unordering, OnAnswer
<1>3. CASE p = Halts("failed")
  BY <1>3, Ended
<1>4. CASE p \in Next1(act) /\ ~(Len(todo) > 1)
  BY <1>4, Ended DEF Next1
<1>5. CASE p \in Next1(act) /\ Len(todo) > 1
  <2> DEFINE ph == [phase EXCEPT !.todo = Tail(@)]
             rest == Tail(todo)
  <2>1. p = Issue(act, ph)
    BY <1>5 DEF Next1
  <2>2. rest \in Seq(Entries) /\ rest # <<>> /\ \A n \in DOMAIN rest : rest[n].at \in Prices
    BY <1>1, <1>5, RestOf
  <2>3. ph \in Phases /\ ph.name = "cancelling_all" /\ ph.todo = rest
    BY <1>1, <2>2 DEF Phases
  <2> HIDE DEF ph, rest, todo
  <2>4. Follows(Sends(act, <<Head(rest)>>, ph))
    BY <2>1, <2>3 DEF Issue
  <2>5. <<Head(rest)>> \in Seq(Entries) /\ act \in Calls \cup {"refresh"}
    BY <1>1, <2>2 DEF Calls
  <2>6. request' = [act |-> act, of |-> <<Head(rest)>>] /\ phase' = ph => OnACall'
    <3>1. SUFFICES ASSUME request' = [act |-> act, of |-> <<Head(rest)>>], phase' = ph PROVE Unordering'
      BY DEF OnACall
    <3>2. request'.act = act /\ request'.of = <<Head(rest)>> /\ phase'.todo = rest /\ phase'.name = "cancelling_all"
      BY <2>3, <3>1
    <3>3. OrdersOf(phase.todo)'
      BY <2>2, <3>2 DEF OrdersOf, FirstOf
    <3>4. Within(0)'
      BY <1>1 DEF Within
    <3>5. told'.do = act
      OBVIOUS
    <3>6. QED
      BY <1>1, <3>2, <3>3, <3>4, <3>5 DEF Unordering
  <2>7. QED
    BY <2>3, <2>4, <2>5, <2>6, SentOn
<1>6. QED
  BY <1>2, <1>3, <1>4, <1>5

LEMMA LootingAnswered ==
  ASSUME Kept, UNCHANGED <<told, meddling>>, errand = told, told \in GoodsJobs, GoodsTypeOK, Looting, NEW ans,
         DOMAIN world'.wrecks = DOMAIN world.wrecks,
         ans.is = "ok" =>
           /\ Free(world') = Free(world) - Head(phase.todo).qty * ItemSize[Head(phase.todo).item]
           /\ \A k \in DOMAIN world.wrecks : \A i \in Items :
                k # Head(phase.todo).at \/ i # Head(phase.todo).item => world'.wrecks[k][i] = world.wrecks[k][i],
         NEW p \in OnAnswer(ans), Follows(p)
  PROVE  GoodsInv'
<1> DEFINE todo == phase.todo
<1>1. /\ told.from = "space" /\ todo \in Seq(Entries) /\ todo # <<>> /\ phase \in Phases /\ Apart(todo)
      /\ phase.name = "looting" /\ \A n \in DOMAIN todo : todo[n].at \in DOMAIN world.wrecks
      /\ (meddling = 0 => Fits(world, todo) /\ InWrecks(world, todo)) /\ world \in Worlds
  BY DEF GoodsTypeOK, Looting, FirstOf, Phases
<1>2. p \in OnLootAnswer(ans)
  BY DEF Looting, OnAnswer
<1>3. p \in {Halts("failed"), Halts("done")} \/ p = Halts("again") \/ (ans.is = "ok" /\ p \in Next1("loot"))
  BY <1>2 DEF OnLootAnswer
<1>4. CASE p \in {Halts("failed"), Halts("done")}
  BY <1>4, Ended
<1>5. CASE p = Halts("again")
  BY <1>1, <1>5, Retried
<1>6. CASE ans.is = "ok" /\ p \in Next1("loot") /\ ~(Len(todo) > 1)
  BY <1>6, Ended DEF Next1
<1>7. CASE ans.is = "ok" /\ p \in Next1("loot") /\ Len(todo) > 1
  <2> DEFINE ph == [phase EXCEPT !.todo = Tail(@)]
             rest == Tail(todo)
             e == Head(todo)
  <2>1. p = Issue("loot", ph)
    BY <1>7 DEF Next1
  <2>2. /\ rest \in Seq(Entries) /\ rest # <<>>
        /\ \A n \in DOMAIN rest : n + 1 \in DOMAIN todo /\ rest[n] = todo[n + 1]
    BY <1>1, <1>7, RestOf
  <2>3. ph \in Phases /\ ph.name = "looting" /\ ph.todo = rest
    BY <1>1, <2>2 DEF Phases
  <2>4. /\ e \in Entries /\ e = todo[1] /\ 1 \in DOMAIN todo
        /\ Room(todo) = e.qty * ItemSize[e.item] + Room(rest)
    BY <1>1, FirstAndRest
  <2>5. /\ Free(world') = Free(world) - e.qty * ItemSize[e.item]
        /\ \A k \in DOMAIN world.wrecks : \A i \in Items :
             k # e.at \/ i # e.item => world'.wrecks[k][i] = world.wrecks[k][i]
    BY <1>7
  <2> HIDE DEF ph, rest, todo, e
  <2>6. Follows(Sends("loot", <<Head(rest)>>, ph))
    BY <2>1, <2>3 DEF Issue
  <2>7. <<Head(rest)>> \in Seq(Entries) /\ "loot" \in Calls \cup {"refresh"}
    BY <2>2 DEF Calls
  <2>8. Apart(rest)
    <3>1. ASSUME NEW m \in DOMAIN rest, NEW n \in DOMAIN rest, rest[m].item = rest[n].item, rest[m].at = rest[n].at
          PROVE  m = n
      <4>1. m + 1 = n + 1
        BY <1>1, <2>2, <3>1 DEF Apart
      <4>2. m \in Nat /\ n \in Nat
        BY <2>2
      <4>3. QED
        BY <4>1, <4>2
    <3>2. QED
      BY <3>1 DEF Apart
  <2>9. \A n \in DOMAIN rest : rest[n].at \in DOMAIN world'.wrecks /\ rest[n] \in Entries
    BY <1>1, <2>2
  <2>10. ASSUME meddling = 0 PROVE Fits(world', rest) /\ InWrecks(world', rest)
    <3>1. Fits(world', rest)
      <4>1. Free(world) >= Room(todo)
        BY <1>1, <2>10, FitsIsRoom
      <4>2. PICK q : q = e.qty * ItemSize[e.item]
        OBVIOUS
      <4>3. q \in Nat
        <5>1. e.qty \in Nat /\ ItemSize[e.item] \in Nat
          BY <2>4, ItemFacts DEF Entries
        <5>2. \A a, c \in Nat : a * c \in Nat
          OBVIOUS
        <5>3. QED
          BY <4>2, <5>1, <5>2
      <4>4. Free(world) \in Nat /\ Room(rest) \in Nat /\ Room(todo) \in Nat
        BY <1>1, <2>2, UsedIsNumber, TermsAreNumbers
      <4>5. Free(world') >= Room(rest)
        BY <2>4, <2>5, <4>1, <4>2, <4>3, <4>4
      <4>6. QED
        BY <4>5, FitsIsRoom
    <3>2. ASSUME NEW n \in DOMAIN rest PROVE world'.wrecks[rest[n].at][rest[n].item] >= rest[n].qty
      <4>1. rest[n] = todo[n + 1] /\ n + 1 \in DOMAIN todo /\ rest[n].item \in Items /\ n \in Nat /\ n # 0
        BY <2>2, <2>9 DEF Entries
      <4>2. n + 1 # 1
        BY <4>1
      <4>3. rest[n].at # e.at \/ rest[n].item # e.item
        BY <1>1, <2>4, <4>1, <4>2 DEF Apart
      <4>4. rest[n].at \in DOMAIN world.wrecks
        BY <1>1, <4>1
      <4>5. world'.wrecks[rest[n].at][rest[n].item] = world.wrecks[rest[n].at][rest[n].item]
        BY <2>5, <4>1, <4>3, <4>4
      <4>6. world.wrecks[rest[n].at][rest[n].item] >= rest[n].qty
        BY <1>1, <2>10, <4>1 DEF InWrecks
      <4>7. QED
        BY <4>5, <4>6
    <3>3. QED
      BY <3>1, <3>2 DEF InWrecks
  <2>11. request' = [act |-> "loot", of |-> <<Head(rest)>>] /\ phase' = ph => OnACall'
    <3>1. SUFFICES ASSUME request' = [act |-> "loot", of |-> <<Head(rest)>>], phase' = ph PROVE Looting'
      BY DEF OnACall
    <3>2. request'.act = "loot" /\ request'.of = <<Head(rest)>> /\ phase'.todo = rest /\ phase'.name = "looting"
      BY <2>3, <3>1
    <3>3. FirstOf(phase.todo)'
      BY <2>2, <3>2 DEF FirstOf
    <3>4. told'.from = "space"
      BY <1>1
    <3>5. meddling' = 0 => Fits(world', phase'.todo) /\ InWrecks(world', phase'.todo)
      BY <2>10, <3>2
    <3>6. Apart(phase'.todo) /\ \A n \in DOMAIN phase'.todo : phase'.todo[n].at \in DOMAIN world'.wrecks
      BY <2>8, <2>9, <3>2
    <3>7. QED
      BY <3>2, <3>3, <3>4, <3>5, <3>6 DEF Looting
  <2>12. QED
    BY <2>3, <2>6, <2>7, <2>11, SentOn
<1>8. QED
  BY <1>3, <1>4, <1>5, <1>6, <1>7

LEMMA JettisoningAnswered ==
  ASSUME Kept, UNCHANGED <<told, meddling>>, errand = told, told \in GoodsJobs, GoodsTypeOK, Jettisoning, NEW ans,
         ans.is = "ok" =>
           \A i \in Items : world'.places["cargo"][i] =
             world.places["cargo"][i] - (IF Head(phase.todo).item = i THEN Head(phase.todo).qty ELSE 0),
         Total(got, Items) \in Nat, Total(got', Items) \in Nat, Quantity(request.of) \in Nat,
         Total(got', Items) <= Total(got, Items) + Quantity(request.of),
         NEW p \in OnAnswer(ans), Follows(p)
  PROVE  GoodsInv'
<1> DEFINE todo == phase.todo
<1>1. /\ told.from = "cargo" /\ told.to = "space" /\ todo \in Seq(Entries) /\ todo # <<>> /\ phase \in Phases
      /\ phase.name = "jettisoning" /\ (meddling = 0 => Holds(world, "cargo", todo)) /\ world \in Worlds
      /\ (told.qty > 0 => Total(got, Items) + Quantity(todo) <= told.qty) /\ request.of = <<Head(todo)>>
  BY DEF GoodsTypeOK, Jettisoning, FirstOf, Phases, Within
<1>2. p \in OnJettisonAnswer(ans)
  BY DEF Jettisoning, OnAnswer
<1>3. p \in {Halts("failed"), Halts("done")} \/ (ans.is = "ok" /\ p \in Next1("jettison"))
  BY <1>2 DEF OnJettisonAnswer
<1>4. CASE p \in {Halts("failed"), Halts("done")}
  BY <1>4, Ended
<1>5. CASE ans.is = "ok" /\ p \in Next1("jettison") /\ ~(Len(todo) > 1)
  BY <1>5, Ended DEF Next1
<1>6. CASE ans.is = "ok" /\ p \in Next1("jettison") /\ Len(todo) > 1
  <2> DEFINE ph == [phase EXCEPT !.todo = Tail(@)]
             rest == Tail(todo)
             e == Head(todo)
  <2>1. p = Issue("jettison", ph)
    BY <1>6 DEF Next1
  <2>2. rest \in Seq(Entries) /\ rest # <<>>
    BY <1>1, <1>6, RestOf
  <2>3. ph \in Phases /\ ph.name = "jettisoning" /\ ph.todo = rest
    BY <1>1, <2>2 DEF Phases
  <2>4. /\ e \in Entries /\ Quantity(todo) = e.qty + Quantity(rest)
        /\ \A i : Amount(todo, i) = (IF e.item = i THEN e.qty ELSE 0) + Amount(rest, i)
    BY <1>1, FirstAndRest
  <2>5. \A i \in Items : world'.places["cargo"][i] = world.places["cargo"][i] - (IF e.item = i THEN e.qty ELSE 0)
    BY <1>6
  <2> HIDE DEF ph, rest, todo, e
  <2>6. Follows(Sends("jettison", <<Head(rest)>>, ph))
    BY <2>1, <2>3 DEF Issue
  <2>7. <<Head(rest)>> \in Seq(Entries) /\ "jettison" \in Calls \cup {"refresh"}
    BY <2>2 DEF Calls
  <2>8. told.qty > 0 => Total(got', Items) + Quantity(rest) <= told.qty
    <3>1. Quantity(request.of) = e.qty
      BY <1>1, <2>4, SingleAsks DEF e
    <3>2. Quantity(rest) \in Nat /\ told.qty \in Nat /\ e.qty \in Nat
      BY <2>2, <2>4, TermsAreNumbers, JobsAre DEF Entries
    <3>3. QED
      BY <1>1, <2>4, <3>1, <3>2
  <2>9. ASSUME meddling = 0 PROVE Holds(world', "cargo", rest)
    <3>1. ASSUME NEW i \in Items PROVE world'.places["cargo"][i] >= Amount(rest, i)
      <4>1. world.places["cargo"][i] >= Amount(todo, i) /\ world.places["cargo"][i] \in Nat
        BY <1>1, <2>9, WorldsAre DEF Holds
      <4>2. Amount(rest, i) \in Nat
        BY <2>2, TermsAreNumbers
      <4>3. PICK k \in Nat : k = IF e.item = i THEN e.qty ELSE 0
        BY <2>4 DEF Entries
      <4>4. Amount(todo, i) = k + Amount(rest, i) /\ world'.places["cargo"][i] = world.places["cargo"][i] - k
        BY <2>4, <2>5, <4>3
      <4>5. QED
        BY <4>1, <4>2, <4>3, <4>4
    <3>2. QED
      BY <3>1 DEF Holds
  <2>10. request' = [act |-> "jettison", of |-> <<Head(rest)>>] /\ phase' = ph => OnACall'
    <3>1. SUFFICES ASSUME request' = [act |-> "jettison", of |-> <<Head(rest)>>], phase' = ph PROVE Jettisoning'
      BY DEF OnACall
    <3>2. request'.act = "jettison" /\ request'.of = <<Head(rest)>> /\ phase'.todo = rest /\ phase'.name = "jettisoning"
      BY <2>3, <3>1
    <3>3. FirstOf(phase.todo)'
      BY <2>2, <3>2 DEF FirstOf
    <3>4. told'.from = "cargo" /\ told'.to = "space"
      BY <1>1
    <3>5. meddling' = 0 => Holds(world', "cargo", phase'.todo)
      BY <2>9, <3>2
    <3>6. Within(Quantity(phase.todo))'
      BY <2>8, <3>2 DEF Within
    <3>7. QED
      BY <3>2, <3>3, <3>4, <3>5, <3>6 DEF Jettisoning
  <2>11. QED
    BY <2>3, <2>6, <2>7, <2>10, SentOn
<1>7. QED
  BY <1>3, <1>4, <1>5, <1>6

LEMMA AnswersKeep == ASSUME GoodsInv, Answers PROVE GoodsInv'
<1>1. PICK o \in Outcomes :
        /\ world' = o.w /\ got' = [i \in Items |-> got[i] + o.got[i]] /\ terms' = terms \cup o.at
        /\ \E p \in OnAnswer(o.ans) : Follows(p)
  BY DEF Answers
<1>2. PICK p \in OnAnswer(o.ans) : Follows(p)
  BY <1>1
<1>3. Calling /\ UNCHANGED <<sight, told, errands, meddling>>
  BY DEF Answers
<1>4. Outcome(o, request.of, Quote) /\ (request.act \in {"cancel_buy", "cancel_sell"} => o.got = None)
  BY <1>3, OutcomesAre
<1>5. Did(o, request.of, Quote) /\ o.ans.left \in Nat /\ o.ans.ids \in SUBSET Prices
      /\ (o.ans.is # "ok" => o.w = world /\ o.got = None /\ o.at = {})
  BY <1>4 DEF Outcome
<1>6. /\ Kept /\ errand = told /\ told \in GoodsJobs
      /\ Total(got', Items) \in Nat /\ Total(got, Items) \in Nat /\ Quantity(request.of) \in Nat
      /\ (o.got = None => Total(got', Items) = Total(got, Items))
      /\ \/ Total(got', Items) = Total(got, Items)
         \/ Total(got', Items) = Total(got, Items) + Quantity(request.of)
  BY <1>1, <1>3, <1>4, <1>5, AnsweredKept
<1>7. Total(got', Items) <= Total(got, Items) + Quantity(request.of)
  BY <1>6
<1>8. GoodsTypeOK /\ UNCHANGED told /\ world \in Worlds
  BY <1>3 DEF GoodsInv, GoodsTypeOK
<1>9. CASE Buying
  <2>1. o.ans.is = "crossing" => Total(got', Items) = Total(got, Items)
    BY <1>5, <1>6
  <2>2. QED
    BY <1>2, <1>5, <1>6, <1>8, <1>9, <2>1, BuyingAnswered
<1>10. CASE Cancelling
  <2>1. request.act = "cancel_sell"
    BY <1>10 DEF Cancelling
  <2>2. Total(got', Items) = Total(got, Items)
    BY <1>4, <1>6, <2>1
  <2>3. QED
    BY <1>2, <1>6, <1>8, <1>10, <2>2, CancellingAnswered
<1>11. CASE Withdrawing
  BY <1>2, <1>6, <1>7, <1>8, <1>11, WithdrawingAnswered
<1>12. CASE Selling
  <2>1. o.ans.is = "insufficient" => Total(got', Items) = Total(got, Items)
    BY <1>5, <1>6
  <2>2. QED
    BY <1>2, <1>5, <1>6, <1>8, <1>12, <2>1, SellingAnswered
<1>13. CASE Unordering
  <2>1. request.act \in {"cancel_buy", "cancel_sell"}
    BY <1>13 DEF Unordering
  <2>2. Total(got', Items) = Total(got, Items)
    BY <1>4, <1>6, <2>1
  <2>3. QED
    BY <1>2, <1>6, <1>8, <1>13, <2>2, UnorderingAnswered
<1>14. CASE Looting
  <2> DEFINE e == Head(phase.todo)
  <2>1. /\ request.act = "loot" /\ phase.todo # <<>> /\ request.of = <<e>>
        /\ \A n \in DOMAIN phase.todo : phase.todo[n].at \in DOMAIN world.wrecks
    BY <1>14 DEF Looting, FirstOf
  <2>2. First = e /\ e \in Entries /\ e.at \in DOMAIN world.wrecks
    BY <1>8, <2>1 DEF GoodsTypeOK, First
  <2>3. o \in GameLoots(e)
    BY <2>1, <2>2 DEF Outcomes
  <2> HIDE DEF e
  <2>4. o.ans.is = "ok" =>
          /\ Free(o.w) = Free(world) - e.qty * ItemSize[e.item]
          /\ \A k \in DOMAIN world.wrecks : \A i \in Items :
               k # e.at \/ i # e.item => o.w.wrecks[k][i] = world.wrecks[k][i]
    BY <1>8, <2>2, <2>3, LootsAre
  <2>5. DOMAIN world'.wrecks = DOMAIN world.wrecks
    <3>1. world' \in Worlds /\ Len(world'.wrecks) = Len(world.wrecks)
      BY <1>1, <1>5 DEF Did
    <3>2. QED
      BY <1>8, <3>1, WorldsAre
  <2>6. UNCHANGED <<told, meddling>>
    BY <1>3
  <2>7. o.ans.is = "ok" =>
          /\ Free(world') = Free(world) - e.qty * ItemSize[e.item]
          /\ \A k \in DOMAIN world.wrecks : \A i \in Items :
               k # e.at \/ i # e.item => world'.wrecks[k][i] = world.wrecks[k][i]
    BY <1>1, <2>4
  <2>8. QED
    BY <1>2, <1>6, <1>8, <1>14, <2>5, <2>6, <2>7, LootingAnswered DEF e
<1>15. CASE Jettisoning
  <2> DEFINE e == Head(phase.todo)
  <2>1. request.act = "jettison" /\ phase.todo # <<>> /\ request.of = <<e>>
    BY <1>15 DEF Jettisoning, FirstOf
  <2>2. First = e /\ request.of # <<>> /\ e = Head(request.of)
    BY <2>1 DEF First
  <2>3. o \in GameJettisons(e) /\ request.of \in Seq(Entries)
    BY <1>8, <2>1, <2>2 DEF Outcomes, GoodsTypeOK
  <2> HIDE DEF e
  <2>4. o.ans.is = "ok" =>
          \A i \in Items : o.w.places["cargo"][i] = world.places["cargo"][i] - (IF e.item = i THEN e.qty ELSE 0)
    BY <1>8, <2>2, <2>3, JettisonsAre
  <2>5. UNCHANGED <<told, meddling>>
    BY <1>3
  <2>6. o.ans.is = "ok" =>
          \A i \in Items : world'.places["cargo"][i] = world.places["cargo"][i] - (IF e.item = i THEN e.qty ELSE 0)
    BY <1>1, <2>4
  <2>7. QED
    BY <1>2, <1>6, <1>7, <1>8, <1>15, <2>5, <2>6, JettisoningAnswered DEF e
<1>16. CASE Storing
  <2>1. phase.name = "storing"
    BY <1>16 DEF Storing
  <2>2. p \in {Halts("failed"), Halts("done")}
    BY <1>2, <2>1 DEF OnAnswer
  <2>3. QED
    BY <1>2, <1>6, <2>2, Ended
<1>17. ~Waiting /\ ~Refreshing /\ errand # NoErrand
  BY <1>3, <1>6, JobsAre DEF Waiting, Refreshing, Calling
<1>18. QED
  BY <1>9, <1>10, <1>11, <1>12, <1>13, <1>14, <1>15, <1>16, <1>17 DEF GoodsInv, OnItsWay

-----------------------------------------------------------------------------
(* What is planned from a snapshot. *)

LEMMA MarketsAre ==
  ASSUME NEW w \in Worlds
  PROVE  /\ Asks(w) \in Books /\ Bids(w) \in Books
         /\ Quoted(Asks(w)) \in SUBSET Prices /\ Quoted(Bids(w)) \in SUBSET Prices
         /\ \A S : Depth(Asks(w), S) \in Nat /\ Depth(Bids(w), S) \in Nat
<1>1. \A p \in Prices : w.asks[p] \in Nat /\ w.bids[p] \in Nat /\ w.mine[p] \in Nat /\ w.wants[p] \in Nat
  BY WorldsAre, BooksAre
<1>2. Asks(w) \in Books /\ Bids(w) \in Books
  BY <1>1 DEF Asks, Bids, Books
<1>3. QED
  BY <1>2, BooksAre

LEMMA BestPrices ==
  ASSUME NEW S \in SUBSET Prices, S # {}
  PROVE  Min(S) \in Prices /\ Max(S) \in Prices
<1>1. S \in SUBSET Nat /\ IsFiniteSet(S)
  <2>1. IsFiniteSet(Prices)
    BY GoodsAssumption, FS_Interval DEF Prices
  <2>2. IsFiniteSet(S)
    BY <2>1, FS_Subset
  <2>3. QED
    BY <2>2 DEF Prices
<1>2. \E x \in S : \A y \in S : x =< y
  BY <1>1, SmallestNat
<1>3. Min(S) \in S
  BY <1>2 DEF Min
<1> DEFINE f == [x \in S |-> x]
<1>4. \A x \in S : f[x] \in Int
  BY <1>1
<1>5. \E x \in S : \A y \in S : f[y] <= f[x]
  <2> HIDE DEF f
  <2>1. QED
    BY <1>1, <1>4, Extremes
<1>6. \E x \in S : \A y \in S : x >= y
  BY <1>1, <1>5
<1>7. Max(S) \in S
  BY <1>6 DEF Max
<1>8. QED
  BY <1>3, <1>7

LEMMA BuyPlanned ==
  ASSUME Kept, UNCHANGED <<told, got>>, errand = told, told \in GoodsJobs, told.do = "buy", got = None,
         sight \in Worlds, Follows(PlanBuy)
  PROVE  GoodsInv'
<1> DEFINE cap == errand.at
           asks == Asks(sight)
           bids == Bids(sight)
           depth == Depth(asks, IF cap = 0 THEN Prices ELSE 1..cap)
           qty == IF depth > 0 THEN Least(errand.qty, depth) ELSE errand.qty
           price == IF cap > 0 THEN cap ELSE IF Quoted(asks) # {} THEN Min(Quoted(asks)) ELSE Max(Quoted(bids))
<1>1. cap \in Prices \cup {0} /\ errand.item = Traded /\ errand.qty \in Nat
  BY JobsAre
<1>2. depth \in Nat /\ Quoted(asks) \in SUBSET Prices /\ Quoted(bids) \in SUBSET Prices
  BY MarketsAre
<1>3. qty \in Nat /\ qty <= errand.qty
  <2> HIDE DEF depth
  <2>1. QED
    BY <1>1, <1>2 DEF Least
<1>4. Total(got', Items) = 0
  BY NothingMoved
<1>5. ASSUME NEW b, b.item = Traded, b.at \in Prices, told.at > 0 => b.at <= told.at,
             b.qty \in Nat, b.qty <= errand.qty, b \in Entries, Follows(BuyNow(b, "buying"))
      PROVE  GoodsInv'
  <2>1. Bid(b)
    BY <1>5 DEF Bid
  <2>2. told.qty > 0 => Total(got', Items) + b.qty <= told.qty
    BY <1>4, <1>5
  <2>3. QED
    BY <1>5, <2>1, <2>2, BuysNow
<1>6. CASE errand.order /\ cap = 0
  <2>1. Follows(Halts("failed"))
    BY <1>6 DEF PlanBuy
  <2>2. QED
    BY <2>1, Ended
<1>7. CASE errand.order /\ cap # 0
  <2> DEFINE b == Entry(errand.item, errand.qty, cap)
  <2>1. Follows(BuyNow(b, "buying"))
    BY <1>7 DEF PlanBuy
  <2>2. b \in Entries /\ b.item = Traded /\ b.qty = errand.qty /\ b.at = cap
    BY <1>1, ItemFacts DEF Entry, Entries, Prices
  <2>3. b.at \in Prices /\ b.at <= told.at
    BY <1>1, <1>7, <2>2 DEF Prices
  <2> HIDE DEF b, cap
  <2>4. QED
    BY <1>1, <1>5, <2>1, <2>2, <2>3
<1>8. CASE ~errand.order /\ ((Quoted(asks) = {} /\ Quoted(bids) = {}) \/ (cap > 0 /\ depth = 0))
  <2>1. Follows(Halts("done"))
    BY <1>8 DEF PlanBuy
  <2>2. QED
    BY <2>1, Ended
<1>9. CASE ~errand.order /\ ~((Quoted(asks) = {} /\ Quoted(bids) = {}) \/ (cap > 0 /\ depth = 0))
  <2> DEFINE b == Entry(errand.item, qty, price)
  <2>1. Follows(BuyNow(b, "buying"))
    BY <1>9 DEF PlanBuy
  <2>2. price \in Prices /\ (cap > 0 => price = cap)
    BY <1>1, <1>2, <1>9, BestPrices DEF Prices
  <2> HIDE DEF qty, price, depth, asks, bids
  <2>3. b \in Entries /\ b.item = Traded /\ b.qty = qty /\ b.at = price
    BY <1>1, <1>3, <2>2, ItemFacts DEF Entry, Entries, Prices
  <2>4. told.at > 0 => b.at <= told.at
    BY <1>1, <2>2, <2>3 DEF Prices
  <2> HIDE DEF b
  <2>5. QED
    BY <1>3, <1>5, <2>1, <2>2, <2>3, <2>4
<1>10. QED
  BY <1>6, <1>7, <1>8, <1>9

LEMMA SellPlanned ==
  ASSUME Kept, UNCHANGED <<told, got>>, errand = told, told \in GoodsJobs, told.do = "sell", got = None,
         sight \in Worlds, Follows(PlanSell)
  PROVE  GoodsInv'
<1> DEFINE floor == errand.at
           have == Sellable(sight, errand.item)
           raw == IF errand.qty = 0 THEN have ELSE Least(errand.qty, have)
           depth == Depth(Bids(sight), floor..MaxPrice)
           quotes == Quoted(Bids(sight)) \cup Quoted(Asks(sight))
           price == IF floor > 0 THEN floor
                    ELSE IF Quoted(Bids(sight)) # {} THEN Max(Quoted(Bids(sight))) ELSE Min(quotes)
           qty == IF floor > 0 /\ ~errand.order THEN Least(raw, depth) ELSE raw
           e == Entry(errand.item, qty, price)
<1>1. floor \in Prices \cup {0} /\ errand.item = Traded /\ errand.qty \in Nat /\ errand.item \in Items
  BY JobsAre, ItemFacts
<1>2. have \in Nat
  <2>1. sight.places["cargo"][errand.item] \in Nat /\ sight.places["storage"][errand.item] \in Nat
    BY <1>1, WorldsAre
  <2>2. QED
    BY <2>1 DEF Sellable
<1>3. depth \in Nat /\ Quoted(Bids(sight)) \in SUBSET Prices /\ quotes \in SUBSET Prices
  BY MarketsAre
<1>4. qty \in Nat /\ (errand.qty > 0 => qty <= errand.qty)
  <2> HIDE DEF have, depth
  <2>1. QED
    BY <1>1, <1>2, <1>3 DEF Least
<1>5. Total(got', Items) = 0
  BY NothingMoved
<1>6. CASE errand.order /\ floor = 0
  <2>1. Follows(Halts("failed"))
    BY <1>6 DEF PlanSell
  <2>2. QED
    BY <2>1, Ended
<1>7. CASE ~(errand.order /\ floor = 0) /\ (qty = 0 \/ (~errand.order /\ quotes = {}))
  <2>1. Follows(Halts("done"))
    BY <1>7 DEF PlanSell
  <2>2. QED
    BY <2>1, Ended
<1>8. CASE ~(errand.order /\ floor = 0) /\ ~(qty = 0 \/ (~errand.order /\ quotes = {}))
  <2>1. Follows(Issue("sell", Then("selling", <<e>>)))
    BY <1>8 DEF PlanSell
  <2>2. price \in Prices /\ (floor > 0 => price = floor)
    BY <1>1, <1>3, <1>8, BestPrices DEF Prices
  <2> HIDE DEF qty, price, quotes
  <2>3. e \in Entries /\ e.item = Traded /\ e.qty = qty /\ e.at = price
    BY <1>1, <1>4, <2>2 DEF Entry, Entries, Prices
  <2> HIDE DEF e
  <2>4. PICK ph : ph = Then("selling", <<e>>)
    OBVIOUS
  <2>5. <<e>> \in Seq(Entries) /\ "selling" \in PhaseNames /\ "sell" \in Calls \cup {"refresh"}
    BY <2>3 DEF PhaseNames, Calls
  <2>6. ph \in Phases /\ ph.name = "selling" /\ ph.todo = <<e>>
    BY <2>4, <2>5, ThensAre
  <2>7. Follows(Sends("sell", <<e>>, ph))
    BY <2>1, <2>4, <2>6 DEF Issue
  <2>8. request' = [act |-> "sell", of |-> <<e>>] /\ phase' = ph => OnACall'
    <3>1. SUFFICES ASSUME request' = [act |-> "sell", of |-> <<e>>], phase' = ph PROVE Selling'
      BY DEF OnACall
    <3>2. phase'.todo = <<e>> /\ phase'.name = "selling" /\ Len(phase'.todo) = 1 /\ phase'.todo[1] = e
      BY <2>6, <3>1
    <3>3. told.at > 0 => e.at >= told.at
      BY <1>1, <2>2, <2>3 DEF Prices
    <3>4. told.qty > 0 => Total(got', Items) + e.qty <= told.qty
      BY <1>4, <1>5, <2>3
    <3>5. Offer(phase.todo[1])' /\ Within(phase.todo[1].qty)'
      BY <2>2, <2>3, <3>2, <3>3, <3>4 DEF Offer, Within
    <3>6. QED
      BY <3>1, <3>2, <3>5 DEF Selling
  <2>9. QED
    BY <2>5, <2>6, <2>7, <2>8, SentOn
<1>9. QED
  BY <1>6, <1>7, <1>8

LEMMA CancelPlanned ==
  ASSUME Kept, UNCHANGED <<told, got>>, errand = told, told \in GoodsJobs, told.do \in {"cancel_buy", "cancel_sell"},
         got = None, sight \in Worlds, NEW p \in PlanCancel, Follows(p)
  PROVE  GoodsInv'
<1> DEFINE ids == Quoted(IF errand.do = "cancel_sell" THEN sight.mine ELSE sight.wants)
           act == errand.do
<1>1. ids \in SUBSET Prices
  BY DEF Quoted
<1>2. CASE ids = {}
  BY <1>2, Ended DEF PlanCancel
<1>3. CASE ids # {}
  <2>1. PICK todo \in Listed(ids) : p = Issue(act, Then("cancelling_all", todo))
    BY <1>3 DEF PlanCancel
  <2> HIDE DEF ids
  <2>2. todo \in Seq(Entries) /\ todo # <<>> /\ \A n \in DOMAIN todo : todo[n].at \in Prices
    BY <1>1, <1>3, <2>1, ListsAre
  <2>3. PICK ph : ph = Then("cancelling_all", todo)
    OBVIOUS
  <2>4. ph \in Phases /\ ph.name = "cancelling_all" /\ ph.todo = todo
    BY <2>2, <2>3, ThensAre DEF PhaseNames
  <2>5. Follows(Sends(act, <<Head(todo)>>, ph))
    BY <2>1, <2>3, <2>4 DEF Issue
  <2>6. <<Head(todo)>> \in Seq(Entries) /\ act \in Calls \cup {"refresh"}
    BY <2>2 DEF Calls
  <2>7. request' = [act |-> act, of |-> <<Head(todo)>>] /\ phase' = ph => OnACall'
    <3>1. SUFFICES ASSUME request' = [act |-> act, of |-> <<Head(todo)>>], phase' = ph PROVE Unordering'
      BY DEF OnACall
    <3>2. request'.act = act /\ request'.of = <<Head(todo)>> /\ phase'.todo = todo /\ phase'.name = "cancelling_all"
      BY <2>4, <3>1
    <3>3. OrdersOf(phase.todo)'
      BY <2>2, <3>2 DEF OrdersOf, FirstOf
    <3>4. Within(0)'
      BY NothingMoved, JobsAre DEF Within
    <3>5. QED
      BY <3>2, <3>3, <3>4 DEF Unordering
  <2>8. QED
    BY <2>4, <2>5, <2>6, <2>7, SentOn
<1>4. QED
  BY <1>2, <1>3

LEMMA LootPlanned ==
  ASSUME Kept, UNCHANGED <<world, told, got, meddling>>, errand = told, told \in GoodsJobs, told.from = "space",
         sight \in Worlds, world \in Worlds, Len(sight.wrecks) = Len(world.wrecks),
         meddling = 0 => sight = world, Follows(PlanLoot)
  PROVE  GoodsInv'
<1> DEFINE targets == LootTargets(sight, errand.at, errand.item)
           loot == Taken(sight, targets, "cargo", errand.qty)
<1>1. /\ targets \in Seq(Entries) /\ Apart(targets) /\ InWrecks(sight, targets)
      /\ \A n \in DOMAIN targets : targets[n].at \in DOMAIN sight.wrecks
  BY LootTargetsAre
<1>2. errand.qty \in Nat
  BY JobsAre
<1>3. /\ loot \in Seq(Entries) /\ Room(loot) <= Free(sight) /\ Apart(loot)
      /\ \A n \in DOMAIN loot : \E m \in DOMAIN targets : Same(loot[n], targets[m]) /\ loot[n].qty <= targets[m].qty
  <2> HIDE DEF targets
  <2>1. PICK out : out = Taken(sight, targets, "cargo", errand.qty)
    OBVIOUS
  <2>2. /\ out \in Seq(Entries) /\ Room(out) <= Free(sight) /\ Apart(out)
        /\ \A n \in DOMAIN out : \E m \in DOMAIN targets : Same(out[n], targets[m]) /\ out[n].qty <= targets[m].qty
    BY <1>1, <1>2, <2>1, TakenIsSound
  <2>3. QED
    BY <2>1, <2>2
<1>4. CASE Free(sight) = 0 \/ loot = <<>>
  <2>1. Follows(Halts("done"))
    BY <1>4 DEF PlanLoot
  <2>2. QED
    BY <2>1, Ended
<1>5. CASE ~(Free(sight) = 0 \/ loot = <<>>)
  <2>1. Follows(Issue("loot", Then("looting", loot)))
    BY <1>5 DEF PlanLoot
  <2> HIDE DEF loot, targets
  <2>2. PICK ph : ph = Then("looting", loot)
    OBVIOUS
  <2>3. ph \in Phases /\ ph.name = "looting" /\ ph.todo = loot
    BY <1>3, <2>2, ThensAre DEF PhaseNames
  <2>4. Follows(Sends("loot", <<Head(loot)>>, ph))
    BY <2>1, <2>2, <2>3 DEF Issue
  <2>5. <<Head(loot)>> \in Seq(Entries) /\ "loot" \in Calls \cup {"refresh"}
    BY <1>3, <1>5 DEF Calls
  <2>6. DOMAIN sight.wrecks = DOMAIN world.wrecks
    BY WorldsAre
  <2>7. ASSUME NEW n \in DOMAIN loot
        PROVE  loot[n].at \in DOMAIN sight.wrecks /\ sight.wrecks[loot[n].at][loot[n].item] >= loot[n].qty
    <3>1. PICK m \in DOMAIN targets : Same(loot[n], targets[m]) /\ loot[n].qty <= targets[m].qty
      BY <1>3
    <3>2. sight.wrecks[targets[m].at][targets[m].item] >= targets[m].qty /\ targets[m].at \in DOMAIN sight.wrecks
      BY <1>1 DEF InWrecks
    <3>3. targets[m] \in Entries /\ loot[n] \in Entries
      BY <1>1, <1>3
    <3>4. sight.wrecks[targets[m].at] \in [Items -> Nat]
      BY <3>2, WorldsAre
    <3>5. sight.wrecks[targets[m].at][targets[m].item] \in Nat /\ targets[m].qty \in Nat /\ loot[n].qty \in Nat
      BY <3>3, <3>4 DEF Entries
    <3>6. QED
      BY <3>1, <3>2, <3>5 DEF Same
  <2>8. ASSUME meddling = 0 PROVE Fits(world, loot) /\ InWrecks(world, loot)
    <3>1. Room(loot) \in Nat /\ Free(sight) \in Nat
      BY <1>3, TermsAreNumbers, UsedIsNumber
    <3>2. Free(sight) >= Room(loot)
      BY <1>3, <3>1
    <3>3. QED
      BY <2>7, <2>8, <3>2, FitsIsRoom DEF InWrecks
  <2>9. request' = [act |-> "loot", of |-> <<Head(loot)>>] /\ phase' = ph => OnACall'
    <3>1. SUFFICES ASSUME request' = [act |-> "loot", of |-> <<Head(loot)>>], phase' = ph PROVE Looting'
      BY DEF OnACall
    <3>2. request'.act = "loot" /\ request'.of = <<Head(loot)>> /\ phase'.todo = loot /\ phase'.name = "looting"
      BY <2>3, <3>1
    <3>3. FirstOf(phase.todo)'
      BY <1>5, <3>2 DEF FirstOf
    <3>4. told'.from = "space"
      OBVIOUS
    <3>5. meddling' = 0 => Fits(world', phase'.todo) /\ InWrecks(world', phase'.todo)
      BY <2>8, <3>2
    <3>6. Apart(phase'.todo) /\ \A n \in DOMAIN phase'.todo : phase'.todo[n].at \in DOMAIN world'.wrecks
      BY <1>3, <2>6, <2>7, <3>2
    <3>7. QED
      BY <3>2, <3>3, <3>4, <3>5, <3>6 DEF Looting
  <2>10. QED
    BY <2>3, <2>4, <2>5, <2>9, SentOn
<1>6. QED
  BY <1>4, <1>5

LEMMA TransferPlanned ==
  ASSUME Kept, UNCHANGED <<world, told, got, meddling>>, errand = told, told \in GoodsJobs, told.do = "transfer",
         told.from # "space" => got = None,
         sight \in Worlds, world \in Worlds, Len(sight.wrecks) = Len(world.wrecks),
         meddling = 0 => sight = world, Follows(PlanTransfer)
  PROVE  GoodsInv'
<1> DEFINE from == errand.from
           targets == SourceTargets(sight, from, errand.item)
           fit == Taken(sight, targets, errand.to, errand.qty)
<1>1. /\ errand.qty \in Nat /\ from \in Places \cup {"space"} /\ errand.to \in Places \cup {"space"}
      /\ (errand.to = "space" => from = "cargo")
  BY JobsAre
<1>2. CASE from = "space"
  <2>1. Follows(PlanLoot)
    BY <1>2 DEF PlanTransfer
  <2>2. QED
    BY <1>2, <2>1, LootPlanned
<1>3. CASE from # "space" /\ errand.item # "all" /\ errand.qty > sight.places[from][errand.item]
  <2>1. Follows(Halts("failed"))
    BY <1>3 DEF PlanTransfer
  <2>2. QED
    BY <2>1, Ended
<1>4. CASE from # "space" /\ ~(errand.item # "all" /\ errand.qty > sight.places[from][errand.item]) /\ fit = <<>>
  <2>1. Follows(Halts("done"))
    BY <1>4 DEF PlanTransfer
  <2>2. QED
    BY <2>1, Ended
<1>5. CASE from # "space" /\ ~(errand.item # "all" /\ errand.qty > sight.places[from][errand.item]) /\ fit # <<>>
  <2>1. from \in Places /\ got' = None
    BY <1>1, <1>5
  <2>2. /\ targets \in Seq(Entries) /\ Apart(targets)
        /\ \A n \in DOMAIN targets : targets[n].at = 0 /\ targets[n].qty <= sight.places[from][targets[n].item]
    BY <2>1, SourceTargetsAre
  <2>3. /\ fit \in Seq(Entries) /\ (errand.qty # 0 => Quantity(fit) <= errand.qty)
        /\ (errand.to = "cargo" => Room(fit) <= Free(sight)) /\ Apart(fit)
        /\ \A n \in DOMAIN fit : \E m \in DOMAIN targets : Same(fit[n], targets[m]) /\ fit[n].qty <= targets[m].qty
    <3> HIDE DEF targets
    <3>1. QED
      BY <1>1, <2>2, TakenIsSound
  <2>4. /\ errand.to = "space" => Follows(Issue("jettison", Then("jettisoning", fit)))
        /\ errand.to # "space" => Follows(Sends("move", fit, Then("storing", fit)))
    BY <1>5 DEF PlanTransfer
  <2> HIDE DEF fit, targets
  <2>5. PICK f \in [Items -> Nat] : f = sight.places[from]
    BY <2>1, WorldsAre
  <2>6. ASSUME NEW n \in DOMAIN fit PROVE fit[n].at = 0 /\ fit[n].qty <= f[fit[n].item]
    <3>1. PICK m \in DOMAIN targets : Same(fit[n], targets[m]) /\ fit[n].qty <= targets[m].qty
      BY <2>3
    <3>2. targets[m] \in Entries /\ fit[n] \in Entries
      BY <2>2, <2>3
    <3>3. targets[m].at = 0 /\ targets[m].qty <= f[targets[m].item] /\ f[targets[m].item] \in Nat
      BY <2>2, <2>5, <3>2 DEF Entries
    <3>4. QED
      BY <3>1, <3>2, <3>3 DEF Same, Entries
  <2>7. \A i \in Items : Amount(fit, i) <= f[i]
    BY <2>3, <2>6, ApartHolds
  <2>8. Holds(sight, from, fit)
    <3>1. ASSUME NEW i \in Items PROVE sight.places[from][i] >= Amount(fit, i)
      BY <2>3, <2>5, <2>7, TermsAreNumbers
    <3>2. QED
      BY <3>1 DEF Holds
  <2>9. errand.to = "cargo" => Fits(sight, fit)
    <3>1. Room(fit) \in Nat /\ Free(sight) \in Nat
      BY <2>3, TermsAreNumbers, UsedIsNumber
    <3>2. errand.to = "cargo" => Free(sight) >= Room(fit)
      BY <2>3, <3>1
    <3>3. QED
      BY <3>2, FitsIsRoom
  <2>10. told.qty > 0 => Total(got', Items) + Quantity(fit) <= told.qty
    <3>1. Total(got', Items) = 0 /\ Quantity(fit) \in Nat
      BY <2>1, <2>3, NothingMoved, TermsAreNumbers
    <3>2. QED
      BY <1>1, <2>3, <3>1
  <2>11. CASE errand.to = "space"
    <3>1. PICK ph : ph = Then("jettisoning", fit)
      OBVIOUS
    <3>2. ph \in Phases /\ ph.name = "jettisoning" /\ ph.todo = fit
      BY <2>3, <3>1, ThensAre DEF PhaseNames
    <3>3. Follows(Sends("jettison", <<Head(fit)>>, ph))
      BY <2>4, <2>11, <3>1, <3>2 DEF Issue
    <3>4. <<Head(fit)>> \in Seq(Entries) /\ "jettison" \in Calls \cup {"refresh"}
      BY <1>5, <2>3 DEF Calls
    <3>5. request' = [act |-> "jettison", of |-> <<Head(fit)>>] /\ phase' = ph => OnACall'
      <4>1. SUFFICES ASSUME request' = [act |-> "jettison", of |-> <<Head(fit)>>], phase' = ph PROVE Jettisoning'
        BY DEF OnACall
      <4>2. request'.act = "jettison" /\ request'.of = <<Head(fit)>> /\ phase'.todo = fit /\ phase'.name = "jettisoning"
        BY <3>2, <4>1
      <4>3. FirstOf(phase.todo)' /\ Within(Quantity(phase.todo))'
        BY <1>5, <2>10, <4>2 DEF FirstOf, Within
      <4>4. told'.from = "cargo" /\ told'.to = "space"
        BY <1>1, <2>11
      <4>5. meddling' = 0 => Holds(world', "cargo", phase'.todo)
        BY <2>8, <4>2, <4>4
      <4>6. QED
        BY <4>2, <4>3, <4>4, <4>5 DEF Jettisoning
    <3>6. QED
      BY <3>2, <3>3, <3>4, <3>5, SentOn
  <2>12. CASE errand.to # "space"
    <3>1. PICK ph : ph = Then("storing", fit)
      OBVIOUS
    <3>2. ph \in Phases /\ ph.name = "storing" /\ ph.todo = fit
      BY <2>3, <3>1, ThensAre DEF PhaseNames
    <3>3. Follows(Sends("move", fit, ph))
      BY <2>4, <2>12, <3>1
    <3>4. "move" \in Calls \cup {"refresh"}
      BY DEF Calls
    <3>5. request' = [act |-> "move", of |-> fit] /\ phase' = ph => OnACall'
      <4>1. SUFFICES ASSUME request' = [act |-> "move", of |-> fit], phase' = ph PROVE Storing'
        BY DEF OnACall
      <4>2. request' = [act |-> "move", of |-> phase'.todo] /\ phase'.todo = fit /\ phase'.name = "storing"
        BY <3>2, <4>1
      <4>3. Within(Quantity(phase.todo))'
        BY <2>10, <4>2 DEF Within
      <4>4. told'.from = from /\ from \in Places /\ told'.to \in Places
        BY <1>1, <2>1, <2>12
      <4>5. meddling' = 0 => Holds(world', told'.from, phase'.todo) /\ (told'.to = "cargo" => Fits(world', phase'.todo))
        BY <2>8, <2>9, <4>2, <4>4
      <4>6. QED
        BY <4>2, <4>3, <4>4, <4>5 DEF Storing
    <3>6. QED
      BY <2>3, <3>2, <3>3, <3>4, <3>5, SentOn
  <2>13. QED
    BY <2>11, <2>12
<1>6. QED
  BY <1>2, <1>3, <1>4, <1>5

LEMMA PlanErrandKeeps == ASSUME GoodsInv, PlanErrand PROVE GoodsInv'
<1>1. request.act = "plan" /\ UNCHANGED <<world, sight, told, got, terms, errands, meddling>>
  BY DEF PlanErrand
<1>2. PICK p \in PlanOf : Follows(p)
  BY DEF PlanErrand
<1>3. errand = told /\ told \in GoodsJobs /\ Waiting
  BY <1>1 DEF GoodsInv, GoodsTypeOK, OnItsWay, Quiet, Buying, Cancelling, Refreshing, Withdrawing, Selling,
              Unordering, Looting, Jettisoning, Storing
<1>4. Kept
  BY <1>1 DEF Kept, GoodsInv, GoodsTypeOK, KeepsToTheOrder
<1>5. /\ sight \in Worlds /\ world \in Worlds /\ Len(sight.wrecks) = Len(world.wrecks)
      /\ (meddling = 0 => sight = world) /\ (told.from # "space" => got = None)
  BY <1>1, <1>3 DEF GoodsInv, GoodsTypeOK, Waiting
<1>6. /\ told.do \in {"buy", "sell", "cancel_buy", "cancel_sell", "transfer"}
      /\ (told.do # "transfer" => told.from # "space")
  BY <1>3, JobsAre
<1>7. CASE told.do = "buy"
  <2>1. p = PlanBuy
    BY <1>2, <1>3, <1>7 DEF PlanOf
  <2>2. QED
    BY <1>1, <1>2, <1>3, <1>4, <1>5, <1>6, <1>7, <2>1, BuyPlanned
<1>8. CASE told.do = "sell"
  <2>1. p = PlanSell
    BY <1>2, <1>3, <1>8 DEF PlanOf
  <2>2. QED
    BY <1>1, <1>2, <1>3, <1>4, <1>5, <1>6, <1>8, <2>1, SellPlanned
<1>9. CASE told.do = "transfer"
  <2>1. p = PlanTransfer
    BY <1>2, <1>3, <1>9 DEF PlanOf
  <2>2. QED
    BY <1>1, <1>2, <1>3, <1>4, <1>5, <1>9, <2>1, TransferPlanned
<1>10. CASE told.do \in {"cancel_buy", "cancel_sell"}
  <2>1. p \in PlanCancel
    BY <1>2, <1>3, <1>10 DEF PlanOf
  <2>2. QED
    BY <1>1, <1>2, <1>3, <1>4, <1>5, <1>6, <1>10, <2>1, CancelPlanned
<1>11. QED
  BY <1>6, <1>7, <1>8, <1>9, <1>10

-----------------------------------------------------------------------------
(* The theorems. *)

LEMMA GoodsInvFits == ASSUME GoodsInv PROVE PlansFit
<1>1. CASE errand = NoErrand
  BY <1>1, JobsAre DEF GoodsInv, GoodsTypeOK, OnItsWay, PlansFit, Calling, Quiet
<1>2. CASE errand # NoErrand
  <2>1. errand = told /\ told \in GoodsJobs /\ told # NoErrand
    BY <1>2 DEF GoodsInv, GoodsTypeOK, OnItsWay
  <2>2. /\ (told.do # "transfer" => told.to = "none") /\ (told.from = "space" => told.to = "cargo")
    BY <2>1, JobsAre DEF Places, Stores
  <2>3. SUFFICES ASSUME meddling = 0, phase.name \in {"storing", "looting", "jettisoning", "withdrawing"}, Calling
                 PROVE  PlansFit
    BY DEF PlansFit
  <2>4. Withdrawing \/ Looting \/ Jettisoning \/ Storing
    BY <1>2, <2>3 DEF GoodsInv, OnItsWay, Waiting, Start, Buying, Cancelling, Refreshing, Selling, Unordering
  <2>5. CASE Withdrawing
    BY <2>1, <2>2, <2>3, <2>5 DEF Withdrawing, PlansFit
  <2>6. CASE Looting
    BY <2>1, <2>2, <2>3, <2>6 DEF Looting, PlansFit, InWrecks
  <2>7. CASE Jettisoning
    BY <2>1, <2>2, <2>3, <2>7 DEF Jettisoning, PlansFit
  <2>8. CASE Storing
    BY <2>1, <2>2, <2>3, <2>8 DEF Storing, PlansFit
  <2>9. QED
    BY <2>4, <2>5, <2>6, <2>7, <2>8
<1>3. QED
  BY <1>1, <1>2

LEMMA GoodsInvStarts == GoodsInit => GoodsInv
<1>1. ASSUME GoodsInit PROVE GoodsInv
  <2>1. world \in Worlds /\ sight = world
    BY <1>1, GoodsAssumption DEF GoodsInit
  <2>2. GoodsTypeOK
    BY <1>1, <2>1, StartIsPhase, NothingMoved DEF GoodsInit, GoodsTypeOK, Phases, Quiet
  <2>3. KeepsToTheOrder
    BY <1>1 DEF GoodsInit, KeepsToTheOrder
  <2>4. OnItsWay
    BY <1>1 DEF GoodsInit, OnItsWay
  <2>5. QED
    BY <2>1, <2>2, <2>3, <2>4 DEF GoodsInv
<1>2. QED
  BY <1>1

LEMMA GoodsInvStays == GoodsInv /\ [GoodsNext]_goodsVars => GoodsInv'
<1>1. ASSUME GoodsInv, GoodsNext PROVE GoodsInv'
  BY <1>1, GiveKeeps, LookAroundKeeps, PlanErrandKeeps, RefreshMidwayKeeps, AnswersKeep, FailsKeep, MeddleKeeps DEF GoodsNext
<1>2. ASSUME GoodsInv, UNCHANGED goodsVars PROVE GoodsInv'
  BY <1>2 DEF goodsVars, GoodsInv, GoodsTypeOK, KeepsToTheOrder, OnItsWay, Waiting, Buying, Cancelling, Refreshing,
              Withdrawing, Selling, Unordering, Looting, Jettisoning, Storing, Bid, Offer, Within, FirstOf, OrdersOf
<1>3. QED
  BY <1>1, <1>2

\* In every state the invariant holds: the variables have their values, and the command is
\* where what was promised for it says.
THEOREM GoodsInvariant == GoodsSpec => []GoodsInv
<1>1. QED
  BY GoodsInvStarts, GoodsInvStays, PTL DEF GoodsSpec

\* Type correctness of the state of the commands that move goods (CommandPlanner).
THEOREM GoodsTypeCorrect == GoodsSpec => []GoodsTypeOK
<1>1. GoodsInv => GoodsTypeOK
  BY DEF GoodsInv
<1>2. QED
  BY <1>1, GoodsInvariant, PTL

\* Whatever is refused, taken up with less, cancelled, withdrawn or lost, a command buys,
\* orders, withdraws, sells or stores at most what it was told to (continue_buy_order,
\* continue_crossing_buy_refresh, continue_sell, continue_storage_batch), at prices it was
\* told to keep.
THEOREM OrdersAreKept == GoodsSpec => []KeepsToTheOrder
<1>1. GoodsInv => KeepsToTheOrder
  BY DEF GoodsInv
<1>2. QED
  BY <1>1, GoodsInvariant, PTL

\* Calls planned from one snapshot go together: while nobody else touches hold, stores and
\* wrecks, what is asked for is there and fits (size_targets_to_cargo, space_loot_targets,
\* source_quantity, continue_crossing_buy_refresh).
THEOREM PlansAreFeasible == GoodsSpec => []PlansFit
<1>1. GoodsInv => PlansFit
  BY GoodsInvFits
<1>2. QED
  BY <1>1, GoodsInvariant, PTL
=============================================================================
