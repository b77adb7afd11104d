------------------------------- MODULE Routes -------------------------------
(***************************************************************************)
(* Routing over the known jump graph (prayer-state, RouteTable): from each *)
(* system a breadth-first search counts jumps, and a shortest-path search  *)
(* with a heap weighs them, entering a system near a stronghold counting   *)
(* twice.  Bots move along the first hops of the weighted search.          *)
(*                                                                         *)
(* Systems are numbers in the order of their sorted names, which breaks    *)
(* ties.  A graph maps each system to the systems it has a jump to.        *)
(***************************************************************************)
EXTENDS Naturals, Sequences, SequencesExt, FiniteSetsExt, Functions

Unreachable == 1000000   \* u32::MAX: more than any way costs
NoHop == 0

Nodes(links) == DOMAIN links
Size(links)  == Cardinality(Nodes(links))
IsGraph(links) ==
  /\ IsFiniteSet(Nodes(links)) /\ Nodes(links) \subseteq Nat \ {NoHop}
  /\ links \in [Nodes(links) -> SUBSET Nodes(links)]
  /\ 2 * Size(links) < Unreachable

\* What n steps make of the base.
Rounds(n, base, step) ==
  LET made[i \in 0..n] == IF i = 0 THEN base ELSE step[made[i - 1]]
  IN made[n]

\* Distances, or costs, from a source to each system before anything is known.
Origin(links, source) == [m \in Nodes(links) |-> IF m = source THEN 0 ELSE Unreachable]
Hops(links) == [Nodes(links) -> Nodes(links) \cup {NoHop}]
NoHops(links) == [m \in Nodes(links) |-> NoHop]

\* One queue entry of the breadth-first search from source: its neighbours that
\* were not seen yet go to the end of the queue in the order of their names.
ByName(S) == CHOOSE s \in SetToSeqs(S) : \A i, j \in DOMAIN s : i < j => s[i] < s[j]
Counts(links) == [dist : [Nodes(links) -> Nat], hop : Hops(links), queue : Seq(Nodes(links))]
CountJumps(links, source) ==
  [row \in Counts(links) |->
     IF row.queue = <<>> THEN row ELSE
     LET current == Head(row.queue)
         new == {m \in links[current] : row.dist[m] = Unreachable}
     IN [dist  |-> [m \in Nodes(links) |-> IF m \in new THEN row.dist[current] + 1 ELSE row.dist[m]],
         hop   |-> [m \in Nodes(links) |-> IF m \notin new THEN row.hop[m] ELSE IF current = source THEN m ELSE row.hop[current]],
         queue |-> Tail(row.queue) \o ByName(new)]]

\* The search ends: a system enters the queue once, and as many steps empty it.
JumpsFrom(links, source) ==
  Rounds(Size(links), [dist |-> Origin(links, source), hop |-> NoHops(links), queue |-> <<source>>],
         CountJumps(links, source))

\* One heap entry of the weighted search: the cheapest entry, the first by name
\* among equals; an entry that was overtaken is skipped.
Weights(links) == [cost : [Nodes(links) -> Nat], hop : Hops(links), heap : SUBSET (Nat \X Nodes(links))]
IsTop(heap, e) == \A f \in heap : e[1] < f[1] \/ (e[1] = f[1] /\ e[2] <= f[2])
WeighRoutes(links, penalized, source) ==
  [row \in Weights(links) |->
     IF ~\E e \in row.heap : IsTop(row.heap, e) THEN row ELSE
     LET top == CHOOSE e \in row.heap : IsTop(row.heap, e)
         current == top[2]
         through(m) == top[1] + (IF m \in penalized THEN 2 ELSE 1)
         better == IF top[1] # row.cost[current] THEN {} ELSE {m \in links[current] : through(m) < row.cost[m]}
     IN [cost |-> [m \in Nodes(links) |-> IF m \in better THEN through(m) ELSE row.cost[m]],
         hop  |-> [m \in Nodes(links) |-> IF m \notin better THEN row.hop[m] ELSE IF current = source THEN m ELSE row.hop[current]],
         heap |-> (row.heap \ {top}) \cup {<<through(m), m>> : m \in better}]]

\* It ends as soon: no entry is overtaken, for what it costs to enter a system does not
\* depend on where from.
RoutesFrom(links, penalized, source) ==
  Rounds(Size(links), [cost |-> Origin(links, source), hop |-> NoHops(links), heap |-> {<<0, source>>}],
         WeighRoutes(links, penalized, source))

\* systems_within_hops.
WithinHops(links, origins, hops) ==
  UNION {LET jumps == JumpsFrom(links, o) IN {s \in Nodes(links) : jumps.dist[s] <= hops} : o \in origins}

\* Mutant: the first hops are those of the unweighted search.
BuildUnweighted(links, penalized) ==
  [s \in Nodes(links) |->
     LET jumps == JumpsFrom(links, s)
         routes == RoutesFrom(links, penalized, s)
     IN [dist |-> jumps.dist, nakedHop |-> jumps.hop, cost |-> routes.cost, hop |-> jumps.hop]]

\* build_with_penalties: the row of each system.
Build(links, penalized) ==
  [s \in Nodes(links) |->
     LET jumps == JumpsFrom(links, s)
         routes == RoutesFrom(links, penalized, s)
     IN [dist |-> jumps.dist, nakedHop |-> jumps.hop, cost |-> routes.cost, hop |-> routes.hop]]

\* GalaxyData::route_table: everything within three jumps of a stronghold is penalized.
PenaltyRadius == 3
RouteTable(links, strongholds) == Build(links, WithinHops(links, strongholds, PenaltyRadius))

HopDistance(table, start, target) == table[start].dist[target]
PathCost(table, start, target)    == table[start].cost[target]
NextHop(table, start, target)     == IF start = target THEN NoHop ELSE table[start].hop[target]

\* path_hops, naked_path_hops: first hops chained from start to a target that can be
\* reached; no way has more than this many.
Following(hops, target) ==
  [s \in DOMAIN hops |-> IF s = target \/ hops[s][target] = NoHop THEN s ELSE hops[s][target]]
PathHops(hops, start, target) ==
  LET most == 2 * Cardinality(DOMAIN hops)
      at(k) == Rounds(k, start, Following(hops, target))
      length == Min({k \in 0..most : at(k) = target} \cup {most})
  IN [k \in 1..length |-> at(k)]
-----------------------------------------------------------------------------
(* Reference: cheapest ways by relaxing every jump as often as there are    *)
(* systems.                                                                  *)

Relaxed(links, weight) ==
  [before \in [Nodes(links) -> Nat] |->
     [m \in Nodes(links) |->
        Min({before[m]} \cup {before[n] + weight[m] : n \in {x \in Nodes(links) : m \in links[x] /\ before[x] # Unreachable}})]]
Cheapest(links, weight, source) == Rounds(Size(links), Origin(links, source), Relaxed(links, weight))

PathLength(path, weight) == SumFunctionOnSet([k \in DOMAIN path |-> weight[path[k]]], DOMAIN path)
IsWay(links, start, target, path) ==
  /\ \A i \in DOMAIN path : path[i] \in links[IF i = 1 THEN start ELSE path[i - 1]]
  /\ target = IF path = <<>> THEN start ELSE path[Len(path)]
IsCheapestWay(links, weight, start, target, path, cost) ==
  IsWay(links, start, target, path) /\ PathLength(path, weight) = cost

\* Following the table hop by hop, each hop looked up anew where the bot then is,
\* is a cheapest way, and it ends.
Naked(links) == [n \in Nodes(links) |-> 1]
Near(links, strongholds) ==
  {s \in Nodes(links) : \E o \in strongholds : Cheapest(links, Naked(links), o)[s] <= PenaltyRadius}
RoutesAreCheapest(links, strongholds, table) ==
  LET near == Near(links, strongholds)
      weight == [n \in Nodes(links) |-> IF n \in near THEN 2 ELSE 1]
      safe == [s \in Nodes(links) |-> table[s].hop]
      direct == [s \in Nodes(links) |-> table[s].nakedHop]
  IN \A s \in Nodes(links) :
       LET cheap == Cheapest(links, weight, s)
           short == Cheapest(links, Naked(links), s)
       IN \A t \in Nodes(links) :
            /\ PathCost(table, s, t) = cheap[t] /\ HopDistance(table, s, t) = short[t]
            /\ cheap[t] # Unreachable =>
                 /\ IsCheapestWay(links, weight, s, t, PathHops(safe, s, t), cheap[t])
                 /\ IsCheapestWay(links, Naked(links), s, t, PathHops(direct, s, t), short[t])
=============================================================================
