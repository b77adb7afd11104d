------------------------------ MODULE MCWorld ------------------------------
(* The shared world, what is promised of it, and those who read and change *)
(* it over HTTP: four machines, of which one moves at a time (part).       *)
EXTENDS Movements, StateReads, Retries, GalaxyMerge, TLC

VARIABLE part

-----------------------------------------------------------------------------
(* Movements. *)

Offer(level) == [kind |-> "market", level |-> level]
Store == [kind |-> "faction_storage", level |-> 1]
SomeRows == {Offer(1), Offer(2), Store}
Uses(n, k) == [o \in {"trade", "craft"} |-> IF o = "trade" THEN n ELSE k]
ClaimOn(k, l, n) == [kind |-> k, lot |-> l, quantity |-> n]
SomeSights == {Offer(1) :> 1 @@ Offer(2) :> 1, Offer(1) :> 0 @@ Offer(2) :> 2, Store :> 2}
SomeAsks == {
  [claims |-> <<ClaimOn("market", AnyLot, 1)>>, uses |-> Uses(0, 0)],
  [claims |-> <<ClaimOn("market", 0, 1), ClaimOn("market", 0, 1)>>, uses |-> Uses(0, 0)],
  [claims |-> <<ClaimOn("faction_storage", AnyLot, 1)>>, uses |-> Uses(1, 0)],
  [claims |-> <<>>, uses |-> Uses(1, 1)]}
Order(s, q, t, r, f) ==
  [side |-> s, quantity |-> q, tipping |-> t, dumping |-> FALSE, reserved |-> r, filled |-> f,
   enabled |-> TRUE, internal |-> FALSE]
Two(a, b) == [o \in {"trade", "craft"} |-> IF o = "trade" THEN a ELSE b]
SomeBooks == {
  Two(Order("sell", 2, 0, 0, 0), Order("craft", 2, 0, 1, 2)),
  Two(Order("buy_until", 2, 0, 0, 0), Order("craft_until", 1, 0, 0, 0)),
  Two(Order("sell_until", 1, 1, 0, 1), Order("commission_until", 1, 0, 0, 0))}

OnMarket(r) == r.kind # "faction_storage"
StockStep  == LedgerNext /\ orders' = orders /\ touches' = touches
OrdersStep == LedgerNext /\ \A r \in Rows : OnMarket(r) => stock'[r] = stock[r]

-----------------------------------------------------------------------------
(* Reads of the state: with a world that changes, or with a fleet that does. *)

SomeWorlds == {[markets |-> "s1" :> 2 @@ "s2" :> 2, content |-> [d \in {"storage"} |-> 0]],
               [markets |-> "s1" :> 2, content |-> [d \in {"storage"} |-> 1]]}
TwoStations == DOMAIN world.markets = {"s1", "s2"}
ReadsStep == ReadsNext /\ fleet'.version = 1 /\ fleet'.run = fleet.run
FleetStep == ReadsNext /\ world' = world /\ promised' = promised

-----------------------------------------------------------------------------
(* What bots see. *)

Facts(n, s, c) == [name |-> n, stronghold |-> s, count |-> c, survey |-> Unseen]
System(f, l, all, at, entered, scan) ==
  [facts |-> f, links |-> l, allLinks |-> all, at |-> at, first |-> entered, last |-> entered, scanned |-> scan]
Poi(s, n, base, all, r, allr, at) ==
  [system |-> s, info |-> [name |-> n, base |-> base], allInfo |-> all, resources |-> r, allResources |-> allr,
   at |-> at, first |-> at, last |-> at]
Report(k) == [kind |-> k, place |-> "base"]
Sight(at, s, p, r, a) == [at |-> at, systems |-> s, pois |-> p, reports |-> r, agents |-> a]
SomeObservations == {
  Sight(1, "sol" :> System(Facts("a", "yes", Unseen), {"vega"}, TRUE, 1, 1, Never),
        "belt" :> Poi("sol", "a", FALSE, TRUE, "iron" :> 1, TRUE, 1), Report("market") :> 1, "pat" :> 1),
  Sight(3, "sol" :> System(Facts("a", "yes", Unseen), {}, FALSE, 3, 3, Never),
        "belt" :> Poi("sol", Unseen, TRUE, FALSE, "gold" :> 1, FALSE, 3), Report("salvage") :> 1, "pat" :> 1),
  Sight(2, "sol" :> System(Facts("b", "no", 0), {}, FALSE, 2, Never, 2), Empty, Report("salvage") :> 2, Empty),
  Sight(2, "sol" :> System(Facts(Unseen, Unseen, 1), {"tau"}, FALSE, 2, 2, 3),
        "belt" :> Poi("sol", "b", FALSE, TRUE, Empty, FALSE, 2), Report("market") :> 2, "pat" :> 2),
  Sight(4, "vega" :> System(Facts(Unseen, "yes", 1), {"sol"}, TRUE, 4, Never, 4),
        "belt" :> Poi("vega", "c", FALSE, FALSE, Empty, TRUE, 4), Empty, "pat" :> 2),
  Sight(4, "vega" :> System(Facts(Unseen, Unseen, Unseen), {}, FALSE, 4, 4, Never),
        "capital" :> Poi("vega", Unseen, FALSE, FALSE, Empty, FALSE, 4), Empty, "pat" :> 1)}

-----------------------------------------------------------------------------
(* Requests are alike, as are keys and bodies: they are named in the order they come. *)

Before(r) == {q \in Requests : q < r /\ requests'[q] # Idle}
NamedInOrder(r) ==
  /\ Cardinality(Before(r)) = r - 1
  /\ requests'[r].key = "k2" => requests'[r].body = "b1" /\ \E q \in Before(r) : requests'[q].key = "k1"
  /\ requests'[r].body = "b2" => \E q \in Before(r) : requests'[q].key = requests'[r].key
RetriesStep == RetryNext /\ \A r \in Requests : requests'[r] # Idle => NamedInOrder(r)

-----------------------------------------------------------------------------
WorldInit ==
  /\ LedgerInit /\ ReadsInit /\ RetryInit /\ MergeInit /\ TwoStations
  /\ part \in {"stock", "orders", "reads", "fleet", "retries", "merge"}
  /\ part # "orders" => orders = <<>>
WorldNext ==
  /\ UNCHANGED part
  /\ \/ part = "stock" /\ StockStep /\ UNCHANGED <<readVars, retryVars, mergeVars>>
     \/ part = "orders" /\ OrdersStep /\ UNCHANGED <<readVars, retryVars, mergeVars>>
     \/ part = "reads" /\ ReadsStep /\ UNCHANGED <<ledgerVars, retryVars, mergeVars>>
     \/ part = "fleet" /\ FleetStep /\ UNCHANGED <<ledgerVars, retryVars, mergeVars>>
     \/ part = "retries" /\ RetriesStep /\ UNCHANGED <<ledgerVars, readVars, mergeVars>>
     \/ part = "merge" /\ MergeNext /\ UNCHANGED <<ledgerVars, readVars, retryVars>>
WorldSpec == WorldInit /\ [][WorldNext]_<<ledgerVars, readVars, retryVars, mergeVars, part>>
=============================================================================
