------------------------------- MODULE Goods -------------------------------
(***************************************************************************)
(* Commands that move goods (prayer-runtime, CommandPlanner): transfer,    *)
(* buy, sell, cancel_buy and cancel_sell, of a ship that is docked (docking *)
(* is Travel's).  Several are loops of calls planned from one snapshot, so *)
(* what was planned may no longer be there: stores and wrecks are shared,  *)
(* and the market belongs to everyone.                                     *)
(***************************************************************************)
EXTENDS Naturals, Sequences, SequencesExt, FiniteSetsExt, TLC

CONSTANTS
  GoodsJobs,          \* commands
  Scenes,             \* places and markets to start from
  ItemOrder, ItemSize,\* the items by name, and the cargo space each takes
  Capacity, MaxPrice,
  MaxErrands, MaxMeddling  \* bounds: commands, moves of others

Items  == ToSet(ItemOrder)
Prices == 1..MaxPrice
Traded == ItemOrder[1]
Stores == {"storage", "faction"}
Places == Stores \cup {"cargo"}

\* Commands: qty 0 is all of it, without limit; at is a price or none, or a wreck or any.
Trades == [do : {"buy", "sell", "cancel_buy", "cancel_sell"}, item : {Traded}, qty : Nat,
           at : Prices \cup {0}, from : {"none"}, to : {"none"}, order : BOOLEAN]
Transfers ==
  {t \in [do : {"transfer"}, item : Items \cup {"all"}, qty : Nat, at : Nat,
          from : Places \cup {"space"}, to : Places \cup {"space"}, order : {FALSE}] :
     /\ t.item = "all" => t.qty = 0
     /\ t.from = "space" => t.to = "cargo"
     /\ t.to = "space" => t.from = "cargo"}

\* Worlds: what is where, and the market in Traded: units at each price, of others (asks,
\* bids) and own (mine, wants).
Books  == [Prices -> Nat]
Worlds == [places : [Places -> [Items -> Nat]], wrecks : Seq([Items -> Nat]),
           asks : Books, bids : Books, mine : Books, wants : Books]

ASSUME GoodsAssumption ==
  /\ ItemOrder \in Seq(STRING \ {"all"}) /\ ItemOrder # <<>>
  /\ \A m, n \in DOMAIN ItemOrder : ItemOrder[m] = ItemOrder[n] => m = n
  /\ ItemSize \in [Items -> Nat \ {0}] /\ Capacity \in Nat /\ MaxPrice \in Nat
  /\ MaxErrands \in Nat /\ MaxMeddling \in Nat
  /\ GoodsJobs \subseteq Trades \cup Transfers /\ Scenes \subseteq Worlds

NoErrand == [do |-> "none"]
Quiet == [act |-> "none", of |-> <<>>]

VARIABLES
  world,     \* places, wrecks, asks, bids, mine; wants (own bids)
  sight,     \* planning_state: the world as of the last refresh
  errand, phase,  \* the command and where its planner is
  request,   \* the call that is sent
  told,      \* history: the latest command
  got,       \* history: item -> units the command has moved, bought or ordered
  terms,     \* history: the prices it has traded at
  errands, meddling

goodsVars == <<world, sight, errand, phase, request, told, got, terms, errands, meddling>>
Entry(i, q, a) == [item |-> i, qty |-> q, at |-> a]
Start == [name |-> "start", todo |-> <<>>, buy |-> Entry(Traded, 0, 0)]
None  == [i \in Items |-> 0]

GoodsInit ==
  /\ world \in Scenes /\ sight = world
  /\ errand = NoErrand /\ phase = Start /\ request = Quiet
  /\ told = NoErrand /\ got = None /\ terms = {} /\ errands = 0 /\ meddling = 0

-----------------------------------------------------------------------------
(* Helpers over a world or a snapshot of one. *)

Total(f, S) == SumFunctionOnSet(f, S)
Used(w) == Total([i \in Items |-> w.places["cargo"][i] * ItemSize[i]], Items)
Free(w) == IF Used(w) < Capacity THEN Capacity - Used(w) ELSE 0
Fit(free, i) == free \div ItemSize[i]
Least(a, b) == IF a < b THEN a ELSE b

\* As much of a target as is asked for and fits.
Part(b, t, to, qty) ==
  Least(IF to = "cargo" THEN Fit(b.free, t.item) ELSE t.qty, Least(t.qty, IF qty = 0 THEN t.qty ELSE b.left))

\* Mutant: the space a stack takes is not charged.
OverSized(w, targets, to, qty) ==
  LET taken[n \in 0..Len(targets)] ==
        IF n = 0 THEN [free |-> Free(w), left |-> qty, out |-> <<>>] ELSE
        LET b == taken[n - 1]
            t == targets[n]
            k == Part(b, t, to, qty)
        IN IF k = 0 THEN b
           ELSE [b EXCEPT !.left = IF qty = 0 THEN 0 ELSE @ - k, !.out = Append(@, [t EXCEPT !.qty = k])]
  IN taken[Len(targets)].out

\* size_targets_to_cargo, space_loot_targets: target by target, and none of it empty.
Taken(w, targets, to, qty) ==
  LET taken[n \in 0..Len(targets)] ==
        IF n = 0 THEN [free |-> Free(w), left |-> qty, out |-> <<>>] ELSE
        LET b == taken[n - 1]
            t == targets[n]
            k == Part(b, t, to, qty)
        IN IF k = 0 THEN b
           ELSE [free |-> b.free - k * ItemSize[t.item], left |-> IF qty = 0 THEN 0 ELSE b.left - k,
                 out |-> Append(b.out, [t EXCEPT !.qty = k])]
  IN taken[Len(targets)].out

\* source_all_targets, source_quantity.
SourceTargets(w, from, item) ==
  [n \in DOMAIN ItemOrder |->
     Entry(ItemOrder[n], IF item \in {"all", ItemOrder[n]} THEN w.places[from][ItemOrder[n]] ELSE 0, 0)]

\* The loops of space_loot_targets: wreck by wreck, item by item.
LootTargets(w, wreck, item) ==
  [m \in 1..Len(w.wrecks) * Len(ItemOrder) |->
     LET k == 1 + ((m - 1) \div Len(ItemOrder))
         i == ItemOrder[1 + ((m - 1) % Len(ItemOrder))]
     IN Entry(i, IF wreck \in {0, k} /\ item \in {"all", i} THEN w.wrecks[k][i] ELSE 0, k)]

\* sell_targets, sell_order_targets: what is in cargo and in storage here.
Sellable(w, i) == w.places["cargo"][i] + w.places["storage"][i]
Depth(book, S) == Total(book, S \cap Prices)
Quoted(book) == {p \in Prices : book[p] > 0}
Asks(w) == [p \in Prices |-> w.asks[p] + w.mine[p]]
Bids(w) == [p \in Prices |-> w.bids[p] + w.wants[p]]

-----------------------------------------------------------------------------
(* Plans: the next call and the phase that awaits its answer, or an end.     *)

Sends(act, of, ph) == [act |-> act, of |-> of, phase |-> ph]
Halts(how) == Sends(how, <<>>, Start)    \* "done", "failed", "again"
Then(name, todo) == [Start EXCEPT !.name = name, !.todo = todo]

\* issue_sell, issue_order_cancel, issue_space_loot, issue_transfer_space_jettison: the
\* first of what is to do, whatever else there is.
Issue(act, ph) == Sends(act, <<Head(ph.todo)>>, ph)
BuyNow(e, name) == Sends("buy", <<e>>, [Start EXCEPT !.name = name, !.buy = e])

PlanBuy ==
  LET cap == errand.at
      asks == Asks(sight)
      depth == Depth(asks, IF cap = 0 THEN Prices ELSE 1..cap)
      qty == IF depth > 0 THEN Least(errand.qty, depth) ELSE errand.qty
  IN IF errand.order
     THEN IF cap = 0 THEN Halts("failed") ELSE BuyNow(Entry(errand.item, errand.qty, cap), "buying")
     ELSE IF (Quoted(asks) = {} /\ Quoted(Bids(sight)) = {}) \/ (cap > 0 /\ depth = 0) THEN Halts("done")
     ELSE BuyNow(Entry(errand.item, qty,
                       IF cap > 0 THEN cap
                       ELSE IF Quoted(asks) # {} THEN Min(Quoted(asks)) ELSE Max(Quoted(Bids(sight)))), "buying")

PlanSell ==
  LET floor == errand.at
      raw == IF errand.qty = 0 THEN Sellable(sight, errand.item) ELSE Least(errand.qty, Sellable(sight, errand.item))
      depth == Depth(Bids(sight), floor..MaxPrice)
      quotes == Quoted(Bids(sight)) \cup Quoted(Asks(sight))
      price == IF floor > 0 THEN floor
               ELSE IF Quoted(Bids(sight)) # {} THEN Max(Quoted(Bids(sight))) ELSE Min(quotes)
      qty == IF floor > 0 /\ ~errand.order THEN Least(raw, depth) ELSE raw
  IN IF errand.order /\ floor = 0 THEN Halts("failed")
     ELSE IF qty = 0 \/ (~errand.order /\ quotes = {}) THEN Halts("done")
     ELSE Issue("sell", Then("selling", <<Entry(errand.item, qty, price)>>))

\* start_cancel_orders; orders are listed in whatever order the game has them.
Listed(ids) == {[n \in DOMAIN s |-> Entry(Traded, 0, s[n])] : s \in SetToSeqs(ids)}
PlanCancel ==
  LET ids == Quoted(IF errand.do = "cancel_sell" THEN sight.mine ELSE sight.wants)
  IN IF ids = {} THEN {Halts("done")}
     ELSE {Issue(errand.do, Then("cancelling_all", todo)) : todo \in Listed(ids)}

\* start_transfer_from_space.
PlanLoot ==
  LET loot == Taken(sight, LootTargets(sight, errand.at, errand.item), "cargo", errand.qty)
  IN IF Free(sight) = 0 \/ loot = <<>> THEN Halts("done") ELSE Issue("loot", Then("looting", loot))

\* start_transfer_item_requests.
PlanTransfer ==
  LET from == errand.from
      fit == Taken(sight, SourceTargets(sight, from, errand.item), errand.to, errand.qty)
  IN IF from = "space" THEN PlanLoot
     ELSE IF errand.item # "all" /\ errand.qty > sight.places[from][errand.item] THEN Halts("failed")
     ELSE IF fit = <<>> THEN Halts("done")
     ELSE IF errand.to = "space" THEN Issue("jettison", Then("jettisoning", fit))
     ELSE Sends("move", fit, Then("storing", fit))

PlanOf ==
  CASE errand.do = "buy" -> {PlanBuy} [] errand.do = "sell" -> {PlanSell}
    [] errand.do = "transfer" -> {PlanTransfer} [] OTHER -> PlanCancel

-----------------------------------------------------------------------------
(* What a planner does with an answer: [is, left (what there is), ids].      *)

Next1(act) ==
  IF Len(phase.todo) > 1 THEN {Issue(act, [phase EXCEPT !.todo = Tail(@)])} ELSE {Halts("done")}

\* continue_buy_order: the orders in the way are those the answer names, else one's own
\* at that price or below.
CrossedBy(ids) == IF ids # {} THEN ids ELSE Quoted(sight.mine) \cap 1..phase.buy.at
OnBuyAnswer(ans) ==
  IF ans.is = "failure" THEN {Halts("failed")}
  ELSE IF ans.is # "crossing" THEN {Halts("done")}
  ELSE IF CrossedBy(ans.ids) = {} THEN {BuyNow(phase.buy, "final")}
  ELSE {Issue("cancel_sell", [name |-> "cancelling", todo |-> todo, buy |-> phase.buy]) : todo \in Listed(CrossedBy(ans.ids))}

\* continue_sell: a refusal that says how much there is, and that is less, is taken up.
OnSellAnswer(ans) ==
  IF ans.is = "insufficient" /\ 0 < ans.left /\ ans.left < Head(phase.todo).qty
  THEN {Issue("sell", [phase EXCEPT !.todo[1].qty = ans.left])}
  ELSE IF ans.is \in {"failure", "insufficient"} THEN {Halts("failed")} ELSE Next1("sell")

\* continue_cancel_then_retry_buy: answers are not looked at, failures are.
OnCancelAnswer(ans) ==
  IF ans.is = "failure" THEN {Halts("failed")}
  ELSE IF Len(phase.todo) > 1 THEN {Issue("cancel_sell", [phase EXCEPT !.todo = Tail(@)])}
  ELSE {Sends("refresh", <<>>, [phase EXCEPT !.name = "refreshing"])}

\* continue_crossing_buy_withdraw.
OnWithdrawAnswer(ans) ==
  IF ans.is = "failure" THEN {Halts("failed")}
  ELSE IF ans.is # "ok" \/ phase.buy.qty = 0 THEN {Halts("done")} ELSE {BuyNow(phase.buy, "final")}

\* continue_space_loot, continue_transfer_space_jettison.
OnLootAnswer(ans) ==
  CASE ans.is = "failure" -> {Halts("failed")} [] ans.is = "missing" -> {Halts("again")}
    [] ans.is = "ok" -> Next1("loot") [] OTHER -> {Halts("done")}
OnJettisonAnswer(ans) ==
  CASE ans.is = "failure" -> {Halts("failed")} [] ans.is = "ok" -> Next1("jettison") [] OTHER -> {Halts("done")}

\* Storage batches and final calls (continue_storage_batch, AwaitFinalCall): an error the
\* game reports is the command's message, not its failure.
OnAnswer(ans) ==
  CASE phase.name = "buying"      -> OnBuyAnswer(ans)
    [] phase.name = "selling"     -> OnSellAnswer(ans)
    [] phase.name = "cancelling"  -> OnCancelAnswer(ans)
    [] phase.name = "withdrawing" -> OnWithdrawAnswer(ans)
    [] phase.name = "cancelling_all" -> IF ans.is = "failure" THEN {Halts("failed")} ELSE Next1(errand.do)
    [] phase.name = "looting"     -> OnLootAnswer(ans)
    [] phase.name = "jettisoning" -> OnJettisonAnswer(ans)
    [] OTHER -> {Halts(IF ans.is = "failure" THEN "failed" ELSE "done")}

\* continue_crossing_buy_refresh, with the snapshot just taken.
\* Mutant: what was withdrawn is bought as well.
BuyAgainInFull(w) ==
  LET b == phase.buy
      n == Least(b.qty, Least(w.places["storage"][b.item], Fit(Free(w), b.item)))
  IN IF n = 0 THEN BuyNow(b, "final")
     ELSE Sends("withdraw", <<Entry(b.item, n, 0)>>, [Start EXCEPT !.name = "withdrawing", !.buy = b])

BuyTheRest(w) ==
  LET b == phase.buy
      n == Least(b.qty, Least(w.places["storage"][b.item], Fit(Free(w), b.item)))
  IN IF n = 0 THEN BuyNow(b, "final")
     ELSE Sends("withdraw", <<Entry(b.item, n, 0)>>, [Start EXCEPT !.name = "withdrawing", !.buy = [b EXCEPT !.qty = @ - n]])

-----------------------------------------------------------------------------
(* Steps. *)

\* Mutant: the next tick plans without having looked.
FollowsBlindly(p) ==
  /\ request' = IF p.act \in {"done", "failed"} THEN Quiet
                ELSE [act |-> IF p.act = "again" THEN "plan" ELSE p.act, of |-> p.of]
  /\ phase' = p.phase
  /\ errand' = IF p.act \in {"done", "failed"} THEN NoErrand ELSE errand

\* A plan is sent, or ends the tick and, but for "again", the command.
Follows(p) ==
  /\ request' = IF p.act \in {"done", "failed"} THEN Quiet
                ELSE [act |-> IF p.act = "again" THEN "look" ELSE p.act, of |-> p.of]
  /\ phase' = p.phase
  /\ errand' = IF p.act \in {"done", "failed"} THEN NoErrand ELSE errand

Give ==
  /\ errand = NoErrand /\ errands < MaxErrands /\ errands' = errands + 1
  /\ errand' \in GoodsJobs /\ phase' = Start /\ request' = [act |-> "look", of |-> <<>>]
  /\ told' = errand' /\ got' = None /\ terms' = {}
  /\ UNCHANGED <<world, sight, meddling>>

LookAround ==
  /\ request.act = "look" /\ sight' = world /\ request' = [act |-> "plan", of |-> <<>>]
  /\ UNCHANGED <<world, errand, phase, told, got, terms, errands, meddling>>

PlanErrand ==
  /\ request.act = "plan" /\ \E p \in PlanOf : Follows(p)
  /\ UNCHANGED <<world, sight, told, got, terms, errands, meddling>>

\* RefreshState between two calls of a buy; it may fail.
RefreshMidway ==
  /\ request.act = "refresh"
  /\ \/ sight' = world /\ Follows(BuyTheRest(world))
     \/ UNCHANGED sight /\ Follows(Halts("failed"))
  /\ UNCHANGED <<world, told, got, terms, errands, meddling>>

\* The game (outside this repository): what a call does, and what it answers.
Matched(book, S, qty, p) == Least(book[p], qty - Least(qty, Depth(book, S)))
LowFirst == [p \in Prices |-> p]
HighFirst == [p \in Prices |-> MaxPrice - p]
Fill(book, rank, S, qty) ==
  [p \in Prices |-> IF p \in S THEN book[p] - Matched(book, {x \in S : rank[x] < rank[p]}, qty, p) ELSE book[p]]
Amount(of, i) == Total([n \in DOMAIN of |-> IF of[n].item = i THEN of[n].qty ELSE 0], DOMAIN of)
Moves(w, from, to, of) ==
  LET gone == [w EXCEPT !.places[from] = [i \in Items |-> @[i] - Amount(of, i)]]
  IN [gone EXCEPT !.places[to] = [i \in Items |-> @[i] + Amount(of, i)]]
Holds(w, from, of) == \A i \in Items : w.places[from][i] >= Amount(of, i)
Fits(w, of) == Free(w) >= Total([n \in DOMAIN of |-> of[n].qty * ItemSize[of[n].item]], DOMAIN of)

Ans(is) == [is |-> is, left |-> 0, ids |-> {}]
\* The world after the call, what it answers, and what it adds to the history.
Refusal(ans) == {[w |-> world, ans |-> ans, got |-> None, at |-> {}]}
Effect(w, of, ps) == {[w |-> w, ans |-> Ans("ok"), got |-> [i \in Items |-> Amount(of, i)], at |-> ps]}

First == Head(request.of)
GameBuys(e) ==
  LET crossed == Quoted(world.mine) \cap 1..e.at
      n == Least(e.qty, Depth(world.asks, 1..e.at))
  IN IF crossed # {} THEN Refusal([Ans("crossing") EXCEPT !.ids = crossed]) \cup Refusal(Ans("crossing"))
     ELSE Effect([world EXCEPT !.asks = Fill(@, LowFirst, 1..e.at, e.qty),
                               !.places["storage"][e.item] = @ + n, !.wants[e.at] = @ + (e.qty - n)],
                 request.of, {e.at})
GameSells(e) ==
  LET n == Least(e.qty, Depth(world.bids, e.at..MaxPrice))
      fromCargo == Least(e.qty, world.places["cargo"][e.item])
  IN IF Sellable(world, e.item) < e.qty
     THEN Refusal([Ans("insufficient") EXCEPT !.left = Sellable(world, e.item)])
     ELSE Effect([world EXCEPT !.bids = Fill(@, HighFirst, e.at..MaxPrice, e.qty),
                               !.mine[e.at] = @ + (e.qty - n),
                               !.places["cargo"][e.item] = @ - fromCargo,
                               !.places["storage"][e.item] = @ - (e.qty - fromCargo)],
                 request.of, {e.at})
GameCancelsSale(e) ==
  IF world.mine[e.at] = 0 THEN Refusal(Ans("error"))
  ELSE Effect([world EXCEPT !.mine[e.at] = 0, !.places["storage"][Traded] = @ + world.mine[e.at]], <<>>, {})
GameCancelsBuy(e) ==
  IF world.wants[e.at] = 0 THEN Refusal(Ans("error")) ELSE Effect([world EXCEPT !.wants[e.at] = 0], <<>>, {})
GameLoots(e) ==
  IF world.wrecks[e.at][e.item] < e.qty THEN Refusal(Ans("missing"))
  ELSE IF Fit(Free(world), e.item) < e.qty THEN Refusal(Ans("full"))
  ELSE Effect([world EXCEPT !.wrecks[e.at][e.item] = @ - e.qty, !.places["cargo"][e.item] = @ + e.qty], request.of, {})
GameJettisons(e) ==
  IF ~Holds(world, "cargo", request.of) THEN Refusal(Ans("error"))
  ELSE Effect([world EXCEPT !.places["cargo"][e.item] = @ - e.qty], request.of, {})
GameMoves(from, to) ==
  IF ~Holds(world, from, request.of) THEN Refusal(Ans("error"))
  ELSE IF to = "cargo" /\ ~Fits(world, request.of) THEN Refusal(Ans("full"))
  ELSE Effect(Moves(world, from, to, request.of), request.of, {})

Outcomes ==
  CASE request.act = "buy"         -> GameBuys(First)
    [] request.act = "sell"        -> GameSells(First)
    [] request.act = "cancel_sell" -> GameCancelsSale(First)
    [] request.act = "cancel_buy"  -> GameCancelsBuy(First)
    [] request.act = "withdraw"    -> GameMoves("storage", "cargo")
    [] request.act = "loot"        -> GameLoots(First)
    [] request.act = "jettison"    -> GameJettisons(First)
    [] OTHER                       -> GameMoves(errand.from, errand.to)

Calling == request.act \in {"buy", "sell", "cancel_sell", "cancel_buy", "withdraw", "loot", "jettison", "move"}

Answers ==
  /\ Calling
  /\ \E o \in Outcomes :
       /\ world' = o.w /\ got' = [i \in Items |-> got[i] + o.got[i]] /\ terms' = terms \cup o.at
       /\ \E p \in OnAnswer(o.ans) : Follows(p)
  /\ UNCHANGED <<sight, told, errands, meddling>>

\* The call fails, before or after it took effect.
Fails ==
  /\ Calling
  /\ \E o \in Outcomes \cup {[w |-> world, got |-> None, at |-> {}]} :
       world' = o.w /\ got' = [i \in Items |-> got[i] + o.got[i]] /\ terms' = terms \cup o.at
  /\ \E p \in OnAnswer(Ans("failure")) : Follows(p)
  /\ UNCHANGED <<sight, told, errands, meddling>>

\* Others: they take from the faction's store, from wrecks and from the book, and add
\* to the book; an own order is filled; goods arrive in storage or leave it.
Meddle ==
  /\ meddling < MaxMeddling /\ meddling' = meddling + 1
  /\ \/ \E i \in Items, s \in Stores : world.places[s][i] > 0 /\ world' = [world EXCEPT !.places[s][i] = @ - 1]
     \/ \E k \in DOMAIN world.wrecks, i \in Items : world.wrecks[k][i] > 0 /\ world' = [world EXCEPT !.wrecks[k][i] = 0]
     \/ \E p \in Prices : world.asks[p] > 0 /\ world' = [world EXCEPT !.asks[p] = @ - 1]
     \/ \E p \in Prices : world.bids[p] > 0 /\ world' = [world EXCEPT !.bids[p] = @ - 1]
     \/ \E p \in Prices : world.mine[p] > 0 /\ world' = [world EXCEPT !.mine[p] = @ - 1]
     \/ world' = [world EXCEPT !.asks[1] = @ + 1]
  /\ UNCHANGED <<sight, errand, phase, request, told, got, terms, errands>>

GoodsNext ==
  Give \/ LookAround \/ PlanErrand \/ RefreshMidway \/ Answers \/ Fails \/ Meddle

GoodsSpec == GoodsInit /\ [][GoodsNext]_goodsVars

\* The step loop goes on, and a call is answered.
GoodsFairness ==
  /\ WF_goodsVars(LookAround) /\ WF_goodsVars(PlanErrand)
  /\ WF_goodsVars(RefreshMidway) /\ WF_goodsVars(Answers \/ Fails)

-----------------------------------------------------------------------------
(* Properties. *)

\* Every command ends, although a sale that was refused is tried again with less,
\* orders in the way are cancelled first, and loot that is gone is waited for.
ErrandsEnd == errand # NoErrand ~> errand = NoErrand

\* Whatever is retried, nothing moves twice: a command buys, orders, withdraws, sells
\* or stores at most what it was told to, never above its highest or below its lowest
\* price.  (Not so loot: a search that starts over has forgotten what it took.)
KeepsToTheOrder ==
  told # NoErrand =>
    /\ told.qty > 0 /\ told.from # "space" => Total(got, Items) <= told.qty
    /\ told.do = "buy" /\ told.at > 0 => \A p \in terms : p <= told.at
    /\ told.do = "sell" => \A p \in terms : p >= told.at

\* Calls planned from one snapshot go together: as long as nobody else touched the hold
\* or the stores, none of them asks for more than is there or for more than fits.
PlansFit ==
  meddling = 0 /\ phase.name \in {"storing", "looting", "jettisoning", "withdrawing"} /\ Calling =>
    /\ errand.to = "cargo" => Fits(world, IF phase.name = "looting" THEN phase.todo ELSE request.of)
    /\ phase.name = "storing" => Holds(world, errand.from, request.of)
    /\ phase.name = "withdrawing" => Holds(world, "storage", request.of) /\ Fits(world, request.of)
    /\ phase.name = "looting" => \A n \in DOMAIN phase.todo : world.wrecks[phase.todo[n].at][phase.todo[n].item] >= phase.todo[n].qty
    /\ phase.name = "jettisoning" => Holds(world, "cargo", phase.todo)
=============================================================================
