---------------------------- MODULE VirtualOrders ----------------------------
(***************************************************************************)
(* The orders a faction keeps with itself (prayer-runtime, knowledge/      *)
(* virtual_market.rs and crafting.rs; prayer-sdk, knowledge/virtual_market *)
(* and knowledge/crafting): what an order is when it is put, how much of   *)
(* it is open, and what holding, filling, releasing and settling do to it. *)
(*                                                                         *)
(* All orders are for one item at one station.  Market and craft orders    *)
(* are kept in two lists with the same operations; the side tells them     *)
(* apart.  Status texts and reservation ids, which nothing reads, are left *)
(* out.                                                                    *)
(***************************************************************************)
EXTENDS Integers

Unknown == -1   \* storage nobody has looked at

MarketSides == {"buy", "sell", "buy_until", "sell_until"}
CraftActions == {"craft", "craft_until", "commission_until", "credit_floor"}

\* tipping is 0 when there is no tipping point.
VirtualOrders ==
  [side : MarketSides \cup CraftActions, quantity : Int, tipping : Int, dumping : BOOLEAN,
   reserved : Int, filled : Int, enabled : BOOLEAN, internal : BOOLEAN]

Positive(n) == IF n > 0 THEN n ELSE 0
Least(a, b) == IF a < b THEN a ELSE b

Fixed(o)     == o.side \in {"buy", "sell", "craft"}
Unlimited(o) == o.side \in {"buy_until", "sell_until", "craft_until"}

\* normalize_virtual_order, normalize_virtual_craft_order.
Normalized(o) ==
  LET filled == IF Fixed(o) THEN Least(Positive(o.filled), o.quantity) ELSE 0
      tips == o.side = "sell_until" /\ o.tipping > 0
  IN [o EXCEPT !.filled = filled,
               !.reserved = CASE Fixed(o) -> Least(Positive(o.reserved), o.quantity - filled)
                              [] o.side = "credit_floor" -> 0
                              [] OTHER -> Positive(o.reserved),
               !.tipping = IF tips THEN o.tipping ELSE 0,
               !.dumping = tips /\ o.dumping]
Kept(o) == o.quantity > 0

\* fixed_virtual_order_is_settled; craft orders are not pruned.
SettledFor(o) == o.side \in {"buy", "sell"} /\ Positive(o.reserved) = 0 /\ Positive(o.filled) >= o.quantity
Pruned(book) == [id \in {i \in DOMAIN book : ~SettledFor(book[i])} |-> book[id]]

FixedLeft(o) == o.quantity - Positive(o.reserved) - Positive(o.filled)

\* virtual_market_order_open_quantity_for_actor: what the storage allows.
OpenForActor(o, storage) ==
  CASE o.side = "sell" -> IF storage = Unknown THEN FixedLeft(o) ELSE Least(FixedLeft(o), storage)
    [] o.side = "buy" -> FixedLeft(o)
    [] o.side = "buy_until" -> o.quantity - Positive(storage) - Positive(o.reserved)
    [] o.side = "sell_until" ->
         LET excess == Positive(storage) - o.quantity
         IN IF o.tipping > 0 /\ (excess <= 0 \/ (~o.dumping /\ excess < o.tipping)) THEN 0
            ELSE excess - Positive(o.reserved)
    [] OTHER -> 0

\* virtual_order_open_quantity: less what movements have claimed of the storage.
OpenQuantity(o, storage, claimed) ==
  CASE o.side = "sell" /\ storage # Unknown -> Least(OpenForActor(o, storage), Positive(storage - claimed))
    [] o.side = "sell_until" -> OpenForActor(o, storage) - claimed
    [] OTHER -> OpenForActor(o, storage)

\* reconcile_virtual_order_dump_modes, with every look at the storage.
DumpModes(book, storage) ==
  [id \in DOMAIN book |->
     LET o == book[id]  excess == Positive(storage) - o.quantity
     IN IF o.side = "sell_until" /\ o.tipping > 0
        THEN [o EXCEPT !.dumping = excess > 0 /\ (excess >= o.tipping \/ @)] ELSE o]

\* reserve_virtual_orders_detailed: an order holds all that is asked, or nothing.
Accepts(o, n) == Unlimited(o) \/ n <= FixedLeft(o)

\* What is held of an order; an order with a tipping point is dumped from then on.
WithHeld(o, n) ==
  [o EXCEPT !.reserved = @ + n, !.dumping = @ \/ (n > 0 /\ o.side = "sell_until" /\ o.tipping > 0)]
HeldEach(book, uses) ==
  [id \in DOMAIN book |-> IF uses[id] > 0 /\ Accepts(book[id], uses[id])
                         THEN WithHeld(book[id], uses[id]) ELSE book[id]]

\* reserve_virtual_order_uses_atomic: all or none.
HoldsAll(book, uses) ==
  \A id \in DOMAIN uses : uses[id] > 0 =>
    /\ id \in DOMAIN book /\ book[id].side \in MarketSides
    /\ Unlimited(book[id]) \/ FixedLeft(book[id]) >= uses[id]

\* fill_virtual_order and release_virtual_order.
FilledByHand(o) ==
  [o EXCEPT !.filled = IF Unlimited(o) THEN 0 ELSE @ + Positive(o.reserved), !.reserved = 0]
ReleasedByHand(o) == [o EXCEPT !.reserved = 0]

\* Mutant: a movement that ends without success leaves the amount held.
SettledOnlyIfDone(o, n, done) ==
  [o EXCEPT !.reserved = IF done THEN @ - n ELSE @,
            !.filled = IF done /\ ~Unlimited(o) THEN Least(@ + n, o.quantity) ELSE @]

\* settle_virtual_order_uses, for one order.
Settled(o, n, done) ==
  IF n = 0 \/ o.side \notin MarketSides THEN o
  ELSE [o EXCEPT !.reserved = @ - n,
                 !.filled = IF done /\ ~Unlimited(o) THEN Least(@ + n, o.quantity) ELSE @]
=============================================================================
