--------------------------- MODULE ScriptActions ---------------------------
(***************************************************************************)
(* The typed actions of the scheduler (prayer-actions) and the five ways   *)
(* in and out of them: an analysed statement compiled straight into one    *)
(* (prayer-lang/src/compiler.rs), the positional argument list a decision  *)
(* makes of a statement and the one every later tick makes of the action,  *)
(* the action made of such a list (prayer-runtime/src/                     *)
(* action_resolution.rs), what the planner reads in it, and the text that  *)
(* is printed for it (prayer-lang/src/action_projection.rs).               *)
(*                                                                         *)
(* The actions with fields use the nodes of Lang; all others are "do".     *)
(***************************************************************************)
EXTENDS ScriptAnalysis

Do(name, args) == [node |-> "do", name |-> name, args |-> args]
Bought(item, quantity, price, order, to) ==
  [node |-> "buy", item |-> item, quantity |-> quantity, price |-> price, order |-> order, to |-> to]
Job(head, recipe, quantity, source, to, facility, preset) ==
  [node |-> head, recipe |-> recipe, quantity |-> quantity, source |-> source, to |-> to,
   facility |-> facility, preset |-> preset]
Service(head, target, item, quantity) == [node |-> head, target |-> target, item |-> item, quantity |-> quantity]
Commission(class, materials) == [node |-> "commission_ship", class |-> class, materials |-> materials]
Said(content, channel, target) == [node |-> "say", content |-> content, channel |-> channel, target |-> target]
-----------------------------------------------------------------------------
(* Commands into actions.                                                  *)

\* Internal actions, which the catalog does not have.
Internal == {"halt", "wait"}

ArgsFit(name, args) ==
  IF name \in Internal THEN Len(args) <= 1 /\ \A i \in DOMAIN args : args[i] \in Unsigned
  ELSE /\ name \in DOMAIN Catalog /\ Len(args) >= Catalog[name].needs
       /\ \A i \in DOMAIN args \cap DOMAIN Catalog[name].kinds :
            KindOf(name, i) = "integer" => args[i] \in Unsigned

\* trade_offer: a target, then triples of a side and credits or items.
TradeParts(args, side, credits) ==
  SelectSeq([n \in 1..(Len(args) \div 3) |-> 3 * n - 1], LAMBDA i : args[i] = side /\ (args[i + 1] = "credits") = credits)

TradeOffer(args) ==
  LET Credits(side) == LET at == TradeParts(args, side, TRUE) IN [n \in DOMAIN at |-> args[at[n] + 2]]
      Goods(side)   == LET at == TradeParts(args, side, FALSE) IN [n \in DOMAIN at |-> <<args[at[n] + 1], args[at[n] + 2]>>]
      Fits(i) == /\ args[i] \in {"offer", "request"}
                 /\ (IF args[i + 1] = "credits" THEN args[i + 2] ELSE args[i + 1]) \in Unsigned
  IN  IF Len(args) = 1
      THEN [node |-> "trade_offer", target |-> args[1], offerCredits |-> <<"1">>, offers |-> <<>>,
            requestCredits |-> <<>>, requests |-> <<>>]
      ELSE IF Len(args) % 3 = 1 /\ (\A n \in 1..(Len(args) \div 3) : Fits(3 * n - 1))
              /\ Len(Credits("offer")) <= 1 /\ Len(Credits("request")) <= 1
      THEN [node |-> "trade_offer", target |-> args[1], offerCredits |-> Credits("offer"), offers |-> Goods("offer"),
            requestCredits |-> Credits("request"), requests |-> Goods("request")]
      ELSE NoNode

CommandAction(name, args) ==
  CASE ~ArgsFit(name, args) -> NoNode
    [] name = "buy" -> Bought(args[1], args[2], Option(args, 3), Option(args, 4) = <<"order">>, <<>>)
    [] name = "sell" -> SellNode(Option(args, 1), Option(args, 2), Option(args, 3), Option(args, 4) = <<"order">>)
    [] name \in {"craft", "recycle"} ->
         Job(name, args[1], IF Len(args) = 1 THEN "1" ELSE args[2], <<>>, <<>>, <<>>, <<>>)
    [] name = "repair" -> Service(name, Option(args, 1), Option(args, 2), Option(args, 3))
    [] name = "refuel" -> IF args # <<>> /\ args[1] \in Unsigned THEN Service(name, <<>>, <<>>, <<args[1]>>)
                          ELSE Service(name, Option(args, 1), <<>>, Option(args, 2))
    [] name = "commission_ship" -> Commission(args[1], FALSE)
    [] name = "say" -> Said(args[1], args[2], Option(args, 3))
    [] name = "trade_offer" -> TradeOffer(args)
    [] name = "wait" -> Do(name, IF args = <<>> THEN <<"1">> ELSE args)
    [] name = "use_item" -> Do(name, IF Len(args) = 1 THEN <<args[1], "1">> ELSE args)
    [] name = "cloak" -> Do(name, IF args = <<"off">> THEN args ELSE <<"on">>)
    [] name = "found_station" -> IF args[2] \in {"true", "false"} THEN Do(name, args) ELSE NoNode
    [] OTHER -> Do(name, args)

(* AnalyzedProgram::compile, of one statement.                             *)
Compile(a) == IF a.node = "command" THEN CommandAction(Lower(a.head), a.args) ELSE a
-----------------------------------------------------------------------------
(* Argument lists.  "deliver_to" and the like are texts key=value.         *)

Num(w) == [kind |-> "integer", w |-> w]
Text(w) == [kind |-> "any", w |-> w]
Keyed(key, option) == [i \in DOMAIN option |-> [kind |-> key, w |-> option[i]]]
Nums(words) == [i \in DOMAIN words |-> Num(words[i])]
Texts(words) == [i \in DOMAIN words |-> Text(words[i])]
End(endpoint) == [kind |-> "endpoint", ends |-> endpoint]
Mode(order) == Texts(Ordered(order))

AsText(arg) == IF arg.kind \in {"integer", "any"} THEN arg.w ELSE "="
IsText(arg) == arg.kind # "integer"

TransferArgs(t) ==
  (IF t.items # <<>>
   THEN <<Text("items")>> \o [i \in 1..(2 * Len(t.items)) |->
          LET entry == t.items[(i + 1) \div 2] IN IF i % 2 = 1 THEN Text(entry[1]) ELSE Num(entry[2])]
   ELSE CASE t.subject[1] = "credits" -> <<Text("credits"), Num(t.subject[2])>>
          [] t.subject[1] = "item" -> <<Text("item"), Text(t.subject[2]),
                                        IF Len(t.subject) = 3 THEN Num(t.subject[3]) ELSE Text("all")>>
          [] OTHER -> Texts(t.subject))
  \o <<End(t.from), End(t.to)>>

\* A mutation: the two stores of a job are swapped.
JobArgsSwapped(j) ==
  <<Text(j.recipe), Num(j.quantity)>> \o Keyed("deliver_to", j.source) \o Keyed("source", j.to)
  \o Keyed("facility_id", j.facility) \o Keyed("preset", j.preset)

JobArgs(j) ==
  <<Text(j.recipe), Num(j.quantity)>> \o Keyed("deliver_to", j.to) \o Keyed("source", j.source)
  \o Keyed("facility_id", j.facility) \o Keyed("preset", j.preset)

CommandArgs(name, args) ==
  [i \in DOMAIN args |-> IF name \in Internal \/ KindOf(name, i) = "integer" THEN Num(args[i]) ELSE Text(args[i])]

(* What every tick after the first makes of the action, and an override    *)
(* and a batch in every tick.                                              *)
ResolveArgs(x) ==
  CASE x.node = "do" -> CommandArgs(x.name, x.args)
    [] x.node = "buy" -> <<Text(x.item), Num(x.quantity)>> \o Nums(x.price) \o Mode(x.order) \o Keyed("deliver_to", x.to)
    [] x.node = "sell" -> Texts(x.item) \o Nums(x.quantity) \o Nums(x.price) \o Mode(x.order)
    [] x.node \in {"craft", "recycle"} -> JobArgs(x)
    [] x.node \in {"repair", "refuel"} -> Texts(x.target) \o Texts(x.item) \o Nums(x.quantity)
    [] x.node = "commission_ship" -> Texts(<<x.class>> \o (IF x.materials THEN <<"materials">> ELSE <<>>))
    [] x.node = "say" -> Texts(<<x.content, x.channel>> \o x.target)
    [] x.node = "trade_offer" -> <<[kind |-> "json", request |-> x]>>
    [] x.node = "transfer" -> TransferArgs(x)

(* A number beyond an i64 makes an action that has no argument list.       *)
Representable(x) ==
  x.node # "trade_offer" => LET args == ResolveArgs(x)
                            IN  \A i \in DOMAIN args : args[i].kind = "integer" => args[i].w \in Signed

(* What the tick of the decision makes of the analysed statement.          *)
Wrapped(w) == IF w \in Signed THEN w ELSE "-1"
ScriptArgs(a) ==
  CASE a.node = "command" -> CommandArgs(a.head, a.args)
    [] a.node = "craft" -> JobArgs([a EXCEPT !.quantity = Wrapped(@), !.to = IF @ = <<>> THEN <<"storage">> ELSE @])
    [] OTHER -> ResolveArgs(a)
-----------------------------------------------------------------------------
(* An argument list into the action that is put in the scheduler.          *)

NameOf(a) == CASE a.node = "command" -> a.head [] a.node = "do" -> a.name [] OTHER -> a.node

TypedTransfer(args) ==
  LET n == Len(args)
      from == args[n - 1].ends
      to == args[n].ends
      Typed(subject, items) == [node |-> "transfer", subject |-> subject, items |-> items, from |-> from, to |-> to]
  IN  CASE args[1].w = "module" \/ "commission" \in {from[1], to[1]} -> NoNode
        [] args[1].w = "items" ->
             Typed(<<"all">>, [i \in 1..((n - 3) \div 2) |-> <<args[2 * i].w, args[2 * i + 1].w>>])
        [] args[1].w = "item" ->
             Typed(IF args[3] = Text("all") THEN <<"item", args[2].w>> ELSE <<"item", args[2].w, args[3].w>>, <<>>)
        [] OTHER -> Typed([i \in 1..(n - 2) |-> args[i].w], <<>>)

Materialize(name, args) ==
  IF name = "transfer" THEN TypedTransfer(args)
  ELSE CommandAction(name, [i \in DOMAIN args |-> AsText(args[i])])
-----------------------------------------------------------------------------
(* What the planner reads in an argument list.                             *)

AtLeastOne(w) == IF w \in Positive THEN w ELSE "1"
PositiveAt(args, i) ==
  IF i \in DOMAIN args /\ args[i].kind \in {"integer", "any"} /\ args[i].w \in Positive THEN <<args[i].w>> ELSE <<>>

\* The fourth argument, if it is a text, must say order.
ModeFits(args) == 4 \in DOMAIN args /\ IsText(args[4]) => args[4] = Text("order")
Orders(args) == 4 \in DOMAIN args /\ args[4] = Text("order")

ReadBuy(args) ==
  LET price == PositiveAt(args, 3)
      to == IF Orders(args) /\ 5 \in DOMAIN args /\ args[5].kind = "deliver_to" THEN <<args[5].w>> ELSE <<>>
  IN  IF ModeFits(args) /\ (Orders(args) => price # <<>>)
      THEN Bought(args[1].w, AtLeastOne(args[2].w), price, Orders(args), to) ELSE NoNode

ReadSell(args) ==
  LET item == IF args # <<>> /\ IsText(args[1]) THEN <<args[1].w>> ELSE <<>>
      price == PositiveAt(args, 3)
  IN  IF ModeFits(args) /\ (Orders(args) => price # <<>>)
      THEN SellNode(item, IF item = <<>> THEN <<>> ELSE PositiveAt(args, 2), price, Orders(args)) ELSE NoNode

ReadJob(name, args) ==
  LET Value(key) == LET at == {i \in 3..Len(args) : args[i].kind = key} IN {args[i].w : i \in at}
      Last(key) == IF Value(key) = {} THEN <<>> ELSE <<CHOOSE w \in Value(key) : TRUE>>
  IN  IF Len(args) < 2 THEN NoNode
      ELSE Job(name, args[1].w, args[2].w, Last("source"),
               IF Last("deliver_to") = <<>> THEN <<"storage">> ELSE Last("deliver_to"),
               Last("facility_id"), IF name = "recycle" THEN <<>> ELSE Last("preset"))

ReadService(name, args) ==
  LET words == [i \in DOMAIN args |-> AsText(args[i])]
  IN  CASE name = "repair" -> Service(name, Option(words, 1), Option(words, 2), Option(words, 3))
        [] Len(args) = 1 /\ ~IsText(args[1]) -> Service(name, <<>>, <<>>, words)
        [] Len(args) > 2 -> NoNode
        [] OTHER -> Service(name, Option(words, 1), <<>>, Option(words, 2))

ReadTransfer(args) ==
  LET n == Len(args)
      Typed(subject, items) ==
        [node |-> "transfer", subject |-> subject, items |-> items, from |-> args[n - 1].ends, to |-> args[n].ends]
  IN  CASE "ship" \in {args[n - 1].ends[1], args[n].ends[1]} -> NoNode
        [] args[1].w = "items" ->
             Typed(<<"all">>, [i \in 1..((n - 3) \div 2) |-> <<args[2 * i].w, args[2 * i + 1].w>>])
        [] args[1].w = "item" /\ args[3] = Text("all") -> Typed(<<"item", args[2].w>>, <<>>)
        [] OTHER -> Typed([i \in 1..(n - 2) |-> args[i].w], <<>>)

Reading(name, args) ==
  LET words == [i \in DOMAIN args |-> AsText(args[i])]
  IN  CASE name = "buy" -> ReadBuy(args)
        [] name = "sell" -> ReadSell(args)
        [] name \in {"craft", "recycle"} -> ReadJob(name, args)
        [] name \in {"repair", "refuel"} -> ReadService(name, args)
        [] name = "transfer" -> ReadTransfer(args)
        [] name = "trade_offer" -> IF args[1].kind = "json" THEN args[1].request ELSE NoNode
        [] name = "commission_ship" -> Commission(words[1], Option(words, 2) = <<"materials">>)
        [] name = "say" -> IF words[2] \in Channels /\ (words[2] = "private" => Len(words) = 3)
                           THEN Said(words[1], words[2], Option(words, 3)) ELSE NoNode
        [] name = "cloak" -> Do(name, IF words = <<"off">> THEN words ELSE <<"on">>)
        [] name = "found_station" -> Do(name, <<words[1], IF words[2] = "true" THEN "true" ELSE "false">>)
        [] name = "use_item" -> Do(name, IF Len(words) = 1 THEN <<words[1], "1">> ELSE words)
        [] OTHER -> Do(name, words)

(* What an action means, its defaults written out.                         *)
Meaning(x) ==
  CASE x.node \in {"craft", "recycle"} ->
         [x EXCEPT !.to = IF @ = <<>> THEN <<"storage">> ELSE @, !.preset = IF x.node = "recycle" THEN <<>> ELSE @]
    [] x.node = "buy" -> [x EXCEPT !.quantity = AtLeastOne(@)]
    [] OTHER -> x
-----------------------------------------------------------------------------
(* The text that is shown for an action.                                   *)

Unreadable == Statement("", <<>>)   \* a block followed by its clauses

RenderTransfer(t) ==
  LET subject == CASE t.subject[1] = "item" -> Tail(t.subject) [] OTHER -> t.subject
  IN  IF t.items # <<>> THEN Unreadable
      ELSE Statement("transfer", subject \o <<"from">> \o t.from \o <<"to">> \o t.to)

\* A mutation: a refuel of another ship is printed without its "to".
RenderServiceShort(s) ==
  Statement(s.node,
    CASE s.node = "refuel" -> s.quantity \o s.target
      [] s.target = <<>> -> <<>>
      [] OTHER -> s.target \o With("with", s.item) \o (IF s.item = <<>> THEN <<>> ELSE s.quantity))

RenderService(s) ==
  Statement(s.node,
    CASE s.node = "refuel" -> s.quantity \o With("to", s.target)
      [] s.target = <<>> -> <<>>
      [] OTHER -> s.target \o With("with", s.item) \o (IF s.item = <<>> THEN <<>> ELSE s.quantity))

RenderTrade(x) ==
  LET All(side, list) == [i \in 1..(3 * Len(list)) |->
        IF i % 3 = 1 THEN side ELSE list[(i + 2) \div 3][IF i % 3 = 2 THEN 1 ELSE 2]]
      Credits(side, option) == IF option = <<>> THEN <<>> ELSE <<side, "credits", option[1]>>
  IN  Statement(x.node, <<x.target>> \o Credits("offer", x.offerCredits) \o All("offer", x.offers)
                        \o Credits("request", x.requestCredits) \o All("request", x.requests))

RenderCommand(x) ==
  Statement(x.name,
    CASE x.name = "cloak" -> IF x.args = <<"off">> THEN x.args ELSE <<>>
      [] x.name = "modify_order" -> <<x.args[1], "at", x.args[2]>>
      [] x.name = "unload_passenger" -> <<x.args[1]>> \o With("to", Option(x.args, 2))
      [] OTHER -> x.args)

Render(x) ==
  CASE x.node = "do" -> RenderCommand(x)
    [] x.node \in {"repair", "refuel"} -> RenderService(x)
    [] x.node = "trade_offer" -> RenderTrade(x)
    [] x.node = "transfer" -> RenderTransfer(x)
    [] x.node \in {"craft", "recycle"} -> Statement(x.node, <<x.recipe, x.quantity>> \o JobClauses(x))
    [] OTHER -> Normalize(x)
=============================================================================
