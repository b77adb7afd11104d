--------------------------- MODULE ScriptAnalysis ---------------------------
(***************************************************************************)
(* The command catalog, the validator and the analyzer of PrayerLang, and  *)
(* PrayerLangRun.load, which takes a statement through all of them.        *)
(***************************************************************************)
EXTENDS Lang, TLC

Unknown == "<unknown>"
NothingKnown == [kind \in {"item", "go", "poi", "ship", "module", "recipe", "listing", "mission", "owned"} |-> {}]
-----------------------------------------------------------------------------
(* The catalog: the kinds of each command's arguments and how many of them *)
(* it needs, in the order of the source.                                   *)

Takes(names, kinds, needs) == [c \in names |-> [kinds |-> kinds, needs |-> needs]]
Needs(names, kinds) == Takes(names, kinds, Len(kinds))

SimpleCommands ==
  Needs({"refit_ship", "release_wreck", "faction_leave", "espionage"}, <<>>)
  @@ Needs({"hunt", "cancel_craft_job", "cancel_commission", "cancel_ship_buy_order", "citizenship_apply",
            "citizenship_withdraw", "citizenship_renounce", "trade_accept", "faction_withdraw_invite",
            "faction_propose_ally", "faction_accept_ally", "faction_remove_ally", "faction_accept_peace",
            "faction_set_enemy", "faction_remove_enemy"}, <<"any">>)
  @@ Needs({"prepay_tax", "insure_ship", "faction_prepay_tax"}, <<"integer">>)
  @@ Needs({"cancel_ship_listing"}, <<"listing">>) @@ Needs({"faction_cancel_mission"}, <<"mission">>)
  @@ Needs({"scan_poi"}, <<"poi">>) @@ Needs({"place_ship_buy_order"}, <<"any", "integer">>)
  @@ Needs({"sell_ship_to_order"}, <<"any", "ship">>) @@ Takes({"cloak"}, <<"any">>, 0)
  @@ Takes({"faction_declare_war", "faction_propose_peace"}, <<"any", "any">>, 1)

TravelCommands ==
  Needs({"survey", "dock", "undock", "set_home", "self_destruct"}, <<>>)
  @@ Needs({"supply_commission"}, <<"any", "item", "integer">>)
  @@ Takes({"trade_offer"}, [i \in 1..21 |-> "any"], 1)
  @@ Takes({"mine"}, <<"item">>, 0) @@ Takes({"scan", "find"}, <<"any">>, 0)
  @@ Needs({"attack"}, <<"any">>) @@ Needs({"go"}, <<"go">>)
  @@ Needs({"accept_mission", "abandon_mission", "decline_mission", "complete_mission"}, <<"mission">>)
  @@ Takes({"repair"}, <<"any", "item", "integer">>, 0) @@ Needs({"repair_module"}, <<"module">>)
  @@ Takes({"recycle"}, <<"recipe", "integer">>, 1) @@ Takes({"refuel"}, <<"any", "integer">>, 0)
  @@ Needs({"load_passenger"}, <<"poi">>) @@ Takes({"unload_passenger"}, <<"any", "any">>, 1)
  @@ Takes({"sell"}, <<"item", "integer", "integer", "any">>, 0)

TradeCommands ==
  Takes({"buy"}, <<"item", "integer", "integer", "any">>, 2)
  @@ Needs({"cancel_buy", "cancel_sell"}, <<"item">>)
  @@ Needs({"faction_invite", "faction_accept_invite", "faction_kick", "facility_build", "faction_facility_build",
            "facility_dismantle", "faction_facility_dismantle"}, <<"any">>)
  @@ Needs({"faction_create", "faction_set_role", "found_station", "facility_upgrade", "faction_facility_upgrade",
            "facility_set_access", "facility_set_name"}, <<"any", "any">>)
  @@ Needs({"facility_set_output_price"}, <<"any", "item", "integer">>)
  @@ Takes({"use_item"}, <<"item", "integer">>, 1)

ShipCommands ==
  Needs({"switch_ship", "sell_ship", "scrap_ship"}, <<"ship">>)
  @@ Needs({"install_mod", "uninstall_mod"}, <<"module">>) @@ Needs({"buy_ship", "buy_listed_ship"}, <<"listing">>)
  @@ Needs({"rename_ship", "cancel_order", "salvage_wreck", "tow_wreck"}, <<"any">>)
  @@ Needs({"scrap_wreck", "sell_wreck"}, <<>>) @@ Takes({"commission_ship"}, <<"any", "any">>, 1)
  @@ Needs({"list_ship_for_sale"}, <<"ship", "integer">>) @@ Needs({"modify_order"}, <<"any", "integer">>)
  @@ Takes({"craft"}, <<"recipe", "integer">>, 1) @@ Takes({"distress_signal"}, <<"any">>, 0)
  @@ Takes({"say"}, <<"any", "any", "any">>, 2)

Catalog == SimpleCommands @@ TravelCommands @@ TradeCommands @@ ShipCommands

(* The last argument of find may be given again.                           *)
KindOf(name, i) == IF name = "find" THEN "any" ELSE Catalog[name].kinds[i]

Valid(a) ==
  LET name == Lower(a.head) IN
  a.node = "command" =>
    /\ name \in DOMAIN Catalog
    /\ Len(a.args) >= Catalog[name].needs
    /\ name # "find" => Len(a.args) <= Len(Catalog[name].kinds)
    /\ \A i \in DOMAIN a.args : KindOf(name, i) = "integer" => a.args[i] \in Signed \cap Unsigned
-----------------------------------------------------------------------------
(* The analyzer.  A name is accepted as it is where nothing of its kind is *)
(* known.                                                                  *)

Same(v, w) == v = w \/ \E s \in SameName : {v, w} \subseteq s

\* A mutation: a name is refused where nothing of its kind is known.
ResolveStrictly(kind, w, k) ==
  LET matches == {c \in k[kind] : Same(c, w)}
  IN  IF kind \in {"any", "integer"} THEN w ELSE IF matches = {} THEN Unknown ELSE CHOOSE c \in matches : TRUE

Resolve(kind, w, k) ==
  LET matches == {c \in k[kind] : Same(c, w)}
  IN  IF kind \in {"any", "integer"} \/ k[kind] = {} THEN w
      ELSE IF matches = {} THEN Unknown ELSE CHOOSE c \in matches : TRUE

AnalyzeCommand(a, k) ==
  LET args == [i \in DOMAIN a.args |-> Resolve(KindOf(Lower(a.head), i), a.args[i], k)]
  IN  IF IsIn(Unknown, args) THEN NoNode ELSE Command(a.head, args)

AnalyzeJob(a, k) ==
  LET recipe == Resolve("recipe", a.recipe, k)
  IN  IF recipe = Unknown THEN NoNode ELSE [a EXCEPT !.recipe = recipe]

Channels == {"system", "local", "faction", "private"}
AnalyzeSay(a) ==
  IF a.channel \in Channels /\ (a.channel = "private" <=> a.target # <<>>)
  THEN a ELSE NoNode

(* A ship that is given away may be named like an item.                    *)
TransferItem(w, gift, k) ==
  LET item == Resolve("item", w, k)
  IN  IF gift /\ (k["item"] = {} \/ (item = Unknown /\ k["ship"] # {})) THEN Resolve("ship", w, k) ELSE item

TransferEnds(t) ==
  CASE t.from = <<>> /\ t.to = <<>> -> <<<<"cargo">>, IF t.subject[1] = "credits" THEN <<"cargo">> ELSE <<"storage">>>>
    [] t.from # <<>> /\ t.to = <<>> -> <<t.from, <<"cargo">>>>
    [] t.from = <<>> /\ t.to # <<>> -> <<<<"cargo">>, t.to>>
    [] OTHER -> <<t.from, t.to>>

EndsFit(subject, items, from, to) ==
  /\ from # to
  /\ subject[1] = "credits" => {from[1], to[1]} \cap {"storage", "space"} = {}
  /\ subject[1] = "ship" => /\ from[1] \in {"cargo", "storage"}
                            /\ to[1] = "player" \/ to = <<"faction">>
  /\ subject[1] = "module" => from[1] = "space" /\ Len(from) = 2 /\ to = <<"cargo">>
  /\ to[1] = "commission" => from = <<"cargo">> /\ subject[1] = "item" /\ Len(subject) = 3
  /\ items # <<>> => subject = <<"all">> /\ from = <<"cargo">> /\ to # <<"cargo">>
  /\ from[1] = "space" => to = <<"cargo">>
  /\ to[1] = "space" => from = <<"cargo">>

AnalyzeTransfer(t, k) ==
  LET ends  == TransferEnds(t)
      gift  == t.subject[1] = "item" /\ Len(t.subject) = 2 /\ ends[2][1] = "player"
      item  == TransferItem(t.subject[2], gift, k)
      items == [i \in DOMAIN t.items |-> <<TransferItem(t.items[i][1], FALSE, k), t.items[i][2]>>]
      subject == IF t.subject[1] # "item" THEN t.subject
                 ELSE IF gift /\ item \in k["owned"] THEN <<"ship", item>> ELSE [t.subject EXCEPT ![2] = item]
      counts == {items[i][2] : i \in DOMAIN items} \cup (CASE t.subject[1] = "credits" -> {t.subject[2]}
                  [] t.subject[1] = "item" -> {t.subject[i] : i \in {3} \cap DOMAIN t.subject} [] OTHER -> {})
  IN  IF /\ ~IsIn(Unknown, subject) /\ \A i \in DOMAIN items : items[i][1] # Unknown
         /\ counts \subseteq Positive /\ EndsFit(subject, items, ends[1], ends[2])
      THEN [t EXCEPT !.subject = subject, !.items = items, !.from = ends[1], !.to = ends[2]] ELSE NoNode

Analyze(a, k) ==
  CASE a.node = "command" -> AnalyzeCommand(a, k)
    [] a.node = "transfer" -> AnalyzeTransfer(a, k)
    [] a.node \in {"craft", "recycle"} -> AnalyzeJob(a, k)
    [] a.node = "say" -> AnalyzeSay(a)
    [] OTHER -> a

(* Parse, normalise, parse again, validate, analyse.                       *)
Load(text, k) ==
  LET first  == Parse(text)
      normal == Normalize(first)
      second == Parse(normal)
  IN  IF first # NoNode /\ second # NoNode /\ Valid(second) /\ Analyze(second, k) # NoNode
      THEN [source |-> normal, meaning |-> Analyze(second, k)]
      ELSE [source |-> text, meaning |-> NoNode]

Reanalyze(src, k) == LET a == Parse(src) IN IF a # NoNode /\ Valid(a) THEN Analyze(a, k) ELSE NoNode
=============================================================================
