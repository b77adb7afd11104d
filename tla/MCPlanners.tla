---------------------------- MODULE MCPlanners ----------------------------
(* From the text of a command to its planner.  Commands that move a ship    *)
(* and commands that move goods share no state but the ship's place, which  *)
(* goods do not change, and what a text means is told without the world:    *)
(* each behaviour runs one kind.                                            *)
EXTENDS Travel, Goods, ScriptMeaning

VARIABLE kind

PlannersInit ==
  /\ TravelInit /\ GoodsInit /\ LangInit
  /\ kind \in {"travel", "goods", "text"}
  /\ kind # "goods" => world = CHOOSE w \in Scenes : TRUE
  /\ kind # "travel" => galaxy = Len(Galaxies)
  /\ kind # "text" => idents = NothingKnown
PlannersNext ==
  /\ UNCHANGED kind
  /\ \/ kind = "travel" /\ TravelNext /\ UNCHANGED <<goodsVars, langVars>>
     \/ kind = "goods" /\ GoodsNext /\ UNCHANGED <<travelVars, langVars>>
     \/ kind = "text" /\ LangNext /\ UNCHANGED <<travelVars, goodsVars>>
PlannersSpec ==
  PlannersInit /\ [][PlannersNext]_<<travelVars, goodsVars, langVars, kind>> /\ TravelFairness /\ GoodsFairness

\* Every command ends: none walks in circles, waits for itself or forgets what it was
\* doing, wherever ships are and whatever answers are lost - although a sale that was
\* refused is tried again with less, orders in the way are cancelled first, and loot that
\* is gone is waited for.
PlannersEnd == CommandsEnd /\ ErrandsEnd

Both(e) == [s \in UNION e |-> {t \in UNION e : {s, t} \in e}]
To(s, p) == [system |-> s, poi |-> p]
Run(n, t) == [name |-> n, target |-> t]

\* Two ways from 1 to 4, the shorter one close to a stronghold; a chain with one-way jumps.
Ring == [links |-> Both({{1,2}, {2,3}, {3,4}, {2,5}, {3,5}, {5,6}, {6,7}, {1,8}, {8,9}, {9,10}, {10,4}}),
         strongholds |-> {7}, starts |-> {1}, at |-> (1 :> 1 @@ 2 :> 10 @@ 3 :> 4), stations |-> {1, 2}, bases |-> {1, 2, 3},
         mines |-> {3}, empire |-> {10, 4}, known |-> {1, 2, 3}, holding |-> {},
         jobs |-> {Run("go", To(4, Nowhere)), Run("go", To(0, 2)), Run("wait", 2), Run("refuel", 0), Run("mine", 0), Run("dock", 0)}]
Chain == [links |-> (1 :> {2} @@ 2 :> {1, 3} @@ 3 :> {2} @@ 4 :> {3}), strongholds |-> {}, starts |-> {1, 2},
          at |-> (1 :> 2 @@ 2 :> 3 @@ 3 :> 4), stations |-> {2}, bases |-> {2}, mines |-> {},
          empire |-> {3}, known |-> {2}, holding |-> {3},
          jobs |-> {Run("go", To(4, Nowhere)), Run("find", 0), Run("refuel", 0), Run("mine", 0), Run("dock", 0), Run("serve", 0)}]
Holding == [Chain EXCEPT !.holding = {2}, !.starts = {1}, !.jobs = {Run("find", 0)}]
SomeGalaxies == <<Ring, Chain, Holding>>

Two(o, g) == [i \in {"ore", "gas"} |-> IF i = "ore" THEN o ELSE g]
Book(x, y) == [p \in 1..2 |-> IF p = 1 THEN x ELSE y]
OreAndGas == <<"ore", "gas">>
SizeOf == Two(1, 2)
Errand(d, i, q, a, f, t, o) == [do |-> d, item |-> i, qty |-> q, at |-> a, from |-> f, to |-> t, order |-> o]
Ways == {<<"cargo", "faction">>, <<"faction", "cargo">>, <<"storage", "faction">>, <<"cargo", "space">>, <<"space", "cargo">>}
Errands ==
  {Errand("buy", "ore", q, a, "none", "none", FALSE) : q \in {1, 3}, a \in 0..2}
  \cup {Errand("buy", "ore", q, a, "none", "none", TRUE) : q \in {1, 3}, a \in 1..2}
  \cup {Errand("sell", "ore", s[1], s[2], "none", "none", s[3]) :
          s \in {<<0, 0, FALSE>>, <<2, 0, FALSE>>, <<2, 2, FALSE>>, <<2, 2, TRUE>>}}
  \cup {Errand(d, "ore", 0, 0, "none", "none", FALSE) : d \in {"cancel_buy", "cancel_sell"}}
  \cup {Errand("transfer", i, 0, 0, w[1], w[2], FALSE) : i \in {"all", "gas"}, w \in Ways}
  \cup {Errand("transfer", "ore", 2, k, "space", "cargo", FALSE) : k \in {0, 2}}
  \cup {Errand("transfer", "ore", 2, 0, "storage", "cargo", FALSE)}
TwoScenes == {
  [places |-> ("cargo" :> Two(1, 1) @@ "storage" :> Two(1, 0) @@ "faction" :> Two(2, 1)), wrecks |-> <<Two(1, 1), Two(2, 0)>>,
   asks |-> Book(1, 2), bids |-> Book(1, 0), mine |-> Book(1, 1), wants |-> Book(0, 0)],
  [places |-> ("cargo" :> Two(0, 0) @@ "storage" :> Two(2, 0) @@ "faction" :> Two(3, 1)), wrecks |-> <<>>,
   asks |-> Book(0, 0), bids |-> Book(2, 1), mine |-> Book(0, 0), wants |-> Book(0, 1)]}

\* The vocabulary, and what clients say.
Huge == "10000000000000000000"
SomeUnsigned == {"0", "1", "2", "5", Huge}
SomeSigned == {"0", "1", "2", "5", "-1"}
Message == "hello there"
SomeNames == {"sol", "Sol", "iron", "Iron", "gas", "plate", "mill", "fast", "Ann", "skiff", "laser", "kit", "w1", "c1", "o1"}
SomeWords == SomeUnsigned \cup SomeSigned \cup SomeNames \cup {Message, "O'Neil", "combat", "home"} \cup JobKeywords
  \cup StoreNames \cup {"order", "with", "materials", "player", "space", "commission", "local", "private", "all", "credits",
     "item", "items", "ship", "module", "off", "on", "true", "maybe", "offer", "request", "junk", ""}
SomePlain == SomeWords \ {Message, "O'Neil", "-1", ""}
SomeSpaced == {Message, ""}
SomeRemoved == {"combat"}
SomeAliases == {"home"}
SomeSameName == {{"sol", "Sol"}, {"iron", "Iron"}}
SomeKnowledge == {NothingKnown,
  [NothingKnown EXCEPT !["item"] = {"iron", "gas", "kit"}, !["go"] = {"sol"}, !["ship"] = {"skiff"}, !["owned"] = {"skiff"},
                       !["recipe"] = {"plate"}]}

Says1(head, lists) == {Statement(head, list) : list \in lists}
Rows(lists) == [i \in DOMAIN lists |-> Statement("", lists[i]).args]
SomeStatements ==
  Says1("go", {<<"Sol">>, <<"home">>}) \cup Says1("Go", {<<"sol">>}) \cup Says1("mine", {<<>>, <<"Iron">>, <<"plate">>})
  \cup Says1("find", {<<"iron", "gas", "kit">>}) \cup Says1("attack", {<<>>, <<"Ann">>})
  \cup Says1("buy", {<<"5", "iron">>, <<"0", "iron">>, <<"5", "iron", "at", "2">>, <<"order", "5", "iron">>,
       <<"order", "5", "iron", "at", "2", "to", "storage">>, <<"Iron", "5">>, <<"iron", "5", "2", "order">>,
       <<"iron", "5", "order">>, <<Huge, "iron">>})
  \cup Says1("sell", {<<>>, <<"Iron">>, <<"5", "iron">>, <<"iron", "at", "2">>, <<"5", "iron", "at", "2">>,
       <<"order", "5", "iron", "at", "2">>, <<"order", "iron">>, <<"iron", "5", "order">>, <<"iron", "5", "2", "junk">>})
  \cup Says1("craft", {<<"plate">>, <<"plate", "5">>, <<"plate", Huge>>, <<"iron">>,
       <<"plate", "2", "from", "cargo", "to", "faction", "at", "mill", "preset", "fast">>, <<"plate", "to", "storage">>})
  \cup Says1("recycle", {<<"plate", "2", "to", "cargo">>, <<"plate", "preset", "fast">>})
  \cup Says1("transfer", {<<>>, <<"Iron">>, <<"iron", "5", "to", "storage">>, <<"to", "faction">>, <<"iron", "-1">>,
       <<"credits", "5", "to", "player", "Ann">>, <<"credits", "5", "to", "storage">>, <<"ship", "skiff", "to", "faction">>,
       <<"skiff", "to", "player", "Ann">>, <<"module", "laser", "from", "space", "w1", "to", "cargo">>,
       <<"iron", "5", "to", "commission", "c1">>, <<"iron", "to", "cargo">>, <<"iron", "from", "space", "to", "cargo">>})
  \cup {[st EXCEPT !.block = Rows(<<<<"iron", "5">>, <<"gas", "2">>>>)] :
          st \in {Statement("transfer", <<"to", "storage">>), Statement("sell", <<>>)}}
  \cup Says1("say", {<<Message, "to", "local">>, <<Message, "private", "Ann">>, <<Message, "private">>})
  \cup Says1("refuel", {<<>>, <<"5">>, <<"5", "to", "Ann">>, <<"to", "Ann">>})
  \cup Says1("repair", {<<>>, <<"Ann">>, <<"Ann", "with", "kit", "2">>, <<"with", "kit">>})
  \cup Says1("modify_order", {<<"o1", "at", "5">>}) \cup Says1("use_item", {<<"kit">>, <<"kit", "2">>})
  \cup Says1("cloak", {<<>>, <<"off">>}) \cup Says1("found_station", {<<"mill", "true">>, <<"mill", "maybe">>})
  \cup Says1("trade_offer", {<<"Ann">>, <<"Ann", "offer">>, <<"Ann", "offer", "credits", "5", "request", "2", "iron">>})
  \cup Says1("unload_passenger", {<<"Ann">>, <<"Ann", "to", "sol">>})
  \cup Says1("commission_ship", {<<"skiff">>, <<"skiff", "with", "materials">>})
  \cup Says1("wait", {<<"2">>}) \cup Says1("prepay_tax", {<<"5">>, <<Huge>>, <<"-1">>})
  \cup Says1("faction_declare_war", {<<"Ann">>, <<"Ann", "combat">>})
  \cup Says1("list_ship_for_sale", {<<"skiff", "5">>})
  \cup {[Statement("rename_ship", <<"O'Neil">>) EXCEPT !.args[1].quoted = q] : q \in BOOLEAN}

Opt(S) == {<<>>} \cup {<<w>> : w \in S}
Move(subject, items, from, to) == [node |-> "transfer", subject |-> subject, items |-> items, from |-> from, to |-> to]
Trade(oc, o, rc, r) == [node |-> "trade_offer", target |-> "Ann", offerCredits |-> oc, offers |-> o, requestCredits |-> rc, requests |-> r]
SomeRequests ==
  {Bought("iron", q, p, o, t) : q \in {"0", "5"}, p \in Opt({"2"}), o \in BOOLEAN, t \in Opt({"storage"})}
  \cup {SellNode(i, q, p, o) : i \in Opt({"iron"}), q \in Opt({"5"}), p \in Opt({"2"}), o \in BOOLEAN}
  \cup {Service(h, t, i, q) : h \in {"repair", "refuel"}, t \in Opt({"Ann"}), i \in Opt({"kit"}), q \in Opt({"2"})}
  \cup {Job("craft", "plate", q, f, t, <<"mill">>, p) : q \in {"1", "2", Huge}, f \in Opt({"faction"}), t \in Opt({"cargo"}), p \in Opt({"fast"})}
  \cup {Job("recycle", "plate", "2", <<>>, t, <<>>, <<>>) : t \in Opt({"faction"})}
  \cup {Move(s, <<>>, <<"cargo">>, <<"storage">>) : s \in {<<"all">>, <<"item", "iron">>, <<"item", "iron", "5">>}}
  \cup {Move(<<"all">>, <<<<"iron", "5">>, <<"gas", "2">>>>, <<"cargo">>, <<"storage">>),
        Move(<<"ship", "skiff">>, <<>>, <<"storage">>, <<"player", "Ann">>), Move(<<"credits", "5">>, <<>>, <<"faction">>, <<"cargo">>),
        Move(<<"item", "iron", "5">>, <<>>, <<"cargo">>, <<"commission", "c1">>), Move(<<"all">>, <<>>, <<"cargo">>, <<"ship", "w1">>)}
  \cup {Commission("skiff", m) : m \in BOOLEAN} \cup {Said(Message, "private", <<"Ann">>), Said("combat", "local", <<>>)}
  \cup {Trade(<<>>, <<>>, <<>>, <<>>), Trade(<<"5">>, <<>>, <<>>, <<>>), Trade(<<"5">>, <<<<"2", "gas">>, <<"1", "iron">>>>, <<"2">>, <<<<"1", "kit">>>>)}
  \cup {Do(d[1], Tail(d)) : d \in {<<"halt">>, <<"wait", "2">>, <<"go", "Sol">>, <<"cloak", "on">>, <<"cloak", "off">>, <<"modify_order", "o1", "5">>,
        <<"unload_passenger", "Ann", "sol">>, <<"use_item", "kit", "1">>, <<"found_station", "mill", "true">>, <<"prepay_tax", Huge>>,
        <<"rename_ship", "O'Neil">>, <<"find", "iron", "gas">>, <<"switch_ship", "skiff">>, <<"survey">>}}
=============================================================================
