-------------------------------- MODULE Lang --------------------------------
(***************************************************************************)
(* PrayerLang (prayer-lang): what the parser reads from a statement, the   *)
(* normal form it prints, and what the analyzer makes of it against the    *)
(* identifiers that are known.                                             *)
(*                                                                         *)
(* A word is a string told apart only by the sets below; a token is a word *)
(* and whether it was written in quotes.  A value that may be missing is a *)
(* sequence of at most one word, so that an argument list is a            *)
(* concatenation.  Spans, diagnostics and suggestions are left out.        *)
(***************************************************************************)
EXTENDS Naturals, Sequences

CONSTANTS
  Words,      \* every word of the texts and of the knowledge
  Unsigned,   \* numerals that are a u64
  Signed,     \* numerals that are an i64
  Plain,      \* words the lexer reads without quotes
  Spaced,     \* words the printer quotes: blank, ; { } " \ or nothing
  Removed,    \* words that contain removed syntax, in quotes or not
  Aliases,    \* words that begin with a removed navigation alias
  SameName    \* words that normalize_token makes equal, as a set of sets

NoNode == [node |-> "none"]
Tok(w) == [w |-> w, quoted |-> w \in Spaced]
Statement(head, words) == [head |-> head, args |-> [i \in DOMAIN words |-> Tok(words[i])], block |-> <<>>]
WordsOf(toks) == [i \in DOMAIN toks |-> toks[i].w]
IsIn(w, seq) == \E i \in DOMAIN seq : seq[i] = w
Option(seq, i) == IF i \in DOMAIN seq THEN <<seq[i]>> ELSE <<>>
With(keyword, option) == IF option = <<>> THEN <<>> ELSE <<keyword>> \o option
From(n, seq) == SubSeq(seq, n, Len(seq))
Positive == Unsigned \ {"0"}
Lower(head) == CASE head = "Go" -> "go" [] head = "Sell" -> "sell" [] OTHER -> head
-----------------------------------------------------------------------------
(* The lexer, and the scan for removed syntax that comes before it.        *)

RemovedSyntax(st) ==
  \/ st.head \in Removed
  \/ \E i \in DOMAIN st.args : st.args[i].w \in Removed
  \/ st.head = "go" /\ st.args # <<>> /\ ~st.args[1].quoted /\ st.args[1].w \in Aliases

Lexes(st) ==
  \A toks \in {st.args} \cup {st.block[i] : i \in DOMAIN st.block} :
    \A i \in DOMAIN toks : toks[i].quoted \/ toks[i].w \in Plain
-----------------------------------------------------------------------------
(* Clauses: pairs of a keyword and a value, in any order, none twice.      *)

Clause(parts, keyword) ==
  LET at == {i \in DOMAIN parts : i % 2 = 1 /\ parts[i] = keyword}
  IN  IF at = {} THEN <<>> ELSE <<parts[(CHOOSE i \in at : TRUE) + 1]>>

(* allowed: the values each keyword takes.                                 *)
ClausesFit(parts, allowed) ==
  /\ Len(parts) % 2 = 0
  /\ \A i \in {j \in DOMAIN parts : j % 2 = 1} :
       /\ parts[i] \in DOMAIN allowed
       /\ parts[i + 1] \in allowed[parts[i]]
       /\ \A j \in {k \in DOMAIN parts : k % 2 = 1} : parts[j] = parts[i] => j = i

StoreNames == {"cargo", "storage", "faction"}
JobKeywords == {"from", "to", "at", "preset"}

(* The older form, item first: buy <item> <quantity> [price] [order].      *)
ParseLegacyBuy(w) ==
  LET tail == From(3, w)
      priced == tail # <<>> /\ tail[1] # "order"
  IN  IF Len(w) \in 2..4 /\ w[2] \in Positive /\ (priced => tail[1] \in Positive)
         /\ \A i \in DOMAIN tail : tail[i] = "order" \/ tail[i] \in Unsigned
      THEN [node |-> "buy", item |-> w[1], quantity |-> w[2],
            price |-> IF priced THEN <<tail[1]>> ELSE <<>>, order |-> IsIn("order", tail), to |-> <<>>]
      ELSE NoNode

ParseBuy(w) ==
  LET order == w # <<>> /\ w[1] = "order"
      body  == IF order THEN Tail(w) ELSE w
      tail  == From(3, body)
      takes == IF order THEN [at |-> Positive, to |-> {"cargo", "storage"}] ELSE [at |-> Positive]
  IN  IF w # <<>> /\ w[1] # "order" /\ w[1] \notin Unsigned THEN ParseLegacyBuy(w)
      ELSE IF Len(body) >= 2 /\ body[1] \in Positive /\ ClausesFit(tail, takes)
              /\ (order => Clause(tail, "at") # <<>>)
      THEN [node |-> "buy", item |-> body[2], quantity |-> body[1],
            price |-> Clause(tail, "at"), order |-> order, to |-> Clause(tail, "to")]
      ELSE NoNode

SellNode(item, quantity, price, order) ==
  [node |-> "sell", item |-> item, quantity |-> quantity, price |-> price, order |-> order]

(* The older form accepts anything after its price.                        *)
ParseLegacySell(w) ==
  LET tail == From(3, w)
      priced == tail # <<>> /\ tail[1] # "order"
  IN  IF w[2] \in Positive /\ (priced => tail[1] \in Positive)
      THEN SellNode(<<w[1]>>, <<w[2]>>, IF priced THEN <<tail[1]>> ELSE <<>>, IsIn("order", tail))
      ELSE NoNode

ParseSell(w) ==
  LET order == w # <<>> /\ w[1] = "order"
      body  == IF order THEN Tail(w) ELSE w
      many  == body # <<>> /\ body[1] \in Unsigned
      rest  == IF many THEN Tail(body) ELSE body
      tail  == From(2, rest)
  IN  IF w = <<>> THEN SellNode(<<>>, <<>>, <<>>, FALSE)
      ELSE IF ~order /\ w[1] \notin Unsigned /\ Len(w) > 1 /\ w[2] \in Unsigned THEN ParseLegacySell(w)
      ELSE IF rest # <<>> /\ (many => body[1] \in Positive) /\ ClausesFit(tail, [at |-> Positive])
              /\ (order => many /\ tail # <<>>)
      THEN SellNode(<<rest[1]>>, IF many THEN <<body[1]>> ELSE <<>>, Clause(tail, "at"), order)
      ELSE NoNode

ParseCommission(w) ==
  IF Len(w) = 1 \/ (Len(w) = 3 /\ From(2, w) = <<"with", "materials">>)
  THEN [node |-> "commission_ship", class |-> w[1], materials |-> Len(w) = 3]
  ELSE NoNode

(* craft, and recycle, which has no preset.                                *)
ParseJob(head, w) ==
  LET counted == Len(w) > 1 /\ w[2] \notin JobKeywords
      tail    == From(IF counted THEN 3 ELSE 2, w)
      names   == Words \ JobKeywords
  IN  IF w # <<>> /\ (counted => w[2] \in Positive)
         /\ ClausesFit(tail, [from |-> StoreNames, to |-> StoreNames, at |-> names, preset |-> names])
         /\ (head = "recycle" => Clause(tail, "preset") = <<>>)
      THEN [node |-> head, recipe |-> w[1], quantity |-> IF counted THEN w[2] ELSE "1",
            source |-> Clause(tail, "from"), to |-> Clause(tail, "to"),
            facility |-> Clause(tail, "at"), preset |-> Clause(tail, "preset")]
      ELSE NoNode
-----------------------------------------------------------------------------
(* transfer: a subject or a block of items, and up to two endpoints.       *)

IsEndpoint(e) ==
  \/ Len(e) = 1 /\ e[1] \in {"cargo", "storage", "faction", "space"}
  \/ Len(e) = 2 /\ e[1] \in {"faction", "player", "space", "commission"}

ClauseStarts(w) == {i \in DOMAIN w : w[i] \in {"to", "from"}}

Endpoint(w, keyword) ==
  LET at == {i \in DOMAIN w : w[i] = keyword}
      i  == CHOOSE j \in at : TRUE
      ends == {j - 1 : j \in {k \in ClauseStarts(w) : k > i}} \cup {Len(w)}
  IN  IF at = {} THEN <<>> ELSE SubSeq(w, i + 1, CHOOSE j \in ends : \A k \in ends : j <= k)

TransferClausesFit(w) ==
  /\ w # <<>> => w[1] \in {"to", "from"}
  /\ \A i, j \in ClauseStarts(w) : w[i] = w[j] => i = j
  /\ \A i \in ClauseStarts(w) : IsEndpoint(Endpoint(w, w[i]))

(* Credits and items have a quantity of any sign here.                     *)
TransferSubject(w) ==
  CASE w = <<>> -> <<"all">>
    [] w # <<>> /\ w[1] \in {"ship", "module"} -> IF Len(w) = 2 THEN w ELSE <<>>
    [] w # <<>> /\ w[1] = "credits" -> IF Len(w) = 2 /\ w[2] \in Signed THEN w ELSE <<>>
    [] w # <<>> /\ w[1] \notin {"ship", "module", "credits"} ->
         IF Len(w) = 1 \/ (Len(w) = 2 /\ w[2] \in Signed) THEN <<"item">> \o w ELSE <<>>

TransferNode(subject, items, clauses) ==
  [node |-> "transfer", subject |-> subject, items |-> items,
   from |-> Endpoint(clauses, "from"), to |-> Endpoint(clauses, "to")]

ParseTransfer(w) ==
  LET n == CHOOSE i \in 1..(Len(w) + 1) :
             (i > Len(w) \/ i \in ClauseStarts(w)) /\ \A j \in 1..(i - 1) : j \notin ClauseStarts(w)
      subject == TransferSubject(SubSeq(w, 1, n - 1))
      clauses == From(n, w)
  IN  IF subject # <<>> /\ TransferClausesFit(clauses) THEN TransferNode(subject, <<>>, clauses) ELSE NoNode

ParseTransferBlock(w, block) ==
  IF /\ TransferClausesFit(w) /\ block # <<>>
     /\ \A i \in DOMAIN block : /\ Len(block[i]) = 2 /\ block[i][2] \in Signed
                                /\ block[i][1] \notin {"to", "from"}
  THEN TransferNode(<<"all">>, block, w)
  ELSE NoNode
-----------------------------------------------------------------------------
(* Commands, and the shapes that some of them are rewritten from.          *)

Command(head, args) == [node |-> "command", head |-> head, args |-> args]

SayNode(w) == [node |-> "say", content |-> w[1], channel |-> w[3], target |-> From(4, w)]
IsSay(st) ==
  /\ st.head = "say" /\ Len(st.args) \in {3, 4}
  /\ st.args[2].w = "to" /\ ~st.args[2].quoted

ParseRefuel(w) ==
  LET at == CHOOSE i \in DOMAIN w : w[i] = "to" /\ \A j \in 1..(i - 1) : w[j] # "to"
  IN  IF at \in {1, 2} /\ Len(w) = at + 1
      THEN Command("refuel", <<w[at + 1]>> \o SubSeq(w, 1, at - 1)) ELSE NoNode

ParseRepair(w) ==
  LET at == CHOOSE i \in DOMAIN w : w[i] = "with" /\ \A j \in 1..(i - 1) : w[j] # "with"
  IN  IF at = 2 /\ Len(w) \in {3, 4} THEN Command("repair", <<w[1]>> \o From(3, w)) ELSE NoNode

ParseModifyOrder(w) ==
  IF Len(w) = 3 /\ w[2] = "at" /\ w[3] \in Positive
  THEN Command("modify_order", <<w[1], w[3]>>) ELSE NoNode

ParseUnload(w) == IF Len(w) = 3 THEN Command("unload_passenger", <<w[1], w[3]>>) ELSE NoNode

ParseCommand(head, w) ==
  CASE head = "modify_order" -> ParseModifyOrder(w)
    [] head = "unload_passenger" /\ Len(w) > 1 /\ w[2] = "to" -> ParseUnload(w)
    [] head = "refuel" /\ IsIn("to", w) -> ParseRefuel(w)
    [] head = "repair" /\ IsIn("with", w) -> ParseRepair(w)
    [] OTHER -> Command(head, w)

Parse(st) ==
  LET w == WordsOf(st.args)
  IN  CASE RemovedSyntax(st) \/ ~Lexes(st) -> NoNode
        [] st.block # <<>> -> IF st.head = "transfer"
                              THEN ParseTransferBlock(w, [i \in DOMAIN st.block |-> WordsOf(st.block[i])])
                              ELSE NoNode
        [] st.head = "transfer" -> ParseTransfer(w)
        [] st.head \in {"craft", "recycle"} -> ParseJob(st.head, w)
        [] st.head = "buy" -> ParseBuy(w)
        [] st.head = "sell" -> ParseSell(w)
        [] st.head = "commission_ship" -> ParseCommission(w)
        [] IsSay(st) -> SayNode(w)
        [] OTHER -> ParseCommand(st.head, w)
-----------------------------------------------------------------------------
(* The normal form: what is saved as the script, and parsed again.         *)

NormalTransfer(t) ==
  LET clauses == With("from", t.from) \o With("to", t.to)
      subject == IF t.subject[1] \in {"all", "item"} THEN Tail(t.subject) ELSE t.subject
  IN  IF t.items = <<>> THEN Statement("transfer", subject \o clauses)
      ELSE [Statement("transfer", clauses) EXCEPT
              !.block = [i \in DOMAIN t.items |-> Statement("", t.items[i]).args]]

NormalCommand(c) ==
  Statement(Lower(c.head),
    IF Lower(c.head) = "say" /\ Len(c.args) >= 2
    THEN <<c.args[1], "to", c.args[2]>> \o Option(c.args, 3) ELSE c.args)

JobClauses(j) == With("from", j.source) \o With("to", j.to) \o With("at", j.facility) \o With("preset", j.preset)
Counted(q) == IF q = "1" THEN <<>> ELSE <<q>>
Ordered(order) == IF order THEN <<"order">> ELSE <<>>

Normalize(a) ==
  CASE a.node = "command" -> NormalCommand(a)
    [] a.node = "transfer" -> NormalTransfer(a)
    [] a.node \in {"craft", "recycle"} -> Statement(a.node, <<a.recipe>> \o Counted(a.quantity) \o JobClauses(a))
    [] a.node = "say" -> Statement("say", <<a.content, "to", a.channel>> \o a.target)
    [] a.node = "buy" -> Statement("buy", Ordered(a.order) \o <<a.quantity, a.item>> \o With("at", a.price) \o With("to", a.to))
    [] a.node = "sell" -> Statement("sell", Ordered(a.order) \o a.quantity \o a.item \o With("at", a.price))
    [] a.node = "commission_ship" -> Statement(a.node, <<a.class>> \o (IF a.materials THEN <<"with", "materials">> ELSE <<>>))
=============================================================================
