----------------------------- MODULE StateReads -----------------------------
(***************************************************************************)
(* Conditional reads of the state (prayer-api, v1.rs get_state; the        *)
(* clients in prayer-sdk-py and prayer-sdk-ts).  A client sends the        *)
(* version it holds of the fleet and of every domain of the world; the     *)
(* answer leaves out what has that version, and gives the station markets  *)
(* as a delta if the server remembers the client's version of them.        *)
(*                                                                         *)
(* Calls run concurrently in the server: each copies the world, then takes *)
(* the locks of the reservations, of the domain cache and of the market    *)
(* history one after the other.                                            *)
(***************************************************************************)
EXTENDS Naturals, Sequences, FiniteSetsExt

CONSTANTS
  Clients,
  Readers,       \* the clients that keep what they read; the others ask for everything once
  Domains,       \* the domains of the world other than the markets, which are alike
  Worlds,        \* what the knowledge may be: [content, markets]: a value per domain, depth by station
  Claimable,     \* stations whose depth a movement may claim
  MaxVersion, MaxTouches,   \* bounds: versions of the world, changes of the fleet
  NoCall, NoCache,
  NoVersion      \* of a client that asks for everything

ASSUME ReadsAssumption ==
  /\ MaxVersion \in Nat /\ MaxTouches \in Nat /\ NoVersion \notin Nat
  /\ Readers \subseteq Clients
  /\ \A w \in Worlds : w.content = [d \in Domains |-> w.content[d]]

VARIABLES
  world,      \* the shared knowledge: version, content, markets; of: the claims when it got its version
  promised,   \* stations with claimed depth (the ledger)
  fleet,      \* the bot: version, what was observed, how its run stands
  cached,     \* world_domains: the last world projected and the version of each domain
  history,    \* world_history: the last two markets by version
  call, cache,
  twofold     \* history: one version has named two contents

readVars == <<world, promised, fleet, cached, history, call, cache, twofold>>

Everything == [domains |-> [d \in Domains |-> NoVersion], markets |-> NoVersion, fleet |-> NoVersion]
NoWorld == [observed |-> NoVersion]

ReadsInit ==
  /\ \E w \in Worlds : world = [version |-> 0, content |-> w.content, markets |-> w.markets, of |-> {}]
  /\ promised = {}
  /\ fleet = [version |-> 1, seen |-> 0, run |-> "running"]
  /\ cached = NoWorld /\ history = <<>>
  /\ call = [c \in Clients |-> NoCall] /\ cache = [c \in Clients |-> NoCache]
  /\ twofold = FALSE

-----------------------------------------------------------------------------
(* What the rest of the program does to the state. *)

\* Every change of the knowledge ends with a new version; some only have that.
Learn(w) ==
  /\ world.version < MaxVersion
  /\ world' = [version |-> world.version + 1, content |-> w.content, markets |-> w.markets, of |-> promised]
  /\ UNCHANGED <<promised, fleet, cached, history, call, cache, twofold>>

\* The ledger changes first, the version of the knowledge follows - or, when the
\* orders refuse what the ledger granted, does not.
Promise(p) ==
  /\ p # promised /\ promised' = p
  /\ UNCHANGED <<world, fleet, cached, history, call, cache, twofold>>

\* touch_state comes with a refresh and with a step; a run that starts, is cancelled
\* or finishes is recorded without it.
Observe ==
  /\ fleet.version <= MaxTouches
  /\ fleet' = [fleet EXCEPT !.version = @ + 1, !.seen = 1 - @]
  /\ UNCHANGED <<world, promised, cached, history, call, cache, twofold>>

Record ==
  /\ fleet.version <= MaxTouches
  /\ fleet' = [fleet EXCEPT !.run = IF @ = "running" THEN "completed" ELSE "running"]
  /\ UNCHANGED <<world, promised, cached, history, call, cache, twofold>>

\* A restart finds the knowledge as it was saved at some version; the fleet's versions
\* start again.  (What an older save holds does not matter: see the bound of ReadsNext.)
RestartReads(v) ==
  /\ world' = [world EXCEPT !.version = v, !.of = {}] /\ promised' = {}
  /\ fleet' = [fleet EXCEPT !.version = 1] /\ cached' = NoWorld /\ history' = <<>>
  /\ call' = [c \in Clients |-> NoCall]
  /\ twofold' = (twofold \/ v < world.version \/ world.of # {} \/ promised # {} \/ fleet.version > 1)
  /\ UNCHANGED cache

-----------------------------------------------------------------------------
(* A call. *)

\* apply_market_reservations, as far as clients can tell: less depth.
Offered(markets, p) == [s \in DOMAIN markets |-> IF s \in p THEN markets[s] - 1 ELSE markets[s]]

Held(c) ==
  IF cache[c] = NoCache THEN Everything
  ELSE [domains |-> cache[c].labels, markets |-> cache[c].label, fleet |-> cache[c].fleetVersion]

\* A client has one call under way (the Python client holds a lock), so that what it
\* holds is the same at any moment of the call.
Copy(c) ==
  /\ call[c] = NoCall
  /\ call' = [call EXCEPT ![c] = [phase |-> "copied", world |-> world]]
  /\ UNCHANGED <<world, promised, fleet, cached, history, cache, twofold>>

\* state_snapshot: the claims and the sessions are read after the knowledge.
Snapshot(c) ==
  /\ call[c] # NoCall /\ call[c].phase = "copied"
  /\ call' = [call EXCEPT ![c] =
                [phase |-> "projected", version |-> @.world.version, content |-> @.world.content,
                 markets |-> Offered(@.world.markets, promised), fleet |-> fleet]]
  /\ twofold' = (twofold \/ promised # call[c].world.of)
  /\ UNCHANGED <<world, promised, fleet, cached, history, cache>>

\* The version of a domain is that of the read that first found it different from
\* the read before.
Labelled(x, d) ==
  IF cached = NoWorld \/ cached.content[d] # x.content[d] THEN x.version ELSE cached.labels[d]
MarketsChanged(x) == cached = NoWorld \/ cached.markets # x.markets

Label(c) ==
  /\ call[c] # NoCall /\ call[c].phase = "projected"
  /\ LET x == call[c]
         fresh == cached.observed # x.version
         next == IF ~fresh THEN cached
                 ELSE [observed |-> x.version, content |-> x.content, markets |-> x.markets,
                       labels |-> [d \in Domains |-> Labelled(x, d)],
                       label |-> IF MarketsChanged(x) THEN x.version ELSE cached.label]
     IN /\ cached' = next
        /\ call' = [call EXCEPT ![c] =
                      [phase |-> IF fresh /\ MarketsChanged(x) THEN "recording" ELSE "labelled",
                       content |-> x.content, markets |-> x.markets, fleet |-> x.fleet,
                       labels |-> next.labels, label |-> next.label]]
  /\ UNCHANGED <<world, promised, fleet, history, cache, twofold>>

\* market_history: what the labels name is remembered, for two versions.
Remember(c) ==
  /\ call[c] # NoCall /\ call[c].phase = "recording"
  /\ LET x == call[c]
         known == history # <<>> /\ history[Len(history)].version = x.label
         longer == IF known THEN history
                   ELSE Append(history, [version |-> x.label, markets |-> x.markets])
     IN history' = IF Len(longer) > 2 THEN Tail(longer) ELSE longer
  /\ call' = [call EXCEPT ![c].phase = "labelled"]
  /\ UNCHANGED <<world, promised, fleet, cached, cache, twofold>>

\* Mutant: stations that are gone stay in the client's copy.
UpsertOnly(old, new) ==
  [upsert |-> [s \in {s \in DOMAIN new : s \notin DOMAIN old \/ old[s] # new[s]} |-> new[s]], remove |-> {}]

\* station_market_delta.
StationMarketDelta(old, new) ==
  [upsert |-> [s \in {s \in DOMAIN new : s \notin DOMAIN old \/ old[s] # new[s]} |-> new[s]],
   remove |-> DOMAIN old \ DOMAIN new]

MarketUpdate(asked, x) ==
  LET bases == {i \in 1..Len(history) : history[i].version = asked}
  IN IF asked = x.label THEN [kind |-> "none"]
     ELSE IF bases = {} THEN [kind |-> "full", markets |-> x.markets]
     ELSE [kind |-> "delta", of |-> StationMarketDelta(history[Min(bases)].markets, x.markets)]

Applied(markets, delta) ==
  [s \in (DOMAIN markets \cup DOMAIN delta.upsert) \ delta.remove |->
     IF s \in DOMAIN delta.upsert THEN delta.upsert[s] ELSE markets[s]]

\* _merge_state of the client: what the answer leaves out is kept.
MergedState(old, has, x) ==
  LET update == MarketUpdate(has.markets, x)
  IN [labels |-> x.labels, label |-> x.label, fleetVersion |-> x.fleet.version,
      content |-> [d \in Domains |-> IF has.domains[d] # x.labels[d] THEN x.content[d] ELSE old.content[d]],
      markets |-> CASE update.kind = "full" -> update.markets
                    [] update.kind = "delta" -> Applied(old.markets, update.of)
                    [] OTHER -> old.markets,
      fleet |-> IF has.fleet # x.fleet.version THEN x.fleet ELSE old.fleet]

\* The end of get_state: what has the version the client holds is left out.
Answer(c) ==
  /\ call[c] # NoCall /\ call[c].phase = "labelled"
  /\ cache' = IF c \notin Readers THEN cache ELSE [cache EXCEPT ![c] = MergedState(@, Held(c), call[c])]
  /\ call' = [call EXCEPT ![c] = NoCall]
  /\ UNCHANGED <<world, promised, fleet, cached, history, twofold>>

\* A client gives up, or the answer is lost.
Drop(c) ==
  /\ call[c] # NoCall /\ call' = [call EXCEPT ![c] = NoCall]
  /\ UNCHANGED <<world, promised, fleet, cached, history, cache, twofold>>

\* Bound: nothing is explored once a version has named two contents.
ReadsNext ==
  /\ ~twofold
  /\ \/ \E w \in Worlds : Learn(w)
     \/ \E p \in SUBSET Claimable : Promise(p)
     \/ Observe \/ Record \/ \E v \in 0..world.version : RestartReads(v)
     \/ \E c \in Clients : Copy(c) \/ Snapshot(c) \/ Label(c) \/ Remember(c) \/ Answer(c) \/ Drop(c)

ReadsSpec == ReadsInit /\ [][ReadsNext]_readVars

-----------------------------------------------------------------------------
(* Properties. *)

\* However the reads of several clients and the changes of the world interleave, a
\* client that merges an answer into what it held has exactly the world of the
\* server's snapshot, and remembers it under the versions the answer names - while
\* every version names one content: no snapshot has shown claims that the version
\* does not know of yet, and no restart has used a version again.
AnswersAreComplete ==
  [][\A c \in Readers : Answer(c) =>
       /\ cache'[c].content = call[c].content /\ cache'[c].markets = call[c].markets
       /\ cache'[c].fleet.seen = call[c].fleet.seen]_readVars

=============================================================================
