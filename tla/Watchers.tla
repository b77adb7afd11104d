------------------------------ MODULE Watchers ------------------------------
(***************************************************************************)
(* Who watches a port for all (prayer-sdk, service/refresh and accounts,   *)
(* knowledge/ingestion; the subscriptions of spacemolt-lib accounts).      *)
(*                                                                         *)
(* One ship per port is to hold the live market book, one per point of     *)
(* interest the view of who is near.  The two have tables and              *)
(* subscriptions of their own; a behaviour follows one of them.            *)
(*                                                                         *)
(* Two parties keep a table: every refresh of a ship, by where the ships   *)
(* are now, and the idle loop, for markets by where their last refresh     *)
(* saw them.  Both look at the ships first and write the table later.  A   *)
(* subscription is asked for, answered, and stored when the asking task is *)
(* polled; the socket applies moves meanwhile.                             *)
(*                                                                         *)
(* A port is a point of interest with a station.  The moves of ships and   *)
(* the server's answers are external.                                      *)
(***************************************************************************)
EXTENDS Naturals, FiniteSets

CONSTANTS
  Nobody,
  Ports,
  Ships,       \* sessions with a connected account, by the order of their ids
  Home,        \* bound: the port where the ships are at first
  MaxTrips,    \* bound: moves
  MaxPushes,   \* bound: market updates
  WatchFaults  \* bound: queries that fail, refreshes whose caller goes away

ASSUME WatchersAssumption ==
  /\ Ships \subseteq Nat /\ Home \in Ports /\ Nobody \notin Ships \cup Ports
  /\ MaxTrips \in Nat /\ MaxPushes \in Nat /\ WatchFaults \in Nat

VARIABLES
  desk,        \* the watch this behaviour follows: "market" or "sight"
  berth,       \* where each ship is, as its account knows
  seen,        \* actor.observed: where its last refresh saw it
  watchers,    \* market_watchers, observation_watchers_by_poi
  subscribed,  \* subscribed_market_base_id, subscribed_observation_poi_id
  books,       \* the account's market cache: ports whose book it has
  refresh,     \* refresh_state_for_host_loop of each ship, one at a time
  list,        \* where reconcile_refresh_watchers found the ships
  dirty,       \* ships with a market update that was not yet looked at
  batch,       \* flush_market_update_batch
  shown,       \* station_markets: ports with a book in the shared knowledge
  trips, pushes, watchFaults

flushing  == <<dirty, batch, pushes>>
watchVars == <<desk, berth, seen, watchers, subscribed, books, refresh, list, flushing, shown,
               trips, watchFaults>>

Away    == [at |-> Nobody, docked |-> FALSE]
Resting == [phase |-> "idle", at |-> Away, reply |-> Nobody, carried |-> FALSE]
NoList  == [made |-> FALSE, at |-> [s \in Ships |-> Nobody]]
NoBatch == [busy |-> FALSE, found |-> {}]

WatchInit ==
  /\ desk \in {"market", "sight"}
  /\ berth \in [Ships -> [at : {Home}, docked : BOOLEAN]] /\ seen = [s \in Ships |-> Away]
  /\ watchers = [p \in Ports |-> Nobody] /\ subscribed = [s \in Ships |-> Nobody]
  /\ books = [s \in Ships |-> {}]
  /\ refresh = [s \in Ships |-> Resting] /\ list = NoList
  /\ dirty = {} /\ batch = NoBatch /\ shown = {} /\ trips = 0 /\ pushes = 0 /\ watchFaults = 0

Docked(p) == [at |-> p, docked |-> TRUE]

\* Who may watch a port: of its market those docked, of its view all that are there.
Candidates(p) == {s \in Ships : berth[s].at = p /\ (desk = "market" => berth[s].docked)}
WatchFault == watchFaults < WatchFaults /\ watchFaults' = watchFaults + 1

-----------------------------------------------------------------------------
(* The account: moves, and what they do to its subscription. *)

\* apply_silent_subscription_drops, with the location the delta brought: only the book
\* that was subscribed last goes.
SilentDrops(s, place) ==
  IF subscribed[s] # Nobody /\ (IF desk = "market" THEN Docked(subscribed[s]) # place
                                ELSE subscribed[s] # place.at)
  THEN /\ subscribed' = [subscribed EXCEPT ![s] = Nobody]
       /\ books' = [books EXCEPT ![s] = @ \ {subscribed[s]}]
  ELSE UNCHANGED <<subscribed, books>>

Arrives(s, place) ==
  /\ trips < MaxTrips /\ trips' = trips + 1
  /\ berth' = [berth EXCEPT ![s] = place]
  /\ SilentDrops(s, place)
  /\ UNCHANGED <<desk, seen, watchers, refresh, list, flushing, shown, watchFaults>>

Moves(s) ==
  \/ Arrives(s, [berth[s] EXCEPT !.docked = ~@])
  \/ ~berth[s].docked /\ \E p \in Ports \ {berth[s].at} : Arrives(s, [at |-> p, docked |-> FALSE])

\* A market_update frame, to an account that is subscribed where it is docked.
Pushed(s) ==
  /\ desk = "market" /\ berth[s] = Docked(subscribed[s]) /\ pushes < MaxPushes
  /\ dirty' = dirty \cup {s} /\ pushes' = pushes + 1
  /\ UNCHANGED <<desk, berth, seen, watchers, subscribed, books, refresh, list, batch, shown,
                 trips, watchFaults>>

-----------------------------------------------------------------------------
(* The refresh of one ship. *)

Phase(s, phase) == refresh[s].phase = phase
Enters(s, phase) ==
  refresh' = [refresh EXCEPT ![s].phase = phase, ![s].reply = Nobody]
Rest == <<desk, berth, seen, list, flushing, shown, trips>>

\* The ship is projected once; all that follows is about that place.
Begin(s) ==
  /\ Phase(s, "idle")
  /\ refresh' = [refresh EXCEPT ![s] = [Resting EXCEPT !.at = berth[s],
       !.phase = IF desk = "sight" THEN "watching"
                 ELSE IF berth[s].docked THEN "claiming" ELSE "gathering"]]
  /\ UNCHANGED <<Rest, watchers, subscribed, books, watchFaults>>

\* The owner there is stays while it is a candidate; else it is the first candidate.
First(crew) == IF crew = {} THEN Nobody ELSE CHOOSE s \in crew : \A t \in crew : s <= t
Owner(existing, crew) == IF existing \in crew THEN existing ELSE First(crew)

\* market_subscription_owner_for_station, observation_subscription_owner_for_poi: the
\* candidates are collected session by session, here with the claim that follows.
Claims(s, p) == watchers' = [watchers EXCEPT ![p] = Owner(@, Candidates(p))]

\* Any ship whose account has the book brings it along, its watcher or not.
TakesBook(s, cached) ==
  refresh' = [refresh EXCEPT ![s].phase = "gathering", ![s].reply = Nobody,
                             ![s].carried = refresh[s].at.at \in cached]

\* Mutant: the book is asked for only when the watch is new.
ClaimMarketOnce(s) ==
  LET p == refresh[s].at.at
  IN /\ Phase(s, "claiming") /\ Claims(s, p)
     /\ IF watchers'[p] = s /\ watchers[p] # s /\ p \notin books[s]
        THEN Enters(s, "asking") ELSE TakesBook(s, books[s])
     /\ UNCHANGED <<Rest, subscribed, books, watchFaults>>

ClaimMarket(s) ==
  LET p == refresh[s].at.at
  IN /\ Phase(s, "claiming") /\ Claims(s, p)
     /\ IF watchers'[p] = s /\ p \notin books[s]
        THEN Enters(s, "asking") ELSE TakesBook(s, books[s])
     /\ UNCHANGED <<Rest, subscribed, books, watchFaults>>

\* Mutant: who is no longer the observer keeps its subscription.
ClaimSightKept(s) ==
  LET p == refresh[s].at.at
  IN /\ Phase(s, "watching") /\ Claims(s, p)
     /\ Enters(s, IF watchers'[p] = s /\ subscribed[s] = Nobody THEN "asking" ELSE "gathering")
     /\ UNCHANGED <<Rest, subscribed, books, watchFaults>>

\* The observer subscribes if it is not; whoever is not the observer unsubscribes.
ClaimSight(s) ==
  LET p == refresh[s].at.at
  IN /\ Phase(s, "watching") /\ Claims(s, p)
     /\ Enters(s, CASE watchers'[p] = s /\ subscribed[s] = Nobody -> "asking"
                    [] watchers'[p] # s /\ subscribed[s] # Nobody -> "leaving"
                    [] OTHER -> "gathering")
     /\ UNCHANGED <<Rest, subscribed, books, watchFaults>>

\* subscribe_market, subscribe_observation: the server answers for where the ship is by then.
Answered(s) ==
  /\ Phase(s, "asking")
  /\ \/ /\ UNCHANGED watchFaults
        /\ refresh' = [refresh EXCEPT ![s].phase = "seeding", ![s].reply =
                         IF desk = "market" /\ ~berth[s].docked THEN Nobody ELSE berth[s].at]
     \/ WatchFault /\ Enters(s, "seeding")
  /\ UNCHANGED <<Rest, watchers, subscribed, books>>

\* seed_market_subscription, seed_observation_subscription; the books of other ports stay.
Seeds(s) ==
  LET p == refresh[s].reply
  IN /\ Phase(s, "seeding")
     /\ subscribed' = IF p = Nobody THEN subscribed ELSE [subscribed EXCEPT ![s] = p]
     /\ IF desk = "market"
        THEN /\ books' = [books EXCEPT ![s] = @ \cup ({p} \ {Nobody})]
             /\ TakesBook(s, books'[s])
        ELSE Enters(s, "gathering") /\ UNCHANGED books
     /\ UNCHANGED <<Rest, watchers, watchFaults>>

Unsubscribes(s) ==
  /\ Phase(s, "leaving")
  /\ \/ UNCHANGED watchFaults /\ subscribed' = [subscribed EXCEPT ![s] = Nobody]
     \/ WatchFault /\ UNCHANGED subscribed
  /\ Enters(s, "gathering")
  /\ UNCHANGED <<Rest, watchers, books>>

\* apply_refreshed_state.
Sees(s, place) == seen' = [seen EXCEPT ![s] = place]

\* The end, after the queries about storage, the place and passengers: each of them
\* waits for the server, and the refresh goes on when one fails.
Applies(s) ==
  /\ Phase(s, "gathering") /\ Sees(s, refresh[s].at)
  /\ shown' = IF refresh[s].carried THEN shown \cup {refresh[s].at.at} ELSE shown
  /\ refresh' = [refresh EXCEPT ![s] = Resting]
  /\ UNCHANGED <<desk, berth, watchers, subscribed, books, list, flushing, trips, watchFaults>>

\* The caller that awaits the refresh goes away.
GivenUp(s) ==
  /\ ~Phase(s, "idle") /\ WatchFault
  /\ refresh' = [refresh EXCEPT ![s] = Resting]
  /\ UNCHANGED <<Rest, watchers, subscribed, books>>

RefreshSteps(s) ==
  \/ Begin(s) \/ ClaimMarket(s) \/ ClaimSight(s) \/ Answered(s) \/ Seeds(s)
  \/ Unsubscribes(s) \/ Applies(s)

-----------------------------------------------------------------------------
(* reconcile_refresh_watchers, in the idle loop. *)

Others == <<desk, berth, seen, subscribed, books, refresh, flushing, trips, watchFaults>>

\* docked_station_key goes by the last refresh, the point of interest by the account.
Listable(s) ==
  IF desk = "sight" THEN berth[s].at ELSE IF seen[s].docked THEN seen[s].at ELSE Nobody

ListShips ==
  /\ ~list.made /\ list' = [made |-> TRUE, at |-> [s \in Ships |-> Listable(s)]]
  /\ UNCHANGED <<Others, watchers, shown>>

Listed(p) == {s \in Ships : list.at[s] = p}

\* A watcher that was not found is replaced: at a market by the first candidate, at a
\* view by any (reconcile_watchers_for_key).
Successors(p) ==
  IF desk = "sight" /\ watchers[p] \notin Listed(p) /\ Listed(p) # {} THEN Listed(p)
  ELSE {Owner(watchers[p], Listed(p))}

\* The table, then the books of ports where nobody was seen docked, whatever was written
\* since: the locks are taken one after the other, without a wait between them.
Reconcile ==
  /\ list.made /\ list' = NoList
  /\ watchers' \in {table \in [Ports -> Ships \cup {Nobody}] : \A p \in Ports : table[p] \in Successors(p)}
  /\ shown' = IF desk = "market" THEN {p \in shown : Listed(p) # {}} ELSE shown
  /\ UNCHANGED Others

IdleLoopSteps == ListShips \/ Reconcile

-----------------------------------------------------------------------------
(* The batches of market updates. *)

Meanwhile == <<desk, berth, seen, watchers, subscribed, books, refresh, list, trips, watchFaults>>

\* The books are looked up for where the ships are by then, docked or not.
TakeBatch ==
  /\ ~batch.busy /\ dirty # {} /\ dirty' = {}
  /\ batch' = [busy |-> TRUE, found |-> {berth[s].at : s \in {t \in dirty : berth[t].at \in books[t]}}]
  /\ UNCHANGED <<Meanwhile, pushes, shown>>

WriteBatch ==
  /\ batch.busy /\ batch' = NoBatch
  /\ shown' = shown \cup batch.found
  /\ UNCHANGED <<Meanwhile, pushes, dirty>>

BatchSteps == TakeBatch \/ WriteBatch

WatchNext ==
  \/ \E s \in Ships : Moves(s) \/ Pushed(s) \/ RefreshSteps(s) \/ GivenUp(s)
  \/ IdleLoopSteps
  \/ BatchSteps

\* The idle loop ticks and refreshes every connected ship; batches are taken.
WatchFairness ==
  /\ \A s \in Ships : WF_watchVars(RefreshSteps(s))
  /\ WF_watchVars(IdleLoopSteps)
  /\ WF_watchVars(BatchSteps)

WatchSpec == WatchInit /\ [][WatchNext]_watchVars /\ WatchFairness

-----------------------------------------------------------------------------
(* Properties. *)

\* Ships that stay where they are get one watcher per port, one of those that are there,
\* and nobody else stays subscribed to the view; the shared knowledge comes to have the
\* books of the ports with a ship docked, and no others: whatever watches were lost to
\* lists that were out of date, whatever answers came late, and though refreshes,
\* batches and the idle loop overwrite each other.
TablesSettle ==
  /\ <>[](/\ \A p \in Ports : watchers[p] = Owner(watchers[p], Candidates(p))
          /\ desk = "sight" => \A s \in Ships : subscribed[s] # Nobody => watchers[berth[s].at] = s)
  /\ <>[](desk = "market" => shown = {p \in Ports : Candidates(p) # {}})
=============================================================================
