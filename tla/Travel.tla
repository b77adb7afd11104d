------------------------------- MODULE Travel -------------------------------
(***************************************************************************)
(* Commands that move a ship (prayer-runtime, CommandPlanner): go, refuel, *)
(* find, mine, dock and what needs a base, wait.  Each tick the planner    *)
(* looks at a snapshot of the game and plans one call, or waits, or ends;  *)
(* what must last to the next tick is its continuation.  The game answers, *)
(* refuses, or its answer is lost after the ship has left; a journey ends  *)
(* at any later moment.                                                    *)
(***************************************************************************)
EXTENDS Routes

CONSTANTS
  Galaxies,        \* a sequence of galaxies, see below
  HoldSize,        \* units of cargo until the hold is full
  MaxJobs, MaxLost \* bounds: commands, answers that are lost

\* A galaxy: links (the jump graph), strongholds, at (the system of each POI), and
\* sets: stations, bases, mines (POIs), empire (systems), known, holding (POIs known
\* at first, POIs with the resource that is looked for), jobs (commands: [name, target]).
Nowhere == 0

ASSUME GalaxiesAssumption ==
  /\ HoldSize \in Nat
  /\ \A g \in DOMAIN Galaxies :
       LET m == Galaxies[g] IN
       /\ IsGraph(m.links) /\ m.starts \cup m.strongholds \subseteq Nodes(m.links)
       /\ DOMAIN m.at \subseteq Nat \ {Nowhere} /\ m.at \in [DOMAIN m.at -> Nodes(m.links)]
       /\ m.known \subseteq DOMAIN m.at
       /\ \A j \in m.jobs : j.name = "go" => j.target \in [system : Nat, poi : Nat]

System(s) == [system |-> s, poi |-> Nowhere]
NoJob == [name |-> "none", target |-> Nowhere]

VARIABLES
  galaxy,          \* its number
  ship,            \* system, poi, docked, going (destination), full (fuel), cargo
  seen,            \* knowledge: pois known, visited; systems entered, surveyed
  view,            \* planning_state: ship and knowledge as of the last refresh
  job, kept,       \* the command and its continuation
  asked,           \* the call in progress and the phase it is made in
  jobs, lost,      \* counters
  trip,            \* history: what the way of a go cost so far, what it should cost
  ended            \* history: the command that ended, how, and where the ship was

travelVars == <<galaxy, ship, seen, view, job, kept, asked, jobs, lost, trip, ended>>
Map == Galaxies[galaxy]
RouteTables == [g \in DOMAIN Galaxies |-> RouteTable(Galaxies[g].links, Galaxies[g].strongholds)]
Penalties   == [g \in DOMAIN Galaxies |-> WithinHops(Galaxies[g].links, Galaxies[g].strongholds, PenaltyRadius)]
Table == RouteTables[galaxy]
NotEnded == [job |-> NoJob, how |-> "none"]
Nothing == [call |-> "none", to |-> System(Nowhere)]
NotGoing == System(Nowhere)

TravelInit ==
  /\ galaxy \in DOMAIN Galaxies
  /\ \E s \in Map.starts :
       /\ ship = [system |-> s, poi |-> Nowhere, docked |-> FALSE, going |-> NotGoing, full |-> FALSE, cargo |-> 0]
       /\ seen = [pois |-> Map.known, visited |-> {}, entered |-> {s}, surveyed |-> {}]
  /\ view = [ship |-> ship, seen |-> seen]
  /\ job = NoJob /\ kept = Nowhere /\ asked = Nothing /\ jobs = 0 /\ lost = 0
  /\ trip = [spent |-> 0, cost |-> 0] /\ ended = NotEnded

-----------------------------------------------------------------------------
(* What a tick looks at.  Each of these is a function of the view.           *)

Here == view.ship.system
At(s) == {p \in view.seen.pois : Map.at[p] = s}
Unvisited(s) == At(s) \ view.seen.visited
Nearest(set, distance(_)) == {x \in set : distance(x) # Unreachable /\ \A y \in set : distance(x) <= distance(y)}
Smallest(set) == {x \in set : \A y \in set : x <= y}

\* resolve_go_target.
GoTarget(target) ==
  IF target.poi = Nowhere THEN target ELSE [target EXCEPT !.system = Map.at[target.poi]]
Known(target) ==
  IF target.poi = Nowhere THEN target.system \in Nodes(Map.links) ELSE target.poi \in view.seen.pois

\* nearest_refuel_station: an empire station here, else the one that is cheapest to
\* reach; never one in the system of a stronghold.
Refuels(p) == p \in Map.stations /\ Map.at[p] \in Map.empire \ Map.strongholds
Stop(p) == [system |-> Map.at[p], poi |-> p]
RefuelStation ==
  IF view.ship.poi # Nowhere /\ Refuels(view.ship.poi) THEN {view.ship.poi}
  ELSE Smallest(Nearest({p \in view.seen.pois : Refuels(p)}, LAMBDA p : PathCost(Table, Here, Map.at[p])))

\* nearest_mining_poi ranks by jumps, whatever order the map has among equals.
MiningPois ==
  LET mines == view.seen.pois \cap Map.mines
  IN Nearest(IF mines = {} THEN view.seen.pois ELSE mines, LAMBDA p : HopDistance(Table, Here, Map.at[p]))

\* ordered_find_target_systems, nearest_find_navigation_target.
Unexplored == {s \in Nodes(Map.links) \ {Here} : Unvisited(s) # {} \/ s \notin view.seen.entered}
FindSystem == Smallest(Nearest(Unexplored, LAMBDA s : HopDistance(Table, Here, s)))

\* dock_target_in_current_system.
DockTargets ==
  LET bases == At(Here) \cap Map.bases
  IN IF view.ship.poi \in bases THEN {view.ship.poi} ELSE bases

-----------------------------------------------------------------------------
(* Plans: what a tick does next.  A plan is a call, or how the tick ends.    *)

Call(c, to) == [call |-> c, to |-> to]
Ends(how)   == Call(how, NotGoing)    \* "done", "halt", "failed", "again", "paused"

\* step_toward_target.
Toward(to) ==
  IF view.ship.docked THEN Call("undock", NotGoing)
  ELSE IF Here = to.system THEN (IF to.poi = Nowhere THEN Ends("done") ELSE Call("travel", Stop(to.poi)))
  ELSE LET hop == NextHop(Table, Here, to.system)
       IN IF hop = NoHop THEN Ends("failed") ELSE Call("jump", System(hop))

\* plan_ensure_docked, then what is to be done there.
Docked(p, body) ==
  IF view.ship.poi # p THEN (IF view.ship.docked THEN Call("undock", NotGoing) ELSE Call("approach", Stop(p)))
  ELSE IF ~view.ship.docked THEN Call("dock", NotGoing) ELSE body

PlanGo ==
  IF ~Known(job.target) THEN {Ends("failed")}
  ELSE LET to == GoTarget(job.target)
       IN {IF (IF to.poi # Nowhere THEN view.ship.poi = to.poi ELSE Here = to.system)
           THEN Ends("done") ELSE Toward(to)}

PlanRefuel ==
  IF view.ship.full THEN {Ends("done")}
  ELSE IF kept # Nowhere \/ RefuelStation # {}
  THEN {IF Here # Map.at[p] \/ view.ship.poi # p THEN Toward(Stop(p))
        ELSE IF ~view.ship.docked THEN Call("dock", NotGoing) ELSE Call("refuel", NotGoing)
        : p \in IF kept # Nowhere THEN {kept} ELSE RefuelStation}
  ELSE {Call("refuel", NotGoing)}

\* find_explore: an unvisited POI here stands in the way of any other system.
Explore ==
  IF Unvisited(Here) = {} /\ FindSystem # {} THEN {Toward(System(s)) : s \in FindSystem}
  ELSE IF Unexplored = {} /\ Unvisited(Here) # {} THEN {Ends("again")} ELSE {Ends("halt")}

\* start_find, find_anywhere.
PlanFind ==
  IF view.seen.visited \cap Map.holding # {} THEN {Ends("done")}
  ELSE IF view.ship.docked THEN {Call("undock", NotGoing)}
  ELSE IF Unvisited(Here) # {} /\ view.ship.poi \notin Smallest(Unvisited(Here))
  THEN {Toward(Stop(p)) : p \in Smallest(Unvisited(Here))}
  ELSE IF Here \notin view.seen.surveyed THEN {Call("survey", NotGoing)}
  ELSE Explore

PlanMine ==
  IF view.ship.cargo = HoldSize THEN {Ends("done")}
  ELSE IF MiningPois = {} THEN {Ends("halt")}
  ELSE {IF view.ship.poi = p THEN Call("mine", NotGoing) ELSE Toward(Stop(p)) : p \in MiningPois}

\* start_dock, start_set_home, and what passes through once docked.
PlanDock ==
  IF DockTargets = {} THEN {Ends(IF job.name = "serve" THEN "halt" ELSE "done")}
  ELSE {Docked(p, IF job.name = "dock" THEN Ends("done") ELSE Call("serve", NotGoing)) : p \in DockTargets}

\* start_wait: kept is one more than the ticks that remain.
Remaining == IF kept = Nowhere THEN job.target ELSE kept - 1
PlanWait == {Ends(IF Remaining = 0 THEN "done" ELSE "paused")}

PlansOf ==
  CASE job.name = "go" -> PlanGo [] job.name = "refuel" -> PlanRefuel [] job.name = "find" -> PlanFind
    [] job.name = "mine" -> PlanMine [] job.name = "wait" -> PlanWait
    [] job.name \in {"dock", "set_home", "serve"} -> PlanDock
    [] OTHER -> {Call("serve", NotGoing)}

\* Mutant: a ship that is on its way is planned for.
PlansInTransit == PlansOf

\* start: a ship that is on its way is waited for.
Plans == IF view.ship.going # NotGoing THEN {Ends("paused")} ELSE PlansOf

\* The continuation after this tick: the ticks of a wait, the station of a refuel,
\* that a go was under way.
\* Mutant: waiting does not count.
KeepsTicks(p) ==
  IF view.ship.going # NotGoing THEN kept ELSE
  CASE job.name = "wait" -> Remaining + 1
    [] job.name = "refuel" /\ kept = Nowhere /\ ~view.ship.full /\ RefuelStation # {} -> CHOOSE r \in RefuelStation : TRUE
    [] job.name = "go" -> 1
    [] OTHER -> kept

Keeps(p) ==
  IF view.ship.going # NotGoing THEN kept ELSE
  CASE job.name = "wait" -> IF p.call = "paused" THEN Remaining ELSE kept
    [] job.name = "refuel" /\ kept = Nowhere /\ ~view.ship.full /\ RefuelStation # {} -> CHOOSE r \in RefuelStation : TRUE
    [] job.name = "go" -> 1
    [] OTHER -> kept

-----------------------------------------------------------------------------
(* Ticks.                                                                    *)

\* The tick ends, and with it the command if it is done or has failed.
Concludes(how) ==
  IF how \in {"again", "paused"}
  THEN asked' = Call("look", NotGoing) /\ UNCHANGED <<job, ended>>
  ELSE /\ asked' = Nothing /\ job' = NoJob
       /\ ended' = [job |-> job, how |-> how, ship |-> ship', seen |-> seen']

Submit ==
  /\ job = NoJob /\ jobs < MaxJobs /\ jobs' = jobs + 1
  /\ job' \in Map.jobs /\ kept' = Nowhere /\ asked' = Call("look", NotGoing)
  /\ trip' = [spent |-> 0, cost |-> 0] /\ ended' = NotEnded
  /\ UNCHANGED <<galaxy, ship, seen, view, lost>>

\* refresh_state: the ship's place becomes known as entered and visited.
Refreshes ==
  /\ seen' = [seen EXCEPT !.entered = @ \cup {ship.system},
                          !.visited = IF ship.going = NotGoing THEN @ \cup ({ship.poi} \ {Nowhere}) ELSE @,
                          !.pois = IF ship.going = NotGoing THEN @ \cup ({ship.poi} \ {Nowhere}) ELSE @]
  /\ view' = [ship |-> ship, seen |-> seen']

Look ==
  /\ asked.call = "look" /\ Refreshes
  /\ asked' = Call("plan", NotGoing)
  /\ UNCHANGED <<galaxy, ship, job, kept, jobs, lost, trip, ended>>

Plan ==
  /\ asked.call = "plan" /\ UNCHANGED <<galaxy, ship, seen, view, jobs, lost>>
  /\ \E p \in Plans :
       /\ kept' = Keeps(p)
       /\ IF p.call \in {"done", "halt", "failed", "again", "paused"}
          THEN Concludes(p.call) ELSE asked' = p /\ UNCHANGED <<job, ended>>
  /\ trip' = IF job.name = "go" /\ kept = Nowhere /\ Known(job.target)
             THEN [spent |-> 0, cost |-> PathCost(Table, Here, GoTarget(job.target).system)] ELSE trip

\* What the game does with a call (outside this repository).
Obeys ==
  /\ asked.call = "dock" => ship.poi \in Map.bases
  /\ asked.call = "mine" => ship.poi \in Map.mines
  /\ asked.call \in {"travel", "approach", "jump", "mine", "survey"} => ~ship.docked
  /\ asked.call \in {"travel", "approach", "jump"} => ship.going = NotGoing
  /\ ship' = [ship EXCEPT
       !.docked = CASE asked.call = "dock" -> TRUE [] asked.call = "undock" -> FALSE [] OTHER -> @,
       !.going  = IF asked.call \in {"travel", "approach", "jump"} THEN asked.to ELSE @,
       !.full   = asked.call = "refuel" \/ @,
       !.cargo  = IF asked.call = "mine" /\ @ < HoldSize THEN @ + 1 ELSE @]
  /\ seen' = IF asked.call # "survey" THEN seen
             ELSE [seen EXCEPT !.surveyed = @ \cup {ship.system},
                               !.pois = @ \cup {p \in DOMAIN Map.at : Map.at[p] = ship.system}]

InGame == asked.call \in {"undock", "dock", "travel", "approach", "jump", "refuel", "survey", "mine", "serve"}

\* AwaitPositioning, AwaitTransitCall and AwaitMineStrike end the tick, AwaitFinalCall
\* the command.
Accepted ==
  /\ InGame /\ asked.call # "survey" /\ Obeys
  /\ Concludes(IF asked.call \in {"refuel", "serve"} THEN "done" ELSE "again")
  /\ UNCHANGED <<galaxy, view, kept, jobs, lost, trip>>

\* A depleted location is tried again; any other refusal is the command's.
Refused ==
  /\ InGame /\ asked.call # "survey"
  /\ UNCHANGED <<ship, seen>>
  /\ \/ Concludes("failed")
     \/ asked.call = "mine" /\ ship.poi \in Map.mines /\ ~ship.docked /\ Concludes("again")
  /\ UNCHANGED <<galaxy, view, kept, jobs, lost, trip>>

\* AwaitSurveyThenExplore: whatever became of the survey, and with the view from before it.
Surveyed ==
  /\ asked.call = "survey"
  /\ Obeys \/ UNCHANGED <<ship, seen>>
  /\ \E p \in Explore :
       IF p.call \in {"done", "halt", "failed", "again"} THEN Concludes(p.call) ELSE asked' = p /\ UNCHANGED <<job, ended>>
  /\ UNCHANGED <<galaxy, view, kept, jobs, lost, trip>>

\* The answer is lost, before or after the call took effect.
Lost ==
  /\ InGame /\ asked.call # "survey" /\ lost < MaxLost /\ lost' = lost + 1
  /\ Obeys \/ UNCHANGED <<ship, seen>>
  /\ IF asked.call \in {"travel", "jump"}
     THEN asked' = Call("confirm", asked.to) /\ UNCHANGED <<job, ended>>
     ELSE Concludes("failed")
  /\ UNCHANGED <<galaxy, view, kept, jobs, trip>>

\* continue_transit_confirm, after RefreshState; the refresh may fail, too.
Confirm ==
  /\ asked.call = "confirm"
  /\ \/ Refreshes /\ UNCHANGED ship /\ Concludes(IF ship.going = asked.to THEN "again" ELSE "failed")
     \/ UNCHANGED <<view, ship, seen>> /\ Concludes("failed")
  /\ UNCHANGED <<galaxy, kept, jobs, lost, trip>>

Weight(s) == IF s \in Penalties[galaxy] THEN 2 ELSE 1
Arrive ==
  /\ ship.going # NotGoing
  /\ ship' = [ship EXCEPT !.system = ship.going.system, !.poi = ship.going.poi, !.going = NotGoing,
                          !.full = @ /\ ship.going.system = ship.system]
  /\ trip' = IF ship.going.system = ship.system \/ job.name # "go" THEN trip ELSE [trip EXCEPT !.spent = @ + Weight(ship.going.system)]
  /\ UNCHANGED <<galaxy, seen, view, job, kept, asked, jobs, lost, ended>>

TravelNext ==
  Submit \/ Look \/ Plan \/ Accepted \/ Refused \/ Surveyed \/ Lost \/ Confirm \/ Arrive

TravelSpec == TravelInit /\ [][TravelNext]_travelVars

\* The step loop goes on, ships arrive, and a strike brings something now and then.
TravelFairness ==
  /\ WF_travelVars(Look) /\ WF_travelVars(Plan) /\ WF_travelVars(Surveyed) /\ WF_travelVars(Confirm)
  /\ WF_travelVars(Accepted \/ Refused) /\ SF_travelVars(Accepted) /\ WF_travelVars(Arrive)

-----------------------------------------------------------------------------
(* Properties. *)

\* Every command ends: none walks in circles, waits for itself or forgets what it
\* was doing, wherever ships are and whatever answers are lost.
CommandsEnd == job # NoJob ~> job = NoJob

\* The table holds cheapest ways, and a go takes one: what its jumps have cost and what
\* is still ahead make what it was to cost at first; when it is done the ship is where
\* it was sent.
TripsAreShortest ==
  /\ jobs = 0 => RoutesAreCheapest(Map.links, Map.strongholds, Table)
  /\ job.name = "go" /\ kept # Nowhere =>
       trip.spent + PathCost(Table, ship.system, GoTarget(job.target).system) = trip.cost
  /\ ended.job.name = "go" /\ ended.how = "done" =>
       IF ended.job.target.poi = Nowhere THEN ended.ship.system = ended.job.target.system
       ELSE ended.ship.poi = ended.job.target.poi

\* What a command reports is so in the game, although it is planned on a snapshot:
\* the tank is full, the ship docked, the hold full, the thing found; a search that
\* gives up has been in every system that can be reached.
EndsAreTrue ==
  /\ ended.job.name = "refuel" /\ ended.how = "done" => ended.ship.full
  /\ ended.job.name = "dock" /\ ended.how = "done" =>
       ended.ship.docked \/ ~\E p \in ended.seen.pois \cap Map.bases : Map.at[p] = ended.ship.system
  /\ ended.job.name = "mine" /\ ended.how = "done" => ended.ship.cargo = HoldSize
  /\ ended.job.name = "find" /\ ended.how = "done" => ended.seen.visited \cap Map.holding # {}
  /\ ended.job.name = "find" /\ ended.how = "halt" =>
       \A s \in Nodes(Map.links) : HopDistance(Table, ended.ship.system, s) # Unreachable => s \in ended.seen.entered
=============================================================================
