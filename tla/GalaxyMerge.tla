---------------------------- MODULE GalaxyMerge ----------------------------
(***************************************************************************)
(* What several bots see is merged into one knowledge (prayer-sdk,         *)
(* knowledge/ingestion; prayer-runtime, knowledge/merge.rs).  Observations *)
(* carry the time they were made and arrive in any order; many are partial.*)
(* The knowledge has a version, which clients and the writer of the file   *)
(* go by, and a route table, which is built when it is first asked for and *)
(* is shared by all copies of a galaxy.                                    *)
(***************************************************************************)
EXTENDS Naturals, FiniteSets

CONSTANTS
  Observations,   \* what may arrive: [at, systems, pois, reports, agents]
  Systems,        \* where the mobile capital may be
  Restamp,        \* how old a sighting grows before it is stamped again
  MaxTaken,       \* bound: observations and moves
  MaxKept,        \* bound: copies of the galaxy that readers keep
  Unseen, Nobody

FactNames == {"name", "stronghold", "count", "survey"}

IsSystem(r) ==
  /\ r = [facts |-> [f \in FactNames |-> r.facts[f]], links |-> r.links, allLinks |-> r.allLinks,
          at |-> r.at, first |-> r.first, last |-> r.last, scanned |-> r.scanned]
  /\ r.allLinks \in BOOLEAN /\ {r.at, r.first, r.last, r.scanned} \subseteq Nat
IsPoi(r) ==
  /\ r = [system |-> r.system, info |-> [name |-> r.info.name, base |-> r.info.base], allInfo |-> r.allInfo,
          resources |-> [x \in DOMAIN r.resources |-> r.resources[x]], allResources |-> r.allResources,
          at |-> r.at, first |-> r.first, last |-> r.last]
  /\ {r.info.base, r.allInfo, r.allResources} \subseteq BOOLEAN /\ {r.at, r.first, r.last} \subseteq Nat

\* What an observation says has its time; one that lists the places of a system (the
\* answer of get_system) has no others.
ASSUME ObservationsAssumption ==
  /\ Restamp \in Nat \ {0} /\ Nobody \notin Observations
  /\ \A o \in Observations :
       /\ o.at \in Nat
       /\ \A s \in DOMAIN o.systems :
            LET i == o.systems[s]
            IN /\ IsSystem(i) /\ ((\E f \in FactNames : i.facts[f] # Unseen) => i.at = o.at)
               /\ i.facts["count"] # Unseen => \A p \in DOMAIN o.pois : o.pois[p].system = s
       /\ \A p \in DOMAIN o.pois : IsPoi(o.pois[p]) /\ o.pois[p].at = o.at

VARIABLES
  galaxy,     \* [systems, pois]: records by id
  tables,     \* [kind, place] -> what was last reported
  sightings,  \* agent_sightings: [ship, first, last] by agent
  version,    \* knowledge_version
  cell, built,   \* the cell of the galaxy's route table; what has been built in which cell
  kept,       \* copies of the galaxy: [graph, cell]
  dated,      \* history: for each fact held, when the observation it is from was made
  last, taken    \* history: the observation before; how many there were

mergeVars == <<galaxy, tables, sightings, version, cell, built, kept, dated, last, taken>>

Never == 0    \* no stamp
Empty == [x \in {} |-> 0]
One(key, value) == [x \in {key} |-> value]
\* Entries that are inserted replace those of the same key.
Over(new, old) ==
  [x \in DOMAIN new \cup DOMAIN old |-> IF x \in DOMAIN new THEN new[x] ELSE old[x]]

MergeInit ==
  /\ galaxy = [systems |-> Empty, pois |-> Empty] /\ tables = Empty /\ sightings = Empty
  /\ version = 0 /\ cell = 1 /\ built = Empty /\ kept = {}
  /\ dated = Empty /\ last = Nobody /\ taken = 0

-----------------------------------------------------------------------------
(* Records. *)

Earliest(a, b) == IF a = Never \/ (b # Never /\ b < a) THEN b ELSE a
Latest(a, b)   == IF b > a THEN b ELSE a

Given(facts) == {f \in DOMAIN facts : facts[f] # Unseen}
Updated(old, new) == [f \in DOMAIN old |-> IF new[f] # Unseen THEN new[f] ELSE old[f]]

\* Mutant: an observation replaces what is known whenever it arrives.
AnyTime(incoming, current) == TRUE

Newer(incoming, current) == incoming.at >= current.at

\* merge_system_record.  The facts: what replaces the old when it is given (name,
\* coordinates, empire), stronghold, the count of a complete list of POIs, the survey.
SystemDiffers(c, i) ==
  \/ \E f \in Given(i.facts) : c.facts[f] # i.facts[f]
  \/ (i.allLinks \/ i.links # {}) /\ c.links # i.links

MergedSystem(c, i) ==
  LET known == IF Newer(i, c) /\ SystemDiffers(c, i)
               THEN [c EXCEPT !.facts = Updated(@, i.facts), !.at = i.at,
                              !.links = IF i.allLinks THEN i.links ELSE @ \cup i.links,
                              !.allLinks = @ \/ i.allLinks]
               ELSE c
  IN [known EXCEPT !.first = Earliest(@, i.first), !.last = Latest(@, i.last),
                   !.scanned = Latest(@, i.scanned)]

\* merge_partial_poi_info: what an incomplete observation leaves out is kept.
PartialInfo(old, new) ==
  [name |-> IF new.name # Unseen THEN new.name ELSE old.name, base |-> old.base \/ new.base]

\* merge_partial_resource, for the resources an incomplete observation names.
PatchedResources(old, i) == IF i.allResources THEN i.resources ELSE Over(i.resources, old)

\* merge_poi_record.
PoiDiffers(c, i) ==
  \/ i.info # c.info \/ (i.allInfo /\ ~c.allInfo)
  \/ (i.allResources \/ i.resources # Empty) /\ (i.resources # c.resources \/ (i.allResources /\ ~c.allResources))

MergedPoi(c, i) ==
  LET known == IF Newer(i, c) /\ PoiDiffers(c, i)
               THEN [c EXCEPT !.info = IF i.allInfo THEN i.info ELSE PartialInfo(@, i.info),
                              !.allInfo = @ \/ i.allInfo,
                              !.resources = PatchedResources(@, i),
                              !.allResources = @ \/ i.allResources,
                              !.at = Latest(@, i.at)]
               ELSE c
  IN IF c.system # i.system THEN c      \* a conflicting identity is refused
     ELSE [known EXCEPT !.first = Earliest(@, i.first), !.last = Latest(@, i.last)]

Merged(known, incoming, Merge(_, _)) ==
  [id \in DOMAIN known \cup DOMAIN incoming |->
     IF id \notin DOMAIN known THEN incoming[id]
     ELSE IF id \notin DOMAIN incoming THEN known[id] ELSE Merge(known[id], incoming[id])]

\* A complete list of POIs, unless an older scan than the last, removes the others.
Current(o, s) ==
  LET i == o.systems[s]
      stamp == IF i.scanned = Never THEN i.at ELSE i.scanned
  IN i.facts.count # Unseen /\ (s \in DOMAIN galaxy.systems => stamp >= galaxy.systems[s].scanned)
Lists(o, p, s) == p \in DOMAIN o.pois /\ o.pois[p].system = s
Gone(o) ==
  {p \in DOMAIN galaxy.pois :
     LET s == galaxy.pois[p].system
     IN s \in DOMAIN o.systems /\ Current(o, s) /\ ~Lists(o, p, s)}

MergedGalaxy(o) ==
  [systems |-> Merged(galaxy.systems, o.systems, MergedSystem),
   pois |-> Merged([p \in DOMAIN galaxy.pois \ Gone(o) |-> galaxy.pois[p]], o.pois, MergedPoi)]

\* What the route table is made of.
Graph(g) == [s \in DOMAIN g.systems |-> [links |-> g.systems[s].links, stronghold |-> g.systems[s].facts.stronghold = "yes"]]

\* Mutant: a stronghold that is discovered does not change the routes.
LinksChanged(g, h) ==
  DOMAIN g.systems # DOMAIN h.systems \/ \E s \in DOMAIN g.systems : g.systems[s].links # h.systems[s].links

RoutingChanged(g, h) == Graph(g) # Graph(h)

\* merge_agent_sighting: the same ship is stamped again only after a while.
Sighted(a, ship, at) ==
  IF a \notin DOMAIN sightings THEN [ship |-> ship, first |-> at, last |-> at]
  ELSE LET s == sightings[a]
       IN IF ship # s.ship \/ at >= s.last + Restamp
          THEN [ship |-> ship, first |-> Earliest(s.first, at), last |-> at] ELSE s

\* Passengers, wrecks and garages do not make a new version.
Counted == {"market", "storage", "agents", "wildlife"}
CountedPart(t) == [x \in {x \in DOMAIN t : x.kind \in Counted} |-> t[x]]
Known(g, t, s) == <<g, CountedPart(t), s>>

\* Mutant: whatever is reported makes a new version.
Arrived(o, g, s) == g # galaxy \/ s # sightings \/ DOMAIN o.reports # {}

Versioned(o, g, s) ==
  \/ g # galaxy \/ s # sightings
  \/ \E x \in DOMAIN o.reports : x.kind \in Counted /\ (x \notin DOMAIN tables \/ tables[x] # o.reports[x])

-----------------------------------------------------------------------------
(* History: where what is held comes from. *)

FactOf(g, x) == IF x.fact = "info" THEN g.pois[x.id].info.name ELSE g.systems[x.id].facts[x.fact]
HeldFacts(g) ==
  {x \in [id : DOMAIN g.systems, fact : {"name", "stronghold", "count"}] : FactOf(g, x) # Unseen}
    \cup {x \in [id : DOMAIN g.pois, fact : {"info"}] : FactOf(g, x) # Unseen}
DatedBy(g, at) ==
  [x \in HeldFacts(g) |->
     IF x \in HeldFacts(galaxy) /\ FactOf(g, x) = FactOf(galaxy, x) THEN dated[x] ELSE at]

-----------------------------------------------------------------------------
(* Actions. *)

\* merge_observation_into_knowledge.
Ingest(o) ==
  /\ taken < MaxTaken /\ taken' = taken + 1 /\ last' = o
  /\ LET g == MergedGalaxy(o)
         s == Over([a \in DOMAIN o.agents |-> Sighted(a, o.agents[a], o.at)], sightings)
     IN /\ galaxy' = g /\ sightings' = s
        /\ cell' = IF RoutingChanged(galaxy, g) THEN cell + 1 ELSE cell
        /\ version' = IF Versioned(o, g, s) THEN version + 1 ELSE version
        /\ dated' = DatedBy(g, o.at)
  /\ tables' = Over(o.reports, tables)
  /\ UNCHANGED <<built, kept>>

\* refresh_mobile_capital_location_once: the capital is where the game says it is now,
\* and the routes are built at once.
Capital(s) ==
  LET old == IF "capital" \in DOMAIN galaxy.pois THEN galaxy.pois["capital"]
             ELSE [resources |-> Empty, allResources |-> FALSE, at |-> Never, first |-> Never, last |-> Never]
  IN [system |-> s, info |-> [name |-> "capital", base |-> TRUE], allInfo |-> TRUE,
      resources |-> old.resources, allResources |-> old.allResources,
      at |-> old.at, first |-> old.first, last |-> old.last]
Blank == [facts |-> [f \in FactNames |-> Unseen], links |-> {}, allLinks |-> FALSE,
          at |-> Never, first |-> Never, last |-> Never, scanned |-> Never]
MoveCapital(s) ==
  /\ taken < MaxTaken /\ taken' = taken + 1 /\ last' = Nobody
  /\ LET g == [systems |-> Over(galaxy.systems, One(s, Blank)), pois |-> Over(One("capital", Capital(s)), galaxy.pois)]
     IN IF g = galaxy THEN UNCHANGED <<galaxy, version, cell, built, dated>>
        ELSE /\ galaxy' = g /\ version' = version + 1 /\ cell' = cell + 1
             /\ built' = Over(One(cell + 1, Graph(g)), built)
             /\ dated' = DatedBy(g, galaxy'.pois["capital"].at)
  /\ UNCHANGED <<tables, sightings, kept>>

\* A reader keeps a copy, which shares the cell; whoever is first asks for a route.
Here == [graph |-> Graph(galaxy), cell |-> cell]
Keep ==
  /\ Cardinality(kept) < MaxKept /\ Here \notin kept /\ kept' = kept \cup {Here}
  /\ UNCHANGED <<galaxy, tables, sightings, version, cell, built, dated, last, taken>>
Ask(x) ==
  /\ x.cell \notin DOMAIN built /\ built' = Over(One(x.cell, x.graph), built)
  /\ UNCHANGED <<galaxy, tables, sightings, version, cell, kept, dated, last, taken>>

MergeNext ==
  \/ \E o \in Observations : Ingest(o)
  \/ \E s \in Systems : MoveCapital(s)
  \/ Keep \/ \E x \in kept \cup {Here} : Ask(x)

MergeSpec == MergeInit /\ [][MergeNext]_mergeVars

-----------------------------------------------------------------------------
(* Properties. *)

\* In whatever order observations of different bots arrive, the one a fact is taken
\* from is never replaced by one that was made before it.
FactsMoveForward ==
  [][\A x \in DOMAIN dated \cap DOMAIN dated' : dated'[x] >= dated[x]]_mergeVars

\* The version moves exactly when what it stands for changes - a stamp, a place that is
\* gone, a sighting - and an observation that arrives twice changes nothing.
VersionsFollowChanges ==
  [][taken' # taken =>
     /\ version' # version <=> Known(galaxy', tables', sightings') # Known(galaxy, tables, sightings)
     /\ \A o \in Observations : (o = last /\ Ingest(o)) => galaxy' = galaxy /\ version' = version]_mergeVars

\* Nobody is ever routed by another galaxy than his own: not by one that has changed
\* since, nor through a table that the holder of another copy has built.
RoutesAreCurrent ==
  \A x \in kept \cup {Here} : x.cell \in DOMAIN built => built[x.cell] = x.graph

=============================================================================
