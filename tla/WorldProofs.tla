----------------------------- MODULE WorldProofs -----------------------------
(***************************************************************************)
(* Those who change and read the shared world: for any number of requests, *)
(* keys, runs, crashes, readers, versions, observations and copies.        *)
(*  - Retries: one run for each idempotency key, and records that survive; *)
(*  - StateReads: what a client puts together from answers is one state of *)
(*    the world, as far as versions tell states apart;                     *)
(*  - GalaxyMerge: routes, versions and facts of the merged knowledge.     *)
(***************************************************************************)
EXTENDS Retries, StateReads, GalaxyMerge, FiniteSetTheorems, SequenceTheorems, TLAPS

-----------------------------------------------------------------------------
(* Idempotency keys (Retries). *)

Phases == {"waiting", "looking", "starting", "claimed", "started", "recorded", "writing",
           "answered", "replayed", "refused", "dropped"}
Holding == {"looking", "starting", "claimed", "started", "recorded", "writing"}
WithRun == {"claimed", "started", "recorded", "writing", "answered", "replayed"}
Asked == [phase : Phases, key : IdempotencyKeys, body : Bodies, run : Nat]
Runs  == [key : IdempotencyKeys, body : Bodies, begun : BOOLEAN]

RetryTypeOK ==
  /\ requests \in [Requests -> {Idle} \cup Asked]
  /\ gates \in [Gates -> Requests \cup {NoOne}]
  /\ runs \in Seq(Runs)
  /\ lane \in [run : Nat, stage : {"free", "claimed", "loaded", "running"}]

\* Run i is one for this key and this body.
Names(log, i, k, b) == i \in 1..Len(log) /\ log[i].key = k /\ log[i].body = b
AllTrue(f, log) == \A k \in DOMAIN f : k \in IdempotencyKeys /\ f[k] \in Recorded /\ Names(log, f[k].run, k, f[k].body)

\* Who is past the gate of a key holds it; who has a run has one of its own key.
Holders ==
  \A r \in Requests :
    /\ Phase(r) \in Holding => gates[Gate(Key(r))] = r
    /\ Phase(r) \in WithRun => Names(runs, requests[r].run, Key(r), requests[r].body)
    /\ Phase(r) \in {"claimed", "recorded", "writing"} => Key(r) \in RunKeys
    /\ Phase(r) = "claimed" => lane.run = requests[r].run /\ lane.stage \in {"claimed", "loaded"}

\* Whatever a key began is in its record, or its request is about to record it.
KeysBegin ==
  /\ \A r \in Requests : Phase(r) \in {"starting", "claimed"} /\ Key(r) \notin excused => BegunFor(Key(r)) = {}
  /\ \A r \in Requests : Phase(r) = "started" /\ Key(r) \notin excused => BegunFor(Key(r)) \subseteq {requests[r].run}
  /\ \A k \in IdempotencyKeys \ excused :
       /\ \A i, j \in BegunFor(k) : i = j
       /\ BegunFor(k) = {} \/ k \in DOMAIN records \/ \E r \in Requests : Phase(r) = "started" /\ Key(r) = k

IsFile(f, log) == DOMAIN f \subseteq RunKeys /\ f \in [DOMAIN f -> Recorded] /\ AllTrue(f, log)

\* Every record, in memory, on its way to the file and in the file, names a run of its key.
RecordsTrue ==
  /\ AllTrue(records, runs)
  /\ file \in {Garbled, Nothing} \/ IsFile(file, runs)
  /\ \A w \in DOMAIN writers : IsFile(writers[w], runs)

OnceInv == RetryTypeOK /\ Holders /\ KeysBegin /\ RecordsTrue

\* As long as no two writes overlap, what is being written contains what the file
\* contains, and memory contains both.
FileGrows ==
  /\ file # Garbled
  /\ DOMAIN Readable \subseteq DOMAIN records
  /\ \A w \in DOMAIN writers :
       /\ \A v \in DOMAIN writers : v = w
       /\ DOMAIN Readable \subseteq DOMAIN writers[w] /\ DOMAIN writers[w] \subseteq DOMAIN records
       /\ Phase(w) = "writing" => Key(w) \in DOMAIN writers[w]
  /\ \A r \in Requests : Phase(r) = "answered" /\ Key(r) \in RunKeys =>
       file # Nothing /\ Key(r) \in DOMAIN file

SurviveInv ==
  /\ \A w \in DOMAIN writers : w \in Requests
  /\ \A r \in Requests : Phase(r) \in {"recorded", "writing"} => Key(r) \in DOMAIN records
  /\ collided \/ FileGrows

-----------------------------------------------------------------------------
(* What a step changes. *)

LEMMA EmptyFile == DOMAIN << >> = {}
BY EmptySeq

LEMMA NoRecords == \A log : AllTrue(<< >>, log)
BY EmptyFile DEF AllTrue

LEMMA AskedFor ==
  ASSUME RetryTypeOK, NEW r \in Requests, Phase(r) # "idle"
  PROVE  requests[r] \in Asked
BY DEF RetryTypeOK, Phase, Idle

LEMMA PhaseMoves ==
  ASSUME RetryTypeOK, NEW r \in Requests, Phase(r) # "idle", NEW p \in Phases, To(r, p)
  PROVE  /\ requests' \in [Requests -> {Idle} \cup Asked]
         /\ Phase(r)' = p /\ Key(r)' = Key(r) /\ requests'[r].body = requests[r].body /\ requests'[r].run = requests[r].run
         /\ \A q \in Requests \ {r} : requests'[q] = requests[q]
<1>1. requests[r] \in Asked
  BY AskedFor
<1>2. [requests[r] EXCEPT !.phase = p] \in Asked
  BY <1>1 DEF Asked
<1>3. QED
  BY <1>1, <1>2 DEF To, Phase, Key, RetryTypeOK, Asked

LEMMA RunMoves ==
  ASSUME RetryTypeOK, NEW r \in Requests, Phase(r) # "idle", NEW p \in Phases, NEW n \in Nat,
         requests' = [requests EXCEPT ![r].phase = p, ![r].run = n]
  PROVE  /\ requests' \in [Requests -> {Idle} \cup Asked]
         /\ Phase(r)' = p /\ Key(r)' = Key(r) /\ requests'[r].body = requests[r].body /\ requests'[r].run = n
         /\ \A q \in Requests \ {r} : requests'[q] = requests[q]
<1>1. requests[r] \in Asked
  BY AskedFor
<1>2. [requests[r] EXCEPT !.phase = p, !.run = n] \in Asked
  BY <1>1 DEF Asked
<1>3. QED
  BY <1>1, <1>2 DEF Phase, Key, RetryTypeOK, Asked

LEMMA GateOpens ==
  ASSUME RetryTypeOK, NEW r \in Requests, GateOpened(r)
  PROVE  /\ gates' \in [Gates -> Requests \cup {NoOne}]
         /\ \A g \in Gates : gates[g] \in Requests \ {r} => gates'[g] = gates[g]
BY DEF GateOpened, RetryTypeOK

\* The runs that are recorded stay what they were.
LogGrows == \A i, k, b : Names(runs, i, k, b) => Names(runs', i, k, b)

LEMMA GateOfKey == \A k \in IdempotencyKeys : Gate(k) \in Gates
BY DEF Gate, Gates, IdempotencyKeys

\* The part of the others is untouched when one request moves.
LEMMA HoldersStep ==
  ASSUME OnceInv, LogGrows, NEW r \in Requests,
         \A q \in Requests \ {r} : requests'[q] = requests[q],
         \A g \in Gates : gates[g] \in Requests \ {r} => gates'[g] = gates[g],
         lane' = lane \/ \A q \in Requests \ {r} : Phase(q) # "claimed",
         Phase(r)' \in Holding => gates'[Gate(Key(r)')] = r,
         Phase(r)' \in WithRun => Names(runs', requests'[r].run, Key(r)', requests'[r].body),
         Phase(r)' \in {"claimed", "recorded", "writing"} => Key(r)' \in RunKeys,
         Phase(r)' = "claimed" => lane'.run = requests'[r].run /\ lane'.stage \in {"claimed", "loaded"}
  PROVE  Holders'
<1> SUFFICES ASSUME NEW q \in Requests
             PROVE  /\ Phase(q)' \in Holding => gates'[Gate(Key(q)')] = q
                    /\ Phase(q)' \in WithRun => Names(runs', requests'[q].run, Key(q)', requests'[q].body)
                    /\ Phase(q)' \in {"claimed", "recorded", "writing"} => Key(q)' \in RunKeys
                    /\ Phase(q)' = "claimed" => lane'.run = requests'[q].run /\ lane'.stage \in {"claimed", "loaded"}
  BY DEF Holders, Gate, Names
<1>1. CASE q = r
  BY <1>1
<1>2. CASE q # r
  <2>1. Phase(q)' = Phase(q) /\ Key(q)' = Key(q) /\ requests'[q] = requests[q]
    BY <1>2 DEF Phase, Key
  <2>2. Phase(q) \in Holding => Gate(Key(q)) \in Gates /\ gates[Gate(Key(q))] = q
    <3>1. ASSUME Phase(q) \in Holding PROVE Key(q) \in IdempotencyKeys
      BY <3>1, AskedFor DEF OnceInv, Asked, Holding, Key
    <3>2. QED
      BY <3>1, GateOfKey DEF OnceInv, Holders
  <2>3. Phase(q) \in WithRun => Names(runs', requests[q].run, Key(q), requests[q].body)
    BY DEF OnceInv, Holders, LogGrows
  <2>4. QED
    BY <1>2, <2>1, <2>2, <2>3 DEF OnceInv, Holders
<1>3. QED
  BY <1>1, <1>2

LEMMA SameBegun == ASSUME runs' = runs PROVE \A k : BegunFor(k)' = BegunFor(k)
BY DEF BegunFor

LEMMA KeysBeginStep ==
  ASSUME OnceInv, NEW r \in Requests, \A k : BegunFor(k)' = BegunFor(k),
         \A q \in Requests \ {r} : requests'[q] = requests[q],
         excused \subseteq excused', DOMAIN records \subseteq DOMAIN records',
         Phase(r)' \in {"starting", "claimed"} /\ Key(r)' \notin excused' => BegunFor(Key(r)') = {},
         Phase(r)' = "started" /\ Key(r)' \notin excused' => BegunFor(Key(r)') \subseteq {requests'[r].run},
         Phase(r) = "started" => \/ Phase(r)' = "started" /\ Key(r)' = Key(r)
                                 \/ Key(r) \in excused' \cup DOMAIN records'
  PROVE  KeysBegin'
<1>1. \A k : BegunFor(k)' = BegunFor(k)
  OBVIOUS
<1>2. \A q \in Requests \ {r} : Phase(q)' = Phase(q) /\ Key(q)' = Key(q) /\ requests'[q].run = requests[q].run
  BY DEF Phase, Key
<1>3. ASSUME NEW q \in Requests, Key(q)' \notin excused'
      PROVE  /\ Phase(q)' \in {"starting", "claimed"} => BegunFor(Key(q)') = {}
             /\ Phase(q)' = "started" => BegunFor(Key(q)') \subseteq {requests'[q].run}
  BY <1>2, <1>3 DEF OnceInv, KeysBegin
<1>4. ASSUME NEW k \in IdempotencyKeys \ excused'
      PROVE  /\ \A i, j \in BegunFor(k) : i = j
             /\ BegunFor(k) = {} \/ k \in DOMAIN records' \/ \E q \in Requests : Phase(q)' = "started" /\ Key(q)' = k
  <2>1. /\ \A i, j \in BegunFor(k) : i = j
        /\ BegunFor(k) = {} \/ k \in DOMAIN records \/ \E q \in Requests : Phase(q) = "started" /\ Key(q) = k
    BY <1>4 DEF OnceInv, KeysBegin
  <2>2. ASSUME NEW q \in Requests, Phase(q) = "started", Key(q) = k
        PROVE  k \in DOMAIN records' \/ \E p \in Requests : Phase(p)' = "started" /\ Key(p)' = k
    BY <1>2, <1>4, <2>2
  <2>3. QED
    BY <2>1, <2>2
<1>5. ASSUME NEW q \in Requests
      PROVE  BegunFor(Key(q))' = BegunFor(Key(q)')
  BY DEF BegunFor
<1>6. QED
  BY <1>1, <1>3, <1>4, <1>5 DEF KeysBegin

LEMMA FilesKept ==
  ASSUME LogGrows, NEW f
  PROVE  /\ AllTrue(f, runs) => AllTrue(f, runs')
         /\ IsFile(f, runs) => IsFile(f, runs')
BY DEF LogGrows, AllTrue, IsFile

\* At most one request is past the gate of a key.
LEMMA AloneAtGate ==
  ASSUME OnceInv, NEW q \in Requests, NEW r \in Requests, Phase(q) \in Holding, Phase(r) \in Holding, Key(q) = Key(r)
  PROVE  q = r
BY DEF OnceInv, Holders

\* What a key begins is known by the request that began it.
LEMMA KeyBegins ==
  ASSUME OnceInv, NEW r \in Requests, Phase(r) \in {"starting", "claimed"},
         \A q \in Requests \ {r} : requests'[q] = requests[q],
         Phase(r)' = "started", Key(r)' = Key(r), excused' = excused, records' = records,
         \A k : k # Key(r) => BegunFor(k)' = BegunFor(k),
         Key(r) \notin excused => BegunFor(Key(r))' \subseteq {requests'[r].run}
  PROVE  KeysBegin'
<1>1. \A q \in Requests \ {r} : Phase(q)' = Phase(q) /\ Key(q)' = Key(q) /\ requests'[q].run = requests[q].run
  BY DEF Phase, Key
<1>2. \A q \in Requests \ {r} : Phase(q) \in {"starting", "claimed", "started"} => Key(q) # Key(r)
  BY AloneAtGate DEF Holding
<1>3. ASSUME NEW q \in Requests, Key(q)' \notin excused
      PROVE  /\ Phase(q)' \in {"starting", "claimed"} => BegunFor(Key(q))' = {}
             /\ Phase(q)' = "started" => BegunFor(Key(q))' \subseteq {requests'[q].run}
  <2>1. CASE q = r
    BY <1>3, <2>1
  <2>2. CASE q # r
    <3>1. Phase(q) \in {"starting", "claimed", "started"} => BegunFor(Key(q))' = BegunFor(Key(q))
      <4>1. \A k : BegunFor(k)' = {i \in 1..Len(runs') : runs'[i].key = k /\ runs'[i].begun}
        BY DEF BegunFor
      <4>2. BegunFor(Key(q))' = {i \in 1..Len(runs') : runs'[i].key = Key(q) /\ runs'[i].begun}
        BY <1>1, <2>2 DEF BegunFor
      <4>3. QED
        BY <1>2, <2>2, <4>1, <4>2
    <3>2. QED
      BY <1>1, <1>3, <2>2, <3>1 DEF OnceInv, KeysBegin
  <2>3. QED
    BY <2>1, <2>2
<1>4. ASSUME NEW k \in IdempotencyKeys \ excused
      PROVE  /\ \A i, j \in BegunFor(k)' : i = j
             /\ BegunFor(k)' = {} \/ k \in DOMAIN records \/ \E q \in Requests : Phase(q)' = "started" /\ Key(q)' = k
  <2>1. CASE k = Key(r)
    <3>1. BegunFor(k)' \subseteq {requests'[r].run}
      <4>1. BegunFor(k)' = BegunFor(Key(r))'
        BY <2>1 DEF BegunFor
      <4>2. QED
        BY <1>4, <2>1, <4>1
    <3>2. QED
      BY <2>1, <3>1
  <2>2. CASE k # Key(r)
    <3>1. /\ \A i, j \in BegunFor(k) : i = j
          /\ BegunFor(k) = {} \/ k \in DOMAIN records \/ \E q \in Requests : Phase(q) = "started" /\ Key(q) = k
      BY <1>4 DEF OnceInv, KeysBegin
    <3>2. BegunFor(k)' = BegunFor(k)
      BY <2>2
    <3>3. QED
      BY <1>1, <2>2, <3>1, <3>2
  <2>3. QED
    BY <2>1, <2>2
<1>5. QED
  BY <1>3, <1>4 DEF KeysBegin

LEMMA LogAppend ==
  ASSUME RetryTypeOK, NEW x \in Runs, runs' = Append(runs, x)
  PROVE  /\ runs' \in Seq(Runs) /\ LogGrows
         /\ Len(runs) \in Nat /\ Names(runs', Len(runs) + 1, x.key, x.body)
         /\ \A k : BegunFor(k)' = BegunFor(k) \cup (IF x.key = k /\ x.begun THEN {Len(runs) + 1} ELSE {})
<1>1. /\ runs' \in Seq(Runs) /\ Len(runs) \in Nat /\ Len(runs') = Len(runs) + 1
      /\ \A i \in 1..Len(runs) : runs'[i] = runs[i]
      /\ runs'[Len(runs) + 1] = x
  BY AppendProperties, LenProperties DEF RetryTypeOK
<1>2. LogGrows
  BY <1>1 DEF LogGrows, Names
<1>3. Names(runs', Len(runs) + 1, x.key, x.body)
  BY <1>1 DEF Names
<1>4. \A k : BegunFor(k)' = BegunFor(k) \cup (IF x.key = k /\ x.begun THEN {Len(runs) + 1} ELSE {})
  BY <1>1 DEF BegunFor
<1>5. QED
  BY <1>1, <1>2, <1>3, <1>4

\* The run that is claimed begins.
LEMMA LogBegins ==
  ASSUME RetryTypeOK, NEW n \in 1..Len(runs), runs' = [runs EXCEPT ![n].begun = TRUE]
  PROVE  /\ runs' \in Seq(Runs) /\ LogGrows
         /\ \A k : BegunFor(k)' = BegunFor(k) \cup (IF runs[n].key = k THEN {n} ELSE {})
<1>1. runs \in [1..Len(runs) -> Runs] /\ Len(runs) \in Nat
  BY LenProperties DEF RetryTypeOK
<1>2. /\ runs' \in [1..Len(runs) -> Runs]
      /\ \A i \in 1..Len(runs) : runs'[i].key = runs[i].key /\ runs'[i].body = runs[i].body
      /\ \A i \in 1..Len(runs) : runs'[i].begun = (i = n \/ runs[i].begun)
  BY <1>1 DEF Runs
<1>3. runs' \in Seq(Runs) /\ Len(runs') = Len(runs)
  <2>1. runs' \in Seq(Runs)
    BY <1>1, <1>2, SeqDef
  <2>2. QED
    BY <1>1, <1>2, <2>1, LenProperties
<1>4. LogGrows
  BY <1>2, <1>3 DEF LogGrows, Names
<1>5. \A k : BegunFor(k)' = BegunFor(k) \cup (IF runs[n].key = k THEN {n} ELSE {})
  BY <1>2, <1>3 DEF BegunFor
<1>6. QED
  BY <1>3, <1>4, <1>5

-----------------------------------------------------------------------------
(* Every step keeps what is known of gates, runs and records. *)

LEMMA OnceInvInit == RetryInit => OnceInv
<1> SUFFICES ASSUME RetryInit PROVE OnceInv
  OBVIOUS
<1> USE DEF RetryInit
<1>1. RetryTypeOK
  BY DEF RetryTypeOK, NoLane
<1>2. \A r \in Requests : Phase(r) = "idle"
  BY DEF Phase, Idle
<1>3. Holders
  BY <1>2 DEF Holders, Holding, WithRun
<1>4. KeysBegin
  <2>1. Len(runs) = 0
    BY EmptySeq
  <2>2. \A k : BegunFor(k) = {}
    BY <2>1 DEF BegunFor
  <2>3. QED
    BY <1>2, <2>2 DEF KeysBegin
<1>5. RecordsTrue
  BY NoRecords, EmptyFile DEF RecordsTrue
<1>6. QED
  BY <1>1, <1>3, <1>4, <1>5 DEF OnceInv

LEMMA SameLogGrows == ASSUME runs' = runs PROVE LogGrows
BY DEF LogGrows

LEMMA RecordsKept ==
  ASSUME OnceInv, LogGrows, UNCHANGED <<records, writers, file>>
  PROVE  RecordsTrue'
BY FilesKept DEF OnceInv, RecordsTrue

LEMMA ArriveOnce ==
  ASSUME OnceInv, NEW r \in Requests, NEW k \in IdempotencyKeys, NEW b \in Bodies, Arrive(r, k, b)
  PROVE  OnceInv'
<1> DEFINE new == [phase |-> "waiting", key |-> k, body |-> b, run |-> 0]
<1>1. new \in Asked /\ requests' = [requests EXCEPT ![r] = new] /\ Phase(r) = "idle"
  BY DEF Arrive, Asked, Phases
<1>2. requests'[r] = new /\ \A q \in Requests \ {r} : requests'[q] = requests[q]
  BY <1>1 DEF OnceInv, RetryTypeOK
<1>3. RetryTypeOK'
  BY <1>1 DEF OnceInv, RetryTypeOK, Arrive
<1>4. Phase(r)' = "waiting"
  BY <1>2 DEF Phase
<1>5. LogGrows
  BY SameLogGrows DEF Arrive
<1>6. Holders'
  BY <1>2, <1>4, <1>5, HoldersStep DEF Arrive, Holding, WithRun
<1>7. KeysBegin'
  BY <1>1, <1>2, <1>4, SameBegun, KeysBeginStep DEF Arrive
<1>8. RecordsTrue'
  BY <1>5, RecordsKept DEF Arrive
<1>9. QED
  BY <1>3, <1>6, <1>7, <1>8 DEF OnceInv

LEMMA TakeGateOnce ==
  ASSUME OnceInv, NEW r \in Requests, TakeGate(r)
  PROVE  OnceInv'
<1>1. RetryTypeOK /\ Phase(r) = "waiting" /\ To(r, "looking") /\ "looking" \in Phases
  BY DEF OnceInv, TakeGate, Phases
<1>2. requests[r] \in Asked /\ Key(r) \in IdempotencyKeys /\ Gate(Key(r)) \in Gates
  BY <1>1, AskedFor, GateOfKey DEF Asked, Key
<1>3. /\ requests' \in [Requests -> {Idle} \cup Asked]
      /\ Phase(r)' = "looking" /\ Key(r)' = Key(r)
      /\ \A q \in Requests \ {r} : requests'[q] = requests[q]
  BY <1>1, PhaseMoves
<1>4. gates' = [gates EXCEPT ![Gate(Key(r))] = r] /\ gates[Gate(Key(r))] \notin Requests
  BY RetryAssumption DEF TakeGate, MayPass
<1>5. RetryTypeOK'
  BY <1>2, <1>3, <1>4 DEF RetryTypeOK, OnceInv, TakeGate
<1>6. LogGrows
  BY SameLogGrows DEF TakeGate
<1>7. Holders'
  <2>1. \A g \in Gates : gates[g] \in Requests \ {r} => gates'[g] = gates[g]
    BY <1>4 DEF OnceInv, RetryTypeOK
  <2>2. gates'[Gate(Key(r)')] = r
    BY <1>1, <1>2, <1>3, <1>4 DEF RetryTypeOK
  <2>3. lane' = lane
    BY DEF TakeGate
  <2>4. QED
    BY <1>3, <1>6, <2>1, <2>2, <2>3, HoldersStep DEF WithRun
<1>8. KeysBegin'
  BY <1>1, <1>3, SameBegun, KeysBeginStep DEF TakeGate
<1>9. RecordsTrue'
  BY <1>6, RecordsKept DEF TakeGate
<1>10. QED
  BY <1>5, <1>7, <1>8, <1>9 DEF OnceInv

\* Nothing was begun for a key whose gate one holds and that has no record.
LEMMA LookUpOnce ==
  ASSUME OnceInv, NEW r \in Requests, LookUp(r)
  PROVE  OnceInv'
<1>1. /\ RetryTypeOK /\ Phase(r) = "looking" /\ {"starting", "replayed", "refused"} \subseteq Phases
      /\ UNCHANGED <<records, writers, file, lane, runs, excused>>
  BY DEF OnceInv, LookUp, Phases
<1>2. requests[r] \in Asked /\ Key(r) \in IdempotencyKeys /\ Gate(Key(r)) \in Gates /\ gates[Gate(Key(r))] = r
  BY <1>1, AskedFor, GateOfKey DEF Asked, Key, OnceInv, Holders, Holding
<1>3. LogGrows
  BY <1>1, SameLogGrows
<1>4. RecordsTrue'
  BY <1>1, <1>3, RecordsKept
<1>5. CASE Key(r) \notin DOMAIN records
  <2>1. To(r, "starting") /\ gates' = gates
    BY <1>5 DEF LookUp
  <2>2. /\ requests' \in [Requests -> {Idle} \cup Asked]
        /\ Phase(r)' = "starting" /\ Key(r)' = Key(r)
        /\ \A q \in Requests \ {r} : requests'[q] = requests[q]
    BY <1>1, <2>1, PhaseMoves
  <2>3. RetryTypeOK'
    BY <1>1, <2>1, <2>2 DEF RetryTypeOK
  <2>4. Holders'
    BY <1>1, <1>2, <1>3, <2>1, <2>2, HoldersStep DEF WithRun
  <2>5. Key(r) \notin excused => BegunFor(Key(r)) = {}
    <3>1. ASSUME NEW q \in Requests, Phase(q) = "started", Key(q) = Key(r)
          PROVE  FALSE
      <4>1. gates[Gate(Key(q))] = q
        BY <3>1 DEF OnceInv, Holders, Holding
      <4>2. q = r
        BY <1>2, <3>1, <4>1
      <4>3. QED
        BY <1>1, <3>1, <4>2
    <3>2. QED
      BY <1>2, <1>5, <3>1 DEF OnceInv, KeysBegin
  <2>6. KeysBegin'
    BY <1>1, <2>2, <2>5, SameBegun, KeysBeginStep
  <2>7. QED
    BY <1>4, <2>3, <2>4, <2>6 DEF OnceInv
<1>6. CASE Key(r) \in DOMAIN records
  <2> DEFINE same == records[Key(r)].body = requests[r].body
             p == IF same THEN "replayed" ELSE "refused"
             n == IF same THEN records[Key(r)].run ELSE 0
  <2>1. /\ requests' = [requests EXCEPT ![r].phase = p, ![r].run = n] /\ GateOpened(r)
    BY <1>6 DEF LookUp
  <2>2. p \in Phases /\ p \in {"replayed", "refused"} /\ n \in Nat
        /\ (p = "replayed" => Names(runs, n, Key(r), requests[r].body))
    BY <1>1, <1>6 DEF OnceInv, RecordsTrue, AllTrue, Recorded
  <2> HIDE DEF p, n
  <2>3. /\ requests' \in [Requests -> {Idle} \cup Asked]
        /\ Phase(r)' = p /\ Key(r)' = Key(r) /\ requests'[r].body = requests[r].body /\ requests'[r].run = n
        /\ \A q \in Requests \ {r} : requests'[q] = requests[q]
    BY <1>1, <2>1, <2>2, RunMoves
  <2>4. /\ gates' \in [Gates -> Requests \cup {NoOne}]
        /\ \A g \in Gates : gates[g] \in Requests \ {r} => gates'[g] = gates[g]
    BY <1>1, <2>1, GateOpens
  <2>5. RetryTypeOK'
    BY <1>1, <2>3, <2>4 DEF RetryTypeOK
  <2>6. Holders'
    BY <1>1, <1>3, <2>2, <2>3, <2>4, HoldersStep DEF WithRun, Holding
  <2>7. KeysBegin'
    BY <1>1, <2>2, <2>3, SameBegun, KeysBeginStep
  <2>8. QED
    BY <1>4, <2>5, <2>6, <2>7 DEF OnceInv
<1>7. QED
  BY <1>5, <1>6

LEMMA MutateOnce ==
  ASSUME OnceInv, NEW r \in Requests, Mutate(r)
  PROVE  OnceInv'
<1> DEFINE x == [key |-> Key(r), body |-> requests[r].body, begun |-> TRUE]
           n == Len(runs) + 1
<1>1. /\ RetryTypeOK /\ Phase(r) = "starting" /\ "started" \in Phases /\ runs' = Append(runs, x)
      /\ requests' = [requests EXCEPT ![r].phase = "started", ![r].run = n]
      /\ UNCHANGED <<gates, records, writers, file, lane, excused>>
  BY DEF OnceInv, Mutate, NewRun, Phases
<1>2. requests[r] \in Asked /\ x \in Runs /\ Gate(Key(r)) \in Gates /\ gates[Gate(Key(r))] = r
  BY <1>1, AskedFor, GateOfKey DEF Asked, Runs, Key, OnceInv, Holders, Holding
<1>3. /\ runs' \in Seq(Runs) /\ LogGrows /\ n \in Nat /\ Names(runs', n, Key(r), requests[r].body)
      /\ \A k : BegunFor(k)' = BegunFor(k) \cup (IF Key(r) = k THEN {n} ELSE {})
  <2> HIDE DEF x
  <2>1. x.key = Key(r) /\ x.body = requests[r].body /\ x.begun
    BY DEF x
  <2>2. QED
    BY <1>1, <1>2, <2>1, LogAppend
<1> HIDE DEF x, n
<1>4. /\ requests' \in [Requests -> {Idle} \cup Asked]
      /\ Phase(r)' = "started" /\ Key(r)' = Key(r) /\ requests'[r].body = requests[r].body /\ requests'[r].run = n
      /\ \A q \in Requests \ {r} : requests'[q] = requests[q]
  BY <1>1, <1>3, RunMoves
<1>5. RetryTypeOK'
  BY <1>1, <1>3, <1>4 DEF RetryTypeOK
<1>6. Holders'
  BY <1>1, <1>2, <1>3, <1>4, HoldersStep
<1>7. KeysBegin'
  <2>1. Key(r) \notin excused => BegunFor(Key(r))' \subseteq {n}
    <3>1. Key(r) \notin excused => BegunFor(Key(r)) = {}
      BY <1>1 DEF OnceInv, KeysBegin
    <3>2. BegunFor(Key(r))' = BegunFor(Key(r)) \cup {n}
      <4>1. BegunFor(Key(r))' = {i \in 1..Len(runs') : runs'[i].key = Key(r) /\ runs'[i].begun}
        BY <1>4 DEF BegunFor
      <4>2. \A k : BegunFor(k)' = {i \in 1..Len(runs') : runs'[i].key = k /\ runs'[i].begun}
        BY DEF BegunFor
      <4>3. QED
        BY <1>3, <4>1, <4>2
    <3>3. QED
      BY <3>1, <3>2
  <2>2. \A k : k # Key(r) => BegunFor(k)' = BegunFor(k)
    BY <1>3
  <2>3. QED
    BY <1>1, <1>4, <2>1, <2>2, KeyBegins
<1>8. RecordsTrue'
  BY <1>1, <1>3, RecordsKept
<1>9. QED
  BY <1>5, <1>6, <1>7, <1>8 DEF OnceInv

\* A run is claimed only while no other is: the lane is one.
LEMMA AcquireOnce ==
  ASSUME OnceInv, NEW r \in Requests, Acquire(r)
  PROVE  OnceInv'
<1>1. /\ RetryTypeOK /\ Phase(r) = "starting" /\ {"claimed", "refused"} \subseteq Phases /\ Key(r) \in RunKeys
      /\ UNCHANGED <<records, writers, file, excused>>
  BY DEF OnceInv, Acquire, Phases
<1>2. requests[r] \in Asked /\ Gate(Key(r)) \in Gates /\ gates[Gate(Key(r))] = r
  BY <1>1, AskedFor, GateOfKey DEF Asked, Key, OnceInv, Holders, Holding
<1>3. CASE lane = NoLane
  <2> DEFINE x == [key |-> Key(r), body |-> requests[r].body, begun |-> FALSE]
             n == Len(runs) + 1
  <2>1. /\ runs' = Append(runs, x) /\ lane' = [run |-> n, stage |-> "claimed"] /\ gates' = gates
        /\ requests' = [requests EXCEPT ![r].phase = "claimed", ![r].run = n]
    BY <1>3 DEF Acquire, NewRun
  <2>2. x \in Runs
    BY <1>2 DEF Asked, Runs, Key
  <2>3. /\ runs' \in Seq(Runs) /\ LogGrows /\ n \in Nat /\ Names(runs', n, Key(r), requests[r].body)
        /\ \A k : BegunFor(k)' = BegunFor(k)
    <3> HIDE DEF x
    <3>1. x.key = Key(r) /\ x.body = requests[r].body /\ ~x.begun
      BY DEF x
    <3>2. /\ runs' \in Seq(Runs) /\ LogGrows /\ Len(runs) \in Nat /\ Names(runs', Len(runs) + 1, x.key, x.body)
          /\ \A k : BegunFor(k)' = BegunFor(k) \cup (IF x.key = k /\ x.begun THEN {Len(runs) + 1} ELSE {})
      BY <1>1, <2>1, <2>2, LogAppend
    <3>3. \A k : BegunFor(k)' = BegunFor(k)
      BY <3>1, <3>2
    <3>4. n \in Nat /\ Names(runs', n, Key(r), requests[r].body)
      BY <3>1, <3>2
    <3>5. QED
      BY <3>2, <3>3, <3>4
  <2> HIDE DEF x, n
  <2>4. /\ requests' \in [Requests -> {Idle} \cup Asked]
        /\ Phase(r)' = "claimed" /\ Key(r)' = Key(r) /\ requests'[r].body = requests[r].body /\ requests'[r].run = n
        /\ \A q \in Requests \ {r} : requests'[q] = requests[q]
    BY <1>1, <2>1, <2>3, RunMoves
  <2>5. RetryTypeOK'
    BY <1>1, <2>1, <2>3, <2>4 DEF RetryTypeOK
  <2>6. \A q \in Requests : Phase(q) # "claimed"
    BY <1>3 DEF OnceInv, Holders, NoLane
  <2>7. Holders'
    BY <1>1, <1>2, <2>1, <2>3, <2>4, <2>6, HoldersStep
  <2>8. KeysBegin'
    BY <1>1, <2>3, <2>4, KeysBeginStep DEF OnceInv, KeysBegin
  <2>9. RecordsTrue'
    BY <1>1, <2>3, RecordsKept
  <2>10. QED
    BY <2>5, <2>7, <2>8, <2>9 DEF OnceInv
<1>4. CASE lane # NoLane
  <2>1. /\ To(r, "refused") /\ GateOpened(r) /\ lane' = lane /\ runs' = runs
    BY <1>4 DEF Acquire, Finished, To
  <2>2. /\ requests' \in [Requests -> {Idle} \cup Asked]
        /\ Phase(r)' = "refused" /\ \A q \in Requests \ {r} : requests'[q] = requests[q]
    BY <1>1, <2>1, PhaseMoves
  <2>3. /\ gates' \in [Gates -> Requests \cup {NoOne}]
        /\ \A g \in Gates : gates[g] \in Requests \ {r} => gates'[g] = gates[g]
    BY <1>1, <2>1, GateOpens
  <2>4. RetryTypeOK'
    BY <1>1, <2>1, <2>2, <2>3 DEF RetryTypeOK
  <2>5. Holders'
    BY <2>1, <2>2, <2>3, SameLogGrows, HoldersStep DEF WithRun, Holding
  <2>6. KeysBegin'
    BY <1>1, <2>1, <2>2, SameBegun, KeysBeginStep
  <2>7. RecordsTrue'
    BY <1>1, <2>1, SameLogGrows, RecordsKept
  <2>8. QED
    BY <2>4, <2>5, <2>6, <2>7 DEF OnceInv
<1>5. QED
  BY <1>3, <1>4

LEMMA OneClaim ==
  ASSUME OnceInv, NEW q \in Requests, NEW r \in Requests, Phase(q) = "claimed", Phase(r) = "claimed"
  PROVE  q = r
<1>1. Key(q) = Key(r)
  BY DEF OnceInv, Holders, WithRun, Names
<1>2. QED
  BY <1>1, AloneAtGate DEF Holding

LEMMA AdvanceOnce ==
  ASSUME OnceInv, NEW r \in Requests, NEW ok \in BOOLEAN, Advance(r, ok)
  PROVE  OnceInv'
<1>1. /\ RetryTypeOK /\ Phase(r) = "claimed" /\ {"started", "refused"} \subseteq Phases
      /\ UNCHANGED <<records, writers, file, excused>>
      /\ \A q \in Requests \ {r} : Phase(q) # "claimed"
  BY OneClaim DEF OnceInv, Advance, Phases
<1>2. /\ requests[r] \in Asked /\ Gate(Key(r)) \in Gates /\ gates[Gate(Key(r))] = r /\ Key(r) \in RunKeys
      /\ lane.run = requests[r].run /\ Names(runs, lane.run, Key(r), requests[r].body)
  BY <1>1, AskedFor, GateOfKey DEF Asked, Key, OnceInv, Holders, Holding, WithRun
<1>3. CASE ~ok
  <2>1. To(r, "refused") /\ GateOpened(r) /\ lane' = NoLane /\ runs' = runs
    BY <1>3 DEF Advance, Finished, To
  <2>2. /\ requests' \in [Requests -> {Idle} \cup Asked]
        /\ Phase(r)' = "refused" /\ \A q \in Requests \ {r} : requests'[q] = requests[q]
    BY <1>1, <2>1, PhaseMoves
  <2>3. /\ gates' \in [Gates -> Requests \cup {NoOne}]
        /\ \A g \in Gates : gates[g] \in Requests \ {r} => gates'[g] = gates[g]
    BY <1>1, <2>1, GateOpens
  <2>4. RetryTypeOK'
    BY <1>1, <2>1, <2>2, <2>3 DEF RetryTypeOK, NoLane
  <2>5. Holders'
    BY <1>1, <2>1, <2>2, <2>3, SameLogGrows, HoldersStep DEF WithRun, Holding
  <2>6. KeysBegin'
    BY <1>1, <2>1, <2>2, SameBegun, KeysBeginStep
  <2>7. RecordsTrue'
    BY <1>1, <2>1, SameLogGrows, RecordsKept
  <2>8. QED
    BY <2>4, <2>5, <2>6, <2>7 DEF OnceInv
<1>4. CASE ok /\ lane.stage = "claimed"
  <2>1. lane' = [lane EXCEPT !.stage = "loaded"] /\ UNCHANGED <<requests, runs, gates>>
    BY <1>4 DEF Advance
  <2>2. RetryTypeOK'
    BY <1>1, <2>1 DEF RetryTypeOK
  <2>3. lane'.run = lane.run /\ lane'.stage = "loaded"
    BY <1>1, <2>1 DEF RetryTypeOK
  <2>4. Holders'
    BY <2>1, <2>3 DEF OnceInv, Holders, Phase, Key, Gate
  <2>5. KeysBegin'
    BY <1>1, <2>1 DEF OnceInv, KeysBegin, Phase, Key, BegunFor
  <2>6. RecordsTrue'
    BY <1>1, <2>1, SameLogGrows, RecordsKept
  <2>7. QED
    BY <2>2, <2>4, <2>5, <2>6 DEF OnceInv
<1>5. CASE ok /\ lane.stage # "claimed"
  <2> DEFINE n == lane.run
  <2>1. /\ lane' = [lane EXCEPT !.stage = "running"] /\ To(r, "started") /\ gates' = gates
        /\ runs' = [runs EXCEPT ![n].begun = TRUE]
    BY <1>5 DEF Advance
  <2>2. /\ requests' \in [Requests -> {Idle} \cup Asked]
        /\ Phase(r)' = "started" /\ Key(r)' = Key(r) /\ requests'[r].body = requests[r].body /\ requests'[r].run = n
        /\ \A q \in Requests \ {r} : requests'[q] = requests[q]
    BY <1>1, <1>2, <2>1, PhaseMoves
  <2>3. n \in 1..Len(runs) /\ runs[n].key = Key(r)
    BY <1>2 DEF Names
  <2>4. /\ runs' \in Seq(Runs) /\ LogGrows
        /\ \A k : BegunFor(k)' = BegunFor(k) \cup (IF runs[n].key = k THEN {n} ELSE {})
    <3> HIDE DEF n
    <3>1. QED
      BY <1>1, <2>1, <2>3, LogBegins
  <2>5. RetryTypeOK'
    BY <1>1, <2>1, <2>2, <2>4 DEF RetryTypeOK
  <2> HIDE DEF n
  <2>6. Holders'
    <3>1. Names(runs', n, Key(r), requests[r].body)
      BY <1>2, <2>4 DEF LogGrows, n
    <3>2. QED
      BY <1>1, <1>2, <2>1, <2>2, <2>4, <3>1, HoldersStep
  <2>7. KeysBegin'
    <3>1. Key(r) \notin excused => BegunFor(Key(r)) = {}
      BY <1>1 DEF OnceInv, KeysBegin
    <3>2. BegunFor(Key(r))' = BegunFor(Key(r)) \cup {n}
      <4>1. BegunFor(Key(r))' = {i \in 1..Len(runs') : runs'[i].key = Key(r) /\ runs'[i].begun}
        BY <2>2 DEF BegunFor
      <4>2. \A k : BegunFor(k)' = {i \in 1..Len(runs') : runs'[i].key = k /\ runs'[i].begun}
        BY DEF BegunFor
      <4>3. QED
        BY <2>3, <2>4, <4>1, <4>2
    <3>3. \A k : k # Key(r) => BegunFor(k)' = BegunFor(k)
      BY <2>3, <2>4
    <3>4. Key(r) \notin excused => BegunFor(Key(r))' \subseteq {n}
      BY <3>1, <3>2
    <3>5. QED
      BY <1>1, <2>2, <3>3, <3>4, KeyBegins
  <2>8. RecordsTrue'
    BY <1>1, <2>4, RecordsKept
  <2>9. QED
    BY <2>5, <2>6, <2>7, <2>8 DEF OnceInv
<1>6. QED
  BY <1>3, <1>4, <1>5

LEMMA EndRunOnce == ASSUME OnceInv, EndRun PROVE OnceInv'
<1>1. /\ lane.stage = "running" /\ lane' = NoLane
      /\ UNCHANGED <<requests, gates, records, writers, file, runs, excused>>
  BY DEF EndRun
<1>2. RetryTypeOK'
  BY <1>1 DEF OnceInv, RetryTypeOK, NoLane
<1>3. Holders'
  BY <1>1 DEF OnceInv, Holders, Phase, Key, Gate
<1>4. KeysBegin'
  BY <1>1 DEF OnceInv, KeysBegin, Phase, Key, BegunFor
<1>5. RecordsTrue'
  BY <1>1, SameLogGrows, RecordsKept
<1>6. QED
  BY <1>2, <1>3, <1>4, <1>5 DEF OnceInv

\* The record of a key is made by the request that holds its gate.
LEMMA InsertOnce ==
  ASSUME OnceInv, NEW r \in Requests, Insert(r)
  PROVE  OnceInv'
<1>1. /\ RetryTypeOK /\ Phase(r) = "started" /\ {"answered", "recorded"} \subseteq Phases
      /\ UNCHANGED <<writers, file, lane, runs, excused>>
      /\ records' = [k \in DOMAIN records \cup {Key(r)} |->
                      IF k = Key(r) THEN [body |-> requests[r].body, run |-> requests[r].run] ELSE records[k]]
  BY DEF OnceInv, Insert, Phases
<1>2. /\ requests[r] \in Asked /\ Key(r) \in IdempotencyKeys /\ Gate(Key(r)) \in Gates /\ gates[Gate(Key(r))] = r
      /\ Names(runs, requests[r].run, Key(r), requests[r].body)
  BY <1>1, AskedFor, GateOfKey DEF Asked, Key, OnceInv, Holders, Holding, WithRun
<1>3. LogGrows
  BY <1>1, SameLogGrows
<1>4. PICK p \in {"answered", "recorded"} :
        /\ To(r, p) /\ (p = "answered" => GateOpened(r)) /\ (p = "recorded" => gates' = gates)
        /\ p = "recorded" => Key(r) \in RunKeys
  BY <1>2 DEF Insert, Finished, To, IdempotencyKeys
<1>5. /\ requests' \in [Requests -> {Idle} \cup Asked]
      /\ Phase(r)' = p /\ Key(r)' = Key(r) /\ requests'[r].body = requests[r].body /\ requests'[r].run = requests[r].run
      /\ \A q \in Requests \ {r} : requests'[q] = requests[q]
  BY <1>1, <1>4, PhaseMoves
<1>6. /\ gates' \in [Gates -> Requests \cup {NoOne}]
      /\ \A g \in Gates : gates[g] \in Requests \ {r} => gates'[g] = gates[g]
      /\ p = "recorded" => gates'[Gate(Key(r))] = r
  <2>1. CASE p = "answered"
    BY <1>1, <1>4, <2>1, GateOpens
  <2>2. CASE p = "recorded"
    BY <1>1, <1>2, <1>4, <2>2 DEF RetryTypeOK
  <2>3. QED
    BY <2>1, <2>2
<1>7. RetryTypeOK'
  BY <1>1, <1>5, <1>6 DEF RetryTypeOK
<1>8. Holders'
  BY <1>1, <1>2, <1>3, <1>4, <1>5, <1>6, HoldersStep DEF Holding
<1>9. KeysBegin'
  <2>1. DOMAIN records \subseteq DOMAIN records' /\ Key(r) \in DOMAIN records'
    BY <1>1
  <2>2. QED
    BY <1>1, <1>5, <2>1, SameBegun, KeysBeginStep
<1>10. RecordsTrue'
  <2>1. AllTrue(records', runs')
    BY <1>1, <1>2 DEF OnceInv, RecordsTrue, AllTrue, Recorded, Asked
  <2>2. QED
    BY <1>1, <2>1 DEF OnceInv, RecordsTrue
<1>11. QED
  BY <1>7, <1>8, <1>9, <1>10 DEF OnceInv

LEMMA PersistOnce ==
  ASSUME OnceInv, NEW r \in Requests, Persist(r)
  PROVE  OnceInv'
<1>1. /\ RetryTypeOK /\ Phase(r) = "recorded" /\ To(r, "writing") /\ "writing" \in Phases
      /\ UNCHANGED <<gates, records, file, lane, runs, excused>>
      /\ writers' = [w \in DOMAIN writers \cup {r} |-> IF w = r THEN ToWrite(r) ELSE writers[w]]
  BY DEF OnceInv, Persist, Phases
<1>2. /\ requests[r] \in Asked /\ Gate(Key(r)) \in Gates /\ gates[Gate(Key(r))] = r /\ Key(r) \in RunKeys
      /\ Names(runs, requests[r].run, Key(r), requests[r].body)
  BY <1>1, AskedFor, GateOfKey DEF Asked, Key, OnceInv, Holders, Holding, WithRun
<1>3. /\ requests' \in [Requests -> {Idle} \cup Asked]
      /\ Phase(r)' = "writing" /\ Key(r)' = Key(r) /\ requests'[r].body = requests[r].body /\ requests'[r].run = requests[r].run
      /\ \A q \in Requests \ {r} : requests'[q] = requests[q]
  BY <1>1, PhaseMoves
<1>4. RetryTypeOK'
  BY <1>1, <1>3 DEF RetryTypeOK
<1>5. Holders'
  BY <1>1, <1>2, <1>3, SameLogGrows, HoldersStep
<1>6. KeysBegin'
  BY <1>1, <1>3, SameBegun, KeysBeginStep
<1>7. RecordsTrue'
  <2>1. IsFile(ToWrite(r), runs)
    BY DEF OnceInv, RecordsTrue, IsFile, AllTrue, ToWrite
  <2>2. \A w \in DOMAIN writers' : IsFile(writers'[w], runs)
    BY <1>1, <2>1 DEF OnceInv, RecordsTrue
  <2>3. QED
    BY <1>1, <2>2 DEF OnceInv, RecordsTrue
<1>8. QED
  BY <1>4, <1>5, <1>6, <1>7 DEF OnceInv

LEMMA WrittenOnce ==
  ASSUME OnceInv, NEW r \in Requests, NEW f, Written(r, f)
  PROVE  OnceInv'
<1>1. /\ RetryTypeOK /\ {"answered", "refused"} \subseteq Phases /\ file' = f /\ r \in DOMAIN writers
      /\ f \in {file, writers[r], Garbled}
      /\ UNCHANGED <<records, lane, runs, excused>>
      /\ writers' = [w \in DOMAIN writers \ {r} |-> writers[w]]
  BY DEF OnceInv, Written, Outcomes, Phases
<1>2. LogGrows
  BY <1>1, SameLogGrows
<1>3. RecordsTrue'
  BY <1>1 DEF OnceInv, RecordsTrue
<1>4. CASE Phase(r) = "writing"
  <2>1. PICK p \in {"answered", "refused"} : To(r, p) /\ GateOpened(r)
    BY <1>4 DEF Written, Finished, To
  <2>2. /\ requests' \in [Requests -> {Idle} \cup Asked]
        /\ Phase(r)' = p /\ Key(r)' = Key(r) /\ requests'[r].body = requests[r].body /\ requests'[r].run = requests[r].run
        /\ \A q \in Requests \ {r} : requests'[q] = requests[q]
    BY <1>1, <1>4, <2>1, PhaseMoves
  <2>3. /\ gates' \in [Gates -> Requests \cup {NoOne}]
        /\ \A g \in Gates : gates[g] \in Requests \ {r} => gates'[g] = gates[g]
    BY <1>1, <2>1, GateOpens
  <2>4. RetryTypeOK'
    BY <1>1, <2>2, <2>3 DEF RetryTypeOK
  <2>5. Names(runs, requests[r].run, Key(r), requests[r].body)
    BY <1>4 DEF OnceInv, Holders, WithRun
  <2>6. Holders'
    BY <1>1, <1>2, <2>2, <2>3, <2>5, HoldersStep DEF Holding
  <2>7. KeysBegin'
    BY <1>1, <1>4, <2>2, SameBegun, KeysBeginStep
  <2>8. QED
    BY <1>3, <2>4, <2>6, <2>7 DEF OnceInv
<1>5. CASE Phase(r) # "writing"
  <2>1. UNCHANGED <<requests, gates>>
    BY <1>5 DEF Written
  <2>2. RetryTypeOK'
    BY <1>1, <2>1 DEF RetryTypeOK
  <2>3. Holders'
    BY <1>1, <2>1 DEF OnceInv, Holders, Phase, Key, Gate
  <2>4. KeysBegin'
    BY <1>1, <2>1 DEF OnceInv, KeysBegin, Phase, Key, BegunFor
  <2>5. QED
    BY <1>3, <2>2, <2>3, <2>4 DEF OnceInv
<1>6. QED
  BY <1>4, <1>5

\* A handler that is dropped with a run that nothing records excuses its key.
LEMMA DropOnce ==
  ASSUME OnceInv, NEW r \in Requests, DropHandler(r)
  PROVE  OnceInv'
<1>1. /\ RetryTypeOK /\ Phase(r) # "idle" /\ "dropped" \in Phases /\ To(r, "dropped") /\ GateOpened(r)
      /\ UNCHANGED <<records, writers, file, lane, runs>>
      /\ excused \subseteq excused' /\ (Phase(r) \in Unrecorded => Key(r) \in excused')
  BY DEF OnceInv, DropHandler, Finished, To, Phases
<1>2. LogGrows
  BY <1>1, SameLogGrows
<1>3. /\ requests' \in [Requests -> {Idle} \cup Asked]
      /\ Phase(r)' = "dropped" /\ Key(r)' = Key(r)
      /\ \A q \in Requests \ {r} : requests'[q] = requests[q]
  BY <1>1, PhaseMoves
<1>4. /\ gates' \in [Gates -> Requests \cup {NoOne}]
      /\ \A g \in Gates : gates[g] \in Requests \ {r} => gates'[g] = gates[g]
  BY <1>1, GateOpens
<1>5. RetryTypeOK'
  BY <1>1, <1>3, <1>4 DEF RetryTypeOK
<1>6. Holders'
  BY <1>1, <1>2, <1>3, <1>4, HoldersStep DEF Holding, WithRun
<1>7. KeysBegin'
  BY <1>1, <1>3, SameBegun, KeysBeginStep DEF Unrecorded
<1>8. RecordsTrue'
  BY <1>1, <1>2, RecordsKept
<1>9. QED
  BY <1>5, <1>6, <1>7, <1>8 DEF OnceInv

\* After a crash nobody is past a gate, and a key that began something has its record
\* in the file or is excused.
LEMMA CrashOnce ==
  ASSUME OnceInv, NEW saved \in BOOLEAN, Crash(saved)
  PROVE  OnceInv'
<1> DEFINE Kept == {"answered", "replayed", "refused", "dropped", "idle"}
<1>1. /\ RetryTypeOK /\ UNCHANGED <<file, runs>> /\ writers' = << >> /\ records' = Readable
      /\ gates' = [g \in Gates |-> NoOne] /\ lane' \in {lane, NoLane}
      /\ requests' = [r \in Requests |-> IF Phase(r) \in Kept THEN requests[r] ELSE [requests[r] EXCEPT !.phase = "dropped"]]
      /\ excused' = excused \cup {k \in IdempotencyKeys : k \notin DOMAIN Readable /\ \E i \in 1..Len(runs) : runs[i].key = k}
  BY DEF OnceInv, Crash
<1>2. ASSUME NEW r \in Requests
      PROVE  /\ requests'[r] \in {Idle} \cup Asked
             /\ Phase(r)' \in Kept
             /\ Phase(r)' \in WithRun => requests'[r] = requests[r] /\ Phase(r) = Phase(r)'
  <2>1. CASE Phase(r) \in Kept
    BY <1>1, <2>1 DEF RetryTypeOK, Phase
  <2>2. CASE Phase(r) \notin Kept
    <3>1. requests[r] \in Asked
      BY <1>1, <2>2, AskedFor
    <3>2. requests'[r] = [requests[r] EXCEPT !.phase = "dropped"]
      BY <1>1, <2>2
    <3>3. QED
      BY <3>1, <3>2 DEF Asked, Phases, Phase, WithRun
  <2>3. QED
    BY <2>1, <2>2
<1>3. RetryTypeOK'
  <2>1. requests' \in [Requests -> {Idle} \cup Asked]
    BY <1>1, <1>2
  <2>2. QED
    BY <1>1, <2>1 DEF RetryTypeOK, NoLane
<1>4. Holders'
  BY <1>1, <1>2 DEF OnceInv, Holders, Holding, Phase, Key, Gate, WithRun
<1>5. KeysBegin'
  <2>1. ASSUME NEW k \in IdempotencyKeys \ excused'
        PROVE  k \in DOMAIN records' \/ BegunFor(k)' = {}
    BY <1>1, <2>1 DEF BegunFor
  <2>2. ASSUME NEW k \in IdempotencyKeys \ excused', NEW i \in BegunFor(k)', NEW j \in BegunFor(k)'
        PROVE  i = j
    BY <1>1, <2>2 DEF OnceInv, KeysBegin, BegunFor
  <2>3. \A r \in Requests : Phase(r)' \notin {"starting", "claimed", "started"}
    BY <1>2
  <2>4. QED
    BY <2>1, <2>2, <2>3 DEF KeysBegin
<1>6. RecordsTrue'
  <2>1. AllTrue(Readable, runs)
    BY NoRecords DEF OnceInv, RecordsTrue, IsFile, Readable
  <2>2. DOMAIN writers' = {}
    BY <1>1, EmptyFile
  <2>3. QED
    BY <1>1, <2>1, <2>2 DEF OnceInv, RecordsTrue
<1>7. QED
  BY <1>3, <1>4, <1>5, <1>6 DEF OnceInv

-----------------------------------------------------------------------------
(* What was answered stays in the file. *)

LEMMA FileIsReadable == \A f, log : IsFile(f, log) => f # Garbled /\ f # Nothing
BY RetryAssumption DEF IsFile

LEMMA SurviveInvInit == RetryInit => SurviveInv
<1> SUFFICES ASSUME RetryInit PROVE SurviveInv
  OBVIOUS
<1>1. \A r \in Requests : Phase(r) = "idle"
  BY DEF RetryInit, Phase, Idle
<1>2. DOMAIN writers = {} /\ Readable = << >> /\ file = Nothing /\ DOMAIN Readable = {}
  BY EmptyFile DEF RetryInit, Readable
<1>3. QED
  BY <1>1, <1>2, RetryAssumption DEF SurviveInv, FileGrows

\* Steps that record and write nothing: nobody comes to be recorded, writing or answered.
LEMMA WritesNothing ==
  ASSUME SurviveInv, UNCHANGED <<records, writers, file, collided>>,
         \A q \in Requests : Phase(q)' \in {"recorded", "writing", "answered"} => requests'[q] = requests[q]
  PROVE  SurviveInv'
<1>1. /\ DOMAIN writers' = DOMAIN writers /\ Readable' = Readable
  BY DEF Readable
<1>2. \A q \in Requests : Phase(q)' \in {"recorded", "writing", "answered"} => Phase(q)' = Phase(q) /\ Key(q)' = Key(q)
  BY DEF Phase, Key
<1>3. FileGrows => FileGrows'
  <2> SUFFICES ASSUME FileGrows PROVE FileGrows'
    OBVIOUS
  <2>1. ASSUME NEW w \in DOMAIN writers
        PROVE  /\ \A v \in DOMAIN writers : v = w
               /\ DOMAIN Readable \subseteq DOMAIN writers[w] /\ DOMAIN writers[w] \subseteq DOMAIN records
               /\ Phase(w)' = "writing" => Key(w)' \in DOMAIN writers[w]
    BY <1>2, <2>1 DEF SurviveInv, FileGrows
  <2>2. QED
    BY <1>1, <1>2, <2>1 DEF FileGrows, Phase, Key
<1>4. QED
  BY <1>1, <1>2, <1>3 DEF SurviveInv

LEMMA InsertSurvives ==
  ASSUME OnceInv, SurviveInv, NEW r \in Requests, Insert(r)
  PROVE  SurviveInv'
<1>1. /\ RetryTypeOK /\ Phase(r) = "started" /\ {"answered", "recorded"} \subseteq Phases
      /\ UNCHANGED <<writers, file, collided>> /\ Key(r) \in IdempotencyKeys
      /\ DOMAIN records' = DOMAIN records \cup {Key(r)}
  BY AskedFor DEF OnceInv, Insert, Phases, Asked, Key
<1>2. PICK p \in {"answered", "recorded"} : To(r, p) /\ (p = "answered" => Key(r) \in AdminKeys)
  BY DEF Insert, Finished, To
<1>3. /\ Phase(r)' = p /\ Key(r)' = Key(r) /\ \A q \in Requests \ {r} : requests'[q] = requests[q]
  BY <1>1, <1>2, PhaseMoves
<1>4. \A q \in Requests \ {r} : Phase(q)' = Phase(q) /\ Key(q)' = Key(q)
  BY <1>3 DEF Phase, Key
<1>5. Readable' = Readable
  BY <1>1 DEF Readable
<1>6. p = "answered" => Key(r) \notin RunKeys
  BY <1>2, RetryAssumption
<1>7. FileGrows => FileGrows'
  <2> SUFFICES ASSUME FileGrows PROVE FileGrows'
    OBVIOUS
  <2>1. ASSUME NEW w \in DOMAIN writers
        PROVE  /\ \A v \in DOMAIN writers : v = w
               /\ DOMAIN Readable \subseteq DOMAIN writers[w] /\ DOMAIN writers[w] \subseteq DOMAIN records'
               /\ Phase(w)' = "writing" => Key(w)' \in DOMAIN writers[w]
    BY <1>1, <1>2, <1>3, <1>4, <2>1 DEF SurviveInv, FileGrows
  <2>2. file # Garbled /\ DOMAIN Readable \subseteq DOMAIN records'
    BY <1>1 DEF FileGrows
  <2>3. ASSUME NEW q \in Requests, Phase(q)' = "answered", Key(q)' \in RunKeys
        PROVE  file # Nothing /\ Key(q)' \in DOMAIN file
    BY <1>3, <1>4, <1>6, <2>3 DEF FileGrows
  <2>4. QED
    BY <1>1, <1>5, <2>1, <2>2, <2>3 DEF FileGrows, Phase, Key
<1>8. QED
  BY <1>1, <1>3, <1>4, <1>7 DEF SurviveInv

LEMMA PersistSurvives ==
  ASSUME OnceInv, SurviveInv, NEW r \in Requests, Persist(r)
  PROVE  SurviveInv'
<1>1. /\ RetryTypeOK /\ Phase(r) = "recorded" /\ To(r, "writing") /\ "writing" \in Phases
      /\ UNCHANGED <<records, file>> /\ collided' = (collided \/ DOMAIN writers # {})
      /\ writers' = [w \in DOMAIN writers \cup {r} |-> IF w = r THEN ToWrite(r) ELSE writers[w]]
  BY DEF OnceInv, Persist, Phases
<1>2. /\ Phase(r)' = "writing" /\ Key(r)' = Key(r) /\ \A q \in Requests \ {r} : requests'[q] = requests[q]
  BY <1>1, PhaseMoves
<1>3. \A q \in Requests \ {r} : Phase(q)' = Phase(q) /\ Key(q)' = Key(q)
  BY <1>2 DEF Phase, Key
<1>4. Readable' = Readable
  BY <1>1 DEF Readable
<1>5. Key(r) \in DOMAIN records /\ Key(r) \in RunKeys
  BY <1>1 DEF SurviveInv, OnceInv, Holders
<1>6. ASSUME ~collided' PROVE FileGrows'
  <2>1. FileGrows /\ DOMAIN writers = {} /\ DOMAIN writers' = {r} /\ writers'[r] = ToWrite(r)
    BY <1>1, <1>6 DEF SurviveInv
  <2>2. DOMAIN ToWrite(r) = DOMAIN records \cap RunKeys
    BY DEF ToWrite
  <2>3. DOMAIN Readable \subseteq RunKeys
    BY EmptyFile DEF OnceInv, RecordsTrue, IsFile, Readable
  <2>4. DOMAIN Readable \subseteq DOMAIN records /\ file # Garbled
    BY <2>1 DEF FileGrows
  <2>5. ASSUME NEW q \in Requests, Phase(q)' = "answered", Key(q)' \in RunKeys
        PROVE  file # Nothing /\ Key(q)' \in DOMAIN file
    BY <1>2, <1>3, <2>1, <2>5 DEF FileGrows
  <2>6. ASSUME NEW w \in DOMAIN writers'
        PROVE  /\ w = r
               /\ DOMAIN Readable \subseteq DOMAIN writers'[w] /\ DOMAIN writers'[w] \subseteq DOMAIN records
               /\ Key(r)' \in DOMAIN writers'[w]
    BY <1>2, <1>5, <2>1, <2>2, <2>3, <2>4, <2>6
  <2>7. QED
    BY <1>1, <1>4, <2>4, <2>5, <2>6 DEF FileGrows
<1>7. \A w \in DOMAIN writers' : w \in Requests
  BY <1>1 DEF SurviveInv
<1>8. \A q \in Requests : Phase(q)' \in {"recorded", "writing"} => Key(q)' \in DOMAIN records'
  BY <1>1, <1>2, <1>3, <1>5 DEF SurviveInv
<1>9. QED
  BY <1>6, <1>7, <1>8 DEF SurviveInv

LEMMA WrittenSurvives ==
  ASSUME OnceInv, SurviveInv, NEW r \in DOMAIN writers, NEW f \in Outcomes(r), Written(r, f)
  PROVE  SurviveInv'
<1>1. /\ r \in Requests /\ RetryTypeOK /\ {"answered", "refused"} \subseteq Phases /\ file' = f
      /\ UNCHANGED <<records, collided>> /\ writers' = [w \in DOMAIN writers \ {r} |-> writers[w]]
  BY DEF OnceInv, SurviveInv, Written, Phases
<1>2. /\ \A q \in Requests \ {r} : requests'[q] = requests[q]
      /\ Phase(r)' \notin {"recorded", "writing"} \/ requests'[r] = requests[r]
      /\ Phase(r)' # "writing"
      /\ Phase(r)' = "answered" =>
           Key(r)' = Key(r) /\ (Phase(r) = "answered" \/ (Phase(r) = "writing" /\ f = writers[r]))
  <2>1. CASE Phase(r) = "writing"
    <3> DEFINE p == IF f = writers[r] THEN "answered" ELSE "refused"
    <3>1. To(r, p) /\ p \in Phases
      BY <1>1, <2>1 DEF Written, Finished, To
    <3>2. p \in {"answered", "refused"} /\ (p = "answered" => f = writers[r])
      OBVIOUS
    <3> HIDE DEF p
    <3>3. Phase(r)' = p /\ Key(r)' = Key(r) /\ \A q \in Requests \ {r} : requests'[q] = requests[q]
      BY <1>1, <2>1, <3>1, PhaseMoves
    <3>4. QED
      BY <2>1, <3>2, <3>3
  <2>2. CASE Phase(r) # "writing"
    <3>1. requests' = requests
      BY <2>2 DEF Written
    <3>2. Phase(r)' = Phase(r) /\ Key(r)' = Key(r)
      BY <3>1 DEF Phase, Key
    <3>3. Phase(r)' # "writing" /\ (Phase(r)' = "answered" => Key(r)' = Key(r) /\ Phase(r) = "answered")
      BY <2>2, <3>2
    <3>4. requests'[r] = requests[r] /\ \A q \in Requests \ {r} : requests'[q] = requests[q]
      BY <3>1
    <3>5. QED
      BY <3>3, <3>4
  <2>3. QED
    BY <2>1, <2>2
<1>3. \A q \in Requests \ {r} : Phase(q)' = Phase(q) /\ Key(q)' = Key(q)
  BY <1>2 DEF Phase, Key
<1>4. \A q \in Requests : Phase(q)' \in {"recorded", "writing"} => Key(q)' \in DOMAIN records'
  BY <1>1, <1>2, <1>3 DEF SurviveInv, Phase, Key
<1>5. \A w \in DOMAIN writers' : w \in Requests
  BY <1>1 DEF SurviveInv
<1>6. ASSUME ~collided PROVE FileGrows'
  <2>1. FileGrows /\ DOMAIN writers = {r} /\ DOMAIN writers' = {}
    BY <1>1, <1>6 DEF SurviveInv, FileGrows
  <2>2. f = file \/ f = writers[r]
    <3>1. Cardinality(DOMAIN writers) = 1
      BY <2>1, FS_Singleton
    <3>2. QED
      BY <3>1 DEF Outcomes
  <2>3. writers[r] # Garbled /\ writers[r] # Nothing
    BY FileIsReadable DEF OnceInv, RecordsTrue
  <2>4. f # Garbled
    BY <2>1, <2>2, <2>3 DEF FileGrows
  <2>5. DOMAIN Readable' \subseteq DOMAIN records
    <3>1. DOMAIN Readable \subseteq DOMAIN records /\ DOMAIN writers[r] \subseteq DOMAIN records
      BY <2>1 DEF FileGrows
    <3>2. Readable' = IF f \in {Garbled, Nothing} THEN << >> ELSE f
      BY <1>1 DEF Readable
    <3>3. Readable' \in {Readable, writers[r]}
      BY <2>2, <2>3, <3>2 DEF Readable
    <3>4. QED
      BY <3>1, <3>3
  <2>6. ASSUME NEW q \in Requests, Phase(q) = "answered", Key(q) \in RunKeys
        PROVE  f # Nothing /\ Key(q) \in DOMAIN f
    <3>1. file # Nothing /\ file # Garbled /\ Key(q) \in DOMAIN file
      BY <2>1, <2>6 DEF FileGrows
    <3>2. DOMAIN file \subseteq DOMAIN writers[r]
      BY <2>1, <3>1 DEF FileGrows, Readable
    <3>3. QED
      BY <2>2, <2>3, <3>1, <3>2
  <2>7. ASSUME NEW q \in Requests, Phase(q)' = "answered", Key(q)' \in RunKeys
        PROVE  f # Nothing /\ Key(q)' \in DOMAIN f
    <3>1. CASE Phase(q) = "answered" /\ Key(q)' = Key(q)
      BY <2>6, <2>7, <3>1
    <3>2. CASE q = r /\ Phase(r) = "writing" /\ f = writers[r] /\ Key(r)' = Key(r)
      BY <2>1, <2>3, <3>2 DEF FileGrows
    <3>3. QED
      BY <1>2, <1>3, <2>7, <3>1, <3>2
  <2>8. QED
    BY <1>1, <2>1, <2>4, <2>5, <2>7 DEF FileGrows
<1>7. QED
  BY <1>1, <1>4, <1>5, <1>6 DEF SurviveInv

LEMMA CrashSurvives ==
  ASSUME OnceInv, SurviveInv, NEW saved \in BOOLEAN, Crash(saved)
  PROVE  SurviveInv'
<1> DEFINE Kept == {"answered", "replayed", "refused", "dropped", "idle"}
<1>1. /\ RetryTypeOK /\ UNCHANGED <<file, collided>> /\ writers' = << >> /\ records' = Readable
      /\ requests' = [r \in Requests |-> IF Phase(r) \in Kept THEN requests[r] ELSE [requests[r] EXCEPT !.phase = "dropped"]]
  BY DEF OnceInv, Crash
<1>2. ASSUME NEW r \in Requests
      PROVE  /\ Phase(r)' \notin {"recorded", "writing"}
             /\ Phase(r)' = "answered" => Phase(r) = "answered" /\ Key(r)' = Key(r)
  <2>1. CASE Phase(r) \in Kept
    BY <1>1, <2>1 DEF Phase, Key
  <2>2. CASE Phase(r) \notin Kept
    <3>1. requests[r] \in Asked
      BY <1>1, <2>2, AskedFor
    <3>2. requests'[r] = [requests[r] EXCEPT !.phase = "dropped"]
      BY <1>1, <2>2
    <3>3. QED
      BY <3>1, <3>2 DEF Asked, Phase
  <2>3. QED
    BY <2>1, <2>2
<1>3. DOMAIN writers' = {} /\ Readable' = Readable
  BY <1>1, EmptyFile DEF Readable
<1>4. FileGrows => FileGrows'
  BY <1>1, <1>2, <1>3 DEF FileGrows
<1>5. QED
  BY <1>1, <1>2, <1>3, <1>4 DEF SurviveInv

-----------------------------------------------------------------------------
(* The theorems. *)

RetriesInv == OnceInv /\ SurviveInv

LEMMA RetriesInvStep == RetriesInv /\ [RetryNext]_retryVars => RetriesInv'
<1> SUFFICES ASSUME OnceInv, SurviveInv, [RetryNext]_retryVars PROVE OnceInv' /\ SurviveInv'
  BY DEF RetriesInv
<1>1. CASE UNCHANGED retryVars
  <2>1. UNCHANGED <<requests, gates, records, writers, file, lane, runs, excused, collided>>
    BY <1>1 DEF retryVars
  <2>2. RetryTypeOK'
    BY <2>1 DEF OnceInv, RetryTypeOK
  <2>3. Holders'
    BY <2>1 DEF OnceInv, Holders, Phase, Key, Gate
  <2>4. KeysBegin'
    BY <2>1 DEF OnceInv, KeysBegin, Phase, Key, BegunFor
  <2>5. RecordsTrue'
    BY <2>1, SameLogGrows, RecordsKept
  <2>6. SurviveInv'
    BY <2>1, WritesNothing
  <2>7. QED
    BY <2>2, <2>3, <2>4, <2>5, <2>6 DEF OnceInv
<1>2. ASSUME NEW r \in Requests, NEW k \in IdempotencyKeys, NEW b \in Bodies, Arrive(r, k, b)
      PROVE  OnceInv' /\ SurviveInv'
  <2>1. \A q \in Requests : Phase(q)' \in {"recorded", "writing", "answered"} => requests'[q] = requests[q]
    BY <1>2 DEF Arrive, OnceInv, RetryTypeOK, Phase
  <2>2. QED
    BY <1>2, <2>1, ArriveOnce, WritesNothing DEF Arrive
<1>3. ASSUME NEW r \in Requests,
             TakeGate(r) \/ LookUp(r) \/ Mutate(r) \/ Acquire(r) \/ DropHandler(r) \/ \E ok \in BOOLEAN : Advance(r, ok)
      PROVE  OnceInv' /\ SurviveInv'
  <2>1. OnceInv'
    BY <1>3, TakeGateOnce, LookUpOnce, MutateOnce, AcquireOnce, DropOnce, AdvanceOnce
  <2>2. UNCHANGED <<records, writers, file, collided>>
    BY <1>3 DEF TakeGate, LookUp, Mutate, Acquire, DropHandler, Advance
  <2>3. \A q \in Requests : Phase(q)' \in {"recorded", "writing", "answered"} => requests'[q] = requests[q]
    <3>1. ASSUME NEW p \in Phases \ {"recorded", "writing", "answered"}, Phase(r) # "idle",
                 To(r, p) \/ \E n \in Nat : requests' = [requests EXCEPT ![r].phase = p, ![r].run = n]
          PROVE  \A q \in Requests : Phase(q)' \in {"recorded", "writing", "answered"} => requests'[q] = requests[q]
      <4>1. Phase(r)' = p /\ \A q \in Requests \ {r} : requests'[q] = requests[q]
        BY <3>1, PhaseMoves, RunMoves DEF OnceInv
      <4>2. QED
        BY <4>1
    <3>2. Len(runs) + 1 \in Nat
      BY LenProperties DEF OnceInv, RetryTypeOK
    <3>3. {"looking", "starting", "replayed", "refused", "claimed", "started", "dropped"}
             \subseteq Phases \ {"recorded", "writing", "answered"}
      BY DEF Phases
    <3>4. CASE TakeGate(r)
      BY <3>1, <3>3, <3>4 DEF TakeGate
    <3>5. CASE LookUp(r)
      <4>1. Key(r) \in DOMAIN records => records[Key(r)].run \in Nat
        BY DEF OnceInv, RecordsTrue, AllTrue, Recorded
      <4>2. Phase(r) = "looking"
        BY <3>5 DEF LookUp
      <4>3. \/ To(r, "starting")
            \/ requests' = [requests EXCEPT ![r].phase = "replayed", ![r].run = records[Key(r)].run] /\ Key(r) \in DOMAIN records
            \/ requests' = [requests EXCEPT ![r].phase = "refused", ![r].run = 0]
        BY <3>5 DEF LookUp
      <4>4. QED
        BY <3>1, <3>3, <4>1, <4>2, <4>3
    <3>6. CASE Mutate(r)
      BY <3>1, <3>2, <3>3, <3>6 DEF Mutate
    <3>7. CASE Acquire(r)
      BY <3>1, <3>2, <3>3, <3>7 DEF Acquire, Finished, To
    <3>8. CASE DropHandler(r)
      BY <3>1, <3>3, <3>8 DEF DropHandler, Finished, To
    <3>9. CASE \E ok \in BOOLEAN : Advance(r, ok)
      <4>1. Phase(r) = "claimed" /\ (To(r, "refused") \/ To(r, "started") \/ requests' = requests)
        BY <3>9 DEF Advance, Finished, To
      <4>2. QED
        BY <3>1, <3>3, <4>1
    <3>10. QED
      BY <1>3, <3>4, <3>5, <3>6, <3>7, <3>8, <3>9
  <2>4. QED
    BY <2>1, <2>2, <2>3, WritesNothing
<1>4. ASSUME NEW r \in Requests, Insert(r) PROVE OnceInv' /\ SurviveInv'
  BY <1>4, InsertOnce, InsertSurvives
<1>5. ASSUME NEW r \in Requests, Persist(r) PROVE OnceInv' /\ SurviveInv'
  BY <1>5, PersistOnce, PersistSurvives
<1>6. ASSUME NEW r \in DOMAIN writers, NEW f \in Outcomes(r), Written(r, f) PROVE OnceInv' /\ SurviveInv'
  <2>1. r \in Requests
    BY DEF SurviveInv
  <2>2. QED
    BY <1>6, <2>1, WrittenOnce, WrittenSurvives
<1>7. CASE EndRun
  <2>1. UNCHANGED <<records, writers, file, collided, requests>>
    BY <1>7 DEF EndRun
  <2>2. QED
    BY <1>7, <2>1, EndRunOnce, WritesNothing
<1>8. ASSUME NEW saved \in BOOLEAN, Crash(saved) PROVE OnceInv' /\ SurviveInv'
  BY <1>8, CrashOnce, CrashSurvives
<1>9. QED
  BY <1>1, <1>2, <1>3, <1>4, <1>5, <1>6, <1>7, <1>8 DEF RetryNext

\* Requests with one idempotency key begin one run between them (or mutate once), and
\* whoever is answered is told a run of that key and that request - for any number of
\* requests, keys, runs and crashes, unless a handler was dropped, or the process
\* crashed, between the run and its record.
THEOREM KeysBeginOneRun == RetrySpec => []OneRunPerKey
<1>1. RetryInit => RetriesInv
  BY OnceInvInit, SurviveInvInit DEF RetriesInv
<1>2. RetriesInv => OneRunPerKey
  <2> SUFFICES ASSUME OnceInv PROVE OneRunPerKey
    BY DEF RetriesInv
  <2>1. ASSUME NEW k \in IdempotencyKeys \ excused PROVE Cardinality(BegunFor(k)) <= 1
    <3>1. CASE BegunFor(k) = {}
      BY <3>1, FS_EmptySet
    <3>2. CASE BegunFor(k) # {}
      <4>1. PICK i : BegunFor(k) = {i}
        BY <3>2 DEF OnceInv, KeysBegin
      <4>2. Cardinality({i}) = 1
        BY FS_Singleton
      <4>3. QED
        BY <4>1, <4>2
    <3>3. QED
      BY <3>1, <3>2
  <2>2. \A r \in Requests : Phase(r) \in {"answered", "replayed"} =>
          runs[requests[r].run].key = Key(r) /\ runs[requests[r].run].body = requests[r].body
    BY DEF OnceInv, Holders, WithRun, Names
  <2>3. QED
    BY <2>1, <2>2 DEF OneRunPerKey
<1>3. QED
  BY <1>1, <1>2, RetriesInvStep, PTL DEF RetrySpec

\* What was answered as done is in the file, whatever overlaps and wherever the process
\* crashes, until a dropped handler lets two writes of the file overlap.
THEOREM AnsweredRecordsSurvive == RetrySpec => []RecordsSurvive
<1>1. RetryInit => RetriesInv
  BY OnceInvInit, SurviveInvInit DEF RetriesInv
<1>2. RetriesInv => RecordsSurvive
  BY DEF RetriesInv, SurviveInv, FileGrows, RecordsSurvive
<1>3. QED
  BY <1>1, <1>2, RetriesInvStep, PTL DEF RetrySpec

-----------------------------------------------------------------------------
(* Reads of the state: while no version names two contents, one function W  *)
(* says which world a version names and another, F, what was seen of the    *)
(* fleet.                                                                   *)

Shown(w) == Offered(w.markets, w.of)

Upto == 0..world.version

HistoryOf(W) == {[version |-> v, markets |-> Shown(W[v])] : v \in Upto}

\* Labels and contents that go together, whichever read each label is of.
Labelling(W, x) ==
  /\ x.content = [d \in Domains |-> x.content[d]]
  /\ \A d \in Domains : x.labels[d] \in Upto /\ x.content[d] = W[x.labels[d]].content[d]
  /\ x.label \in Upto /\ x.markets = Shown(W[x.label])

SeenAs(F, f) == f.version \in 1..fleet.version /\ f.seen = F[f.version]

WorldNamed(W) ==
  /\ world.version \in Nat /\ W[world.version] = world
  /\ world = [version |-> world.version, content |-> world.content, markets |-> world.markets, of |-> world.of]
  /\ \A v \in Upto : W[v].version = v /\ W[v].content = [d \in Domains |-> W[v].content[d]]

FleetNamed(F) ==
  /\ fleet \in [version : Nat \ {0}, seen : {0, 1}, run : {"running", "completed"}]
  /\ F[fleet.version] = fleet.seen

CachedNamed(W) ==
  cached # NoWorld =>
    /\ cached.observed \in Upto
    /\ cached.content = W[cached.observed].content /\ cached.markets = Shown(W[cached.observed])
    /\ Labelling(W, cached)

HistoryNamed(W) == history \in Seq(HistoryOf(W)) /\ Len(history) <= 2

CallNamed(W, F, x) ==
  /\ x.phase = "copied" => x.world.version \in Upto /\ x.world = W[x.world.version]
  /\ x.phase = "projected" =>
       x.version \in Upto /\ x.content = W[x.version].content /\ x.markets = Shown(W[x.version])
  /\ x.phase \in {"recording", "labelled"} => Labelling(W, x)
  /\ x.phase # "copied" => SeenAs(F, x.fleet)

CallsNamed(W, F) ==
  /\ DOMAIN call = Clients
  /\ \A c \in Clients : call[c] # NoCall => CallNamed(W, F, call[c])

CacheNamed(W, F) ==
  /\ DOMAIN cache = Clients
  /\ \A c \in Clients : cache[c] # NoCache =>
       /\ Labelling(W, cache[c])
       /\ cache[c].fleetVersion \in 1..fleet.version /\ cache[c].fleet.seen = F[cache[c].fleetVersion]

Named(W, F) ==
  WorldNamed(W) /\ FleetNamed(F) /\ CachedNamed(W) /\ HistoryNamed(W) /\ CallsNamed(W, F) /\ CacheNamed(W, F)

ReadsInv == twofold \/ \E W, F : Named(W, F)

LEMMA ReadsInvInit == ReadsInit => ReadsInv
<1> SUFFICES ASSUME ReadsInit PROVE ReadsInv
  OBVIOUS
<1> DEFINE W == [v \in Nat |-> world]
           F == [v \in Nat |-> fleet.seen]
<1>1. PICK w \in Worlds : world = [version |-> 0, content |-> w.content, markets |-> w.markets, of |-> {}]
  BY DEF ReadsInit
<1>2. w.content = [d \in Domains |-> w.content[d]]
  BY ReadsAssumption
<1>3. WorldNamed(W)
  <2>1. world.version = 0 /\ world.content = w.content /\ Upto = {0} /\ W[0] = world
    BY <1>1 DEF Upto
  <2>2. world = [version |-> world.version, content |-> world.content, markets |-> world.markets, of |-> world.of]
    BY <1>1
  <2>3. QED
    BY <1>2, <2>1, <2>2 DEF WorldNamed
<1>4. FleetNamed(F)
  BY DEF ReadsInit, FleetNamed
<1>5. CachedNamed(W) /\ HistoryNamed(W) /\ CallsNamed(W, F) /\ CacheNamed(W, F)
  BY EmptySeq DEF ReadsInit, CachedNamed, HistoryNamed, CallsNamed, CacheNamed
<1>6. QED
  BY <1>3, <1>4, <1>5 DEF ReadsInv, Named

\* What was named stays named when the world or the fleet gets another version.
LEMMA NamedGrows ==
  ASSUME NEW W, NEW F, NEW W2, NEW F2, Named(W, F),
         world'.version \in Nat, world'.version >= world.version,
         \A v \in Upto : W2[v] = W[v],
         fleet'.version \in Nat, fleet'.version >= fleet.version,
         \A v \in 1..fleet.version : F2[v] = F[v],
         cached' = cached, history' = history, call' = call, cache' = cache,
         WorldNamed(W2)', FleetNamed(F2)'
  PROVE  Named(W2, F2)'
<1>1. Upto \subseteq Upto' /\ 1..fleet.version \subseteq 1..fleet'.version
  BY DEF Upto, Named, WorldNamed, FleetNamed
<1>2. ASSUME NEW x, Labelling(W, x) PROVE Labelling(W2, x)'
  BY <1>1, <1>2 DEF Labelling
<1>3. ASSUME NEW f, SeenAs(F, f) PROVE SeenAs(F2, f)'
  BY <1>1, <1>3 DEF SeenAs
<1>4. CachedNamed(W2)'
  <2>1. CASE cached = NoWorld
    BY <2>1 DEF CachedNamed, NoWorld
  <2>2. CASE cached # NoWorld
    <3>1. /\ cached.observed \in Upto
          /\ cached.content = W[cached.observed].content /\ cached.markets = Shown(W[cached.observed])
          /\ Labelling(W, cached)
      BY <2>2 DEF Named, CachedNamed
    <3>2. Labelling(W2, cached)'
      BY <1>2, <3>1 DEF Labelling
    <3>3. QED
      BY <1>1, <3>1, <3>2 DEF CachedNamed
  <2>3. QED
    BY <2>1, <2>2
<1>5. HistoryNamed(W2)'
  <2>1. HistoryOf(W) \subseteq HistoryOf(W2)'
    BY <1>1 DEF HistoryOf
  <2>2. QED
    BY <2>1 DEF Named, HistoryNamed
<1>6. CallsNamed(W2, F2)'
  <2>1. ASSUME NEW c \in Clients, call[c] # NoCall PROVE CallNamed(W2, F2, call[c])'
    <3>1. CallNamed(W, F, call[c])
      BY <2>1 DEF Named, CallsNamed
    <3>2. QED
      BY <1>1, <1>2, <1>3, <3>1 DEF CallNamed, Labelling, SeenAs
  <2>2. QED
    BY <2>1 DEF Named, CallsNamed
<1>7. CacheNamed(W2, F2)'
  BY <1>1, <1>2 DEF Named, CacheNamed, Labelling
<1>8. QED
  BY <1>4, <1>5, <1>6, <1>7 DEF Named

\* A step that gives one call another phase.
LEMMA CallBecomes ==
  ASSUME NEW W, NEW F, CallsNamed(W, F), NEW c \in Clients, NEW x,
         call' = [call EXCEPT ![c] = x], world' = world, fleet' = fleet,
         x # NoCall => CallNamed(W, F, x)
  PROVE  CallsNamed(W, F)'
<1>1. DOMAIN call' = Clients /\ call'[c] = x /\ \A d \in Clients \ {c} : call'[d] = call[d]
  BY DEF CallsNamed
<1>2. ASSUME NEW d \in Clients, call'[d] # NoCall PROVE CallNamed(W, F, call'[d])
  BY <1>1, <1>2 DEF CallsNamed
<1>3. \A y : CallNamed(W, F, y) <=> CallNamed(W, F, y)'
  BY DEF CallNamed, Labelling, SeenAs, Upto
<1>4. QED
  BY <1>1, <1>2, <1>3 DEF CallsNamed

LEMMA RestKept ==
  ASSUME NEW W, NEW F, world' = world, fleet' = fleet
  PROVE  /\ WorldNamed(W) => WorldNamed(W)'
         /\ FleetNamed(F) => FleetNamed(F)'
         /\ cached' = cached /\ CachedNamed(W) => CachedNamed(W)'
         /\ history' = history /\ HistoryNamed(W) => HistoryNamed(W)'
         /\ cache' = cache /\ CacheNamed(W, F) => CacheNamed(W, F)'
BY DEF WorldNamed, FleetNamed, CachedNamed, HistoryNamed, HistoryOf, CacheNamed, Labelling, Upto, NoWorld

\* The rest of the program.
LEMMA WorldSteps ==
  ASSUME NEW W, NEW F, Named(W, F),
         \/ \E w \in Worlds : Learn(w)
         \/ \E p \in SUBSET Claimable : Promise(p)
         \/ Observe \/ Record \/ \E v \in 0..world.version : RestartReads(v)
  PROVE  ReadsInv'
<1> USE DEF Named
<1>t. /\ fleet.version \in Nat \ {0} /\ DOMAIN fleet = {"version", "seen", "run"}
      /\ world.version \in Nat /\ W[world.version] = world
  BY DEF WorldNamed, FleetNamed
<1>1. ASSUME NEW w \in Worlds, Learn(w) PROVE ReadsInv'
  <2> DEFINE n == world.version + 1
  <2>1. /\ world' = [version |-> n, content |-> w.content, markets |-> w.markets, of |-> promised]
        /\ fleet' = fleet /\ cached' = cached /\ history' = history /\ call' = call /\ cache' = cache
    BY <1>1 DEF Learn
  <2>2. n \in Nat /\ world'.version = n /\ Upto' = 0..n /\ \A v \in Upto' : v = n \/ v \in Upto
    BY <1>t, <2>1 DEF Upto
  <2>3. PICK W2 : W2 = [v \in 0..n |-> IF v = n THEN world' ELSE W[v]]
    OBVIOUS
  <2>4. W2[n] = world' /\ \A v \in Upto : W2[v] = W[v]
    BY <1>t, <2>3 DEF Upto
  <2> HIDE DEF n
  <2>5. w.content = [d \in Domains |-> w.content[d]]
    BY ReadsAssumption
  <2>6. WorldNamed(W2)'
    <3>1. /\ world'.version = n /\ world'.content = w.content
          /\ world' = [version |-> world'.version, content |-> world'.content,
                       markets |-> world'.markets, of |-> world'.of]
      BY <2>1
    <3>2. \A v \in Upto : W[v].version = v /\ W[v].content = [d \in Domains |-> W[v].content[d]]
      BY DEF WorldNamed
    <3>3. \A v \in Upto' : W2[v].version = v /\ W2[v].content = [d \in Domains |-> W2[v].content[d]]
      BY <2>2, <2>4, <2>5, <3>1, <3>2
    <3>4. QED
      BY <2>2, <2>4, <3>1, <3>3 DEF WorldNamed
  <2>7. FleetNamed(F)'
    BY <2>1 DEF FleetNamed
  <2>8. world'.version >= world.version /\ fleet'.version \in Nat /\ fleet'.version >= fleet.version
    BY <1>t, <2>1, <2>2 DEF n
  <2>9. Named(W2, F)'
    BY <2>1, <2>2, <2>4, <2>6, <2>7, <2>8, NamedGrows
  <2>10. QED
    BY <2>9 DEF ReadsInv
<1>2. ASSUME NEW p \in SUBSET Claimable, Promise(p) PROVE ReadsInv'
  <2>1. Named(W, F)'
    BY <1>t, <1>2, RestKept, NamedGrows DEF Promise
  <2>2. QED
    BY <2>1 DEF ReadsInv
<1>3. CASE Observe
  <2> DEFINE n == fleet.version + 1
  <2>1. /\ fleet' = [fleet EXCEPT !.version = n, !.seen = 1 - @]
        /\ world' = world /\ cached' = cached /\ history' = history /\ call' = call /\ cache' = cache
    BY <1>3 DEF Observe
  <2>2. /\ fleet' \in [version : Nat \ {0}, seen : {0, 1}, run : {"running", "completed"}]
        /\ fleet'.version = n
    <3>1. n \in Nat \ {0}
      BY <1>t
    <3> HIDE DEF n
    <3>2. fleet \in [version : Nat \ {0}, seen : {0, 1}, run : {"running", "completed"}]
      BY DEF FleetNamed
    <3>3. 1 - fleet.seen \in {0, 1}
      BY <3>2
    <3>4. fleet' = [fleet EXCEPT !.version = n, !.seen = 1 - fleet.seen]
      BY <2>1
    <3>5. QED
      BY <3>1, <3>2, <3>3, <3>4
  <2>0. PICK F2 : F2 = [v \in 1..n |-> IF v = n THEN fleet'.seen ELSE F[v]]
    OBVIOUS
  <2>3. F2[n] = fleet'.seen /\ \A v \in 1..fleet.version : F2[v] = F[v]
    BY <1>t, <2>0
  <2>4. n \in Nat /\ n >= fleet.version
    BY <1>t
  <2> HIDE DEF n
  <2>5. FleetNamed(F2)'
    BY <2>2, <2>3 DEF FleetNamed
  <2>6. WorldNamed(W)'
    BY <2>1 DEF WorldNamed, Upto
  <2>7. Named(W, F2)'
    <3>1. world'.version \in Nat /\ world'.version >= world.version /\ fleet'.version \in Nat
      BY <1>t, <2>1, <2>2, <2>4
    <3>2. QED
      BY <2>1, <2>2, <2>3, <2>4, <2>5, <2>6, <3>1, NamedGrows
  <2>8. QED
    BY <2>7 DEF ReadsInv
<1>4. CASE Record
  <2>1. FleetNamed(F)' /\ fleet'.version = fleet.version
    BY <1>4 DEF Record, FleetNamed
  <2>2. WorldNamed(W)' /\ world' = world
    BY <1>4 DEF Record, WorldNamed, Upto
  <2>3. Named(W, F)'
    BY <1>4, <1>t, <2>1, <2>2, NamedGrows DEF Record
  <2>4. QED
    BY <2>3 DEF ReadsInv
<1>5. ASSUME NEW v \in 0..world.version, RestartReads(v), ~twofold' PROVE ReadsInv'
  <2>1. v = world.version /\ world.of = {} /\ fleet.version = 1
    <3>1. ~(v < world.version) /\ world.of = {} /\ ~(fleet.version > 1)
      BY <1>5 DEF RestartReads
    <3>2. QED
      BY <1>t, <3>1
  <2>2. world' = world
    <3>1. world' = [world EXCEPT !.version = world.version, !.of = world.of]
      BY <1>5, <2>1 DEF RestartReads
    <3>2. QED
      BY <3>1 DEF WorldNamed
  <2>3. fleet' = fleet
    BY <1>5, <2>1 DEF RestartReads, FleetNamed
  <2>4. CachedNamed(W)' /\ HistoryNamed(W)' /\ CallsNamed(W, F)'
    <3>1. cached' = NoWorld /\ history' = <<>> /\ call' = [c \in Clients |-> NoCall]
      BY <1>5 DEF RestartReads
    <3>2. CachedNamed(W)'
      BY <3>1 DEF CachedNamed, NoWorld
    <3>3. HistoryNamed(W)'
      BY <3>1, EmptySeq DEF HistoryNamed
    <3>4. CallsNamed(W, F)'
      BY <3>1 DEF CallsNamed
    <3>5. QED
      BY <3>2, <3>3, <3>4
  <2>5. Named(W, F)'
    BY <1>5, <2>2, <2>3, <2>4, RestKept DEF RestartReads
  <2>6. QED
    BY <2>5 DEF ReadsInv
<1>6. QED
  BY <1>1, <1>2, <1>3, <1>4, <1>5 DEF ReadsInv

LEMMA ReadSteps ==
  ASSUME NEW W, NEW F, Named(W, F), NEW c \in Clients, Copy(c) \/ Snapshot(c) \/ Label(c) \/ Drop(c)
  PROVE  ReadsInv'
<1> USE DEF Named
<1>t. fleet.version \in Nat \ {0} /\ world.version \in Nat /\ W[world.version] = world
  BY DEF WorldNamed, FleetNamed
<1>1. CASE Copy(c)
  <2> DEFINE x == [phase |-> "copied", world |-> world]
  <2>1. CallNamed(W, F, x)
    BY <1>t DEF CallNamed, Upto
  <2>2. CallsNamed(W, F)'
    BY <1>1, <2>1, CallBecomes DEF Copy
  <2>3. QED
    BY <1>1, <2>2, RestKept DEF Copy, ReadsInv
<1>2. CASE Drop(c)
  <2>1. CallsNamed(W, F)'
    BY <1>2, CallBecomes DEF Drop
  <2>2. QED
    BY <1>2, <2>1, RestKept DEF Drop, ReadsInv
<1>3. CASE Snapshot(c) /\ ~twofold'
  <2> DEFINE w == call[c].world
             x == [phase |-> "projected", version |-> w.version, content |-> w.content,
                   markets |-> Offered(w.markets, promised), fleet |-> fleet]
  <2>1. call[c] # NoCall /\ call[c].phase = "copied" /\ promised = w.of
    BY <1>3 DEF Snapshot
  <2>2. w.version \in Upto /\ w = W[w.version]
    BY <2>1 DEF CallsNamed, CallNamed
  <2>3. SeenAs(F, fleet)
    BY <1>t DEF SeenAs, FleetNamed
  <2>4. CallNamed(W, F, x)
    BY <2>1, <2>2, <2>3 DEF CallNamed, Shown
  <2>5. call' = [call EXCEPT ![c] = x]
    BY <1>3 DEF Snapshot
  <2>6. CallsNamed(W, F)'
    BY <1>3, <2>4, <2>5, CallBecomes DEF Snapshot
  <2>7. QED
    BY <1>3, <2>6, RestKept DEF Snapshot, ReadsInv
<1>4. CASE Label(c)
  <2> DEFINE x == call[c]
             fresh == cached.observed # x.version
             next == IF ~fresh THEN cached
                     ELSE [observed |-> x.version, content |-> x.content, markets |-> x.markets,
                           labels |-> [d \in Domains |-> Labelled(x, d)],
                           label |-> IF MarketsChanged(x) THEN x.version ELSE cached.label]
             y == [phase |-> IF fresh /\ MarketsChanged(x) THEN "recording" ELSE "labelled",
                   content |-> x.content, markets |-> x.markets, fleet |-> x.fleet,
                   labels |-> next.labels, label |-> next.label]
  <2>1. /\ x # NoCall /\ x.phase = "projected" /\ cached' = next /\ call' = [call EXCEPT ![c] = y]
        /\ UNCHANGED <<world, promised, fleet, history, cache, twofold>>
    BY <1>4 DEF Label
  <2>2. /\ x.version \in Upto /\ x.content = W[x.version].content /\ x.markets = Shown(W[x.version])
        /\ SeenAs(F, x.fleet)
    BY <2>1 DEF CallsNamed, CallNamed
  <2>3. x.content = [d \in Domains |-> x.content[d]]
    BY <2>2 DEF WorldNamed
  <2>4. /\ next.observed = x.version /\ next.content = x.content /\ next.markets = x.markets
        /\ Labelling(W, next)
    <3>1. CASE fresh
      <4>1. ASSUME NEW d \in Domains
            PROVE  Labelled(x, d) \in Upto /\ x.content[d] = W[Labelled(x, d)].content[d]
        BY <2>2 DEF Labelled, CachedNamed, Labelling
      <4>2. /\ next.observed = x.version /\ next.content = x.content /\ next.markets = x.markets
            /\ \A d \in Domains : next.labels[d] = Labelled(x, d)
            /\ next.label = IF MarketsChanged(x) THEN x.version ELSE cached.label
        BY <3>1
      <4>3. next.label \in Upto /\ next.markets = Shown(W[next.label])
        BY <2>2, <4>2 DEF MarketsChanged, CachedNamed, Labelling
      <4>4. QED
        BY <2>3, <4>1, <4>2, <4>3 DEF Labelling
    <3>2. CASE ~fresh
      <4>1. cached # NoWorld
        <5>1. NoWorld.observed \notin Nat
          BY ReadsAssumption DEF NoWorld
        <5>2. x.version \in Nat
          BY <1>t, <2>2 DEF Upto
        <5>3. QED
          BY <3>2, <5>1, <5>2
      <4>2. QED
        BY <2>2, <3>2, <4>1 DEF CachedNamed
    <3>3. QED
      BY <3>1, <3>2
  <2> HIDE DEF next
  <2>5. CachedNamed(W)'
    BY <2>1, <2>2, <2>4 DEF CachedNamed, Labelling, Upto
  <2>6. Labelling(W, y)
    BY <2>4 DEF Labelling
  <2>7. CallNamed(W, F, y)
    BY <2>2, <2>6 DEF CallNamed
  <2> HIDE DEF y
  <2>8. CallsNamed(W, F)'
    BY <2>1, <2>7, CallBecomes
  <2>9. QED
    BY <2>1, <2>5, <2>8, RestKept DEF ReadsInv
<1>5. QED
  BY <1>1, <1>2, <1>3, <1>4 DEF ReadsInv

\* What is recorded is what its label names.
LEMMA RememberStep ==
  ASSUME NEW W, NEW F, Named(W, F), NEW c \in Clients, Remember(c)
  PROVE  ReadsInv'
<1> USE DEF Named
<1> DEFINE x == call[c]
           entry == [version |-> x.label, markets |-> x.markets]
           y == [x EXCEPT !.phase = "labelled"]
<1>1. x # NoCall /\ x.phase = "recording" /\ CallNamed(W, F, x)
  BY DEF Remember, CallsNamed
<1>2. entry \in HistoryOf(W)
  BY <1>1 DEF CallNamed, Labelling, HistoryOf
<1>3. HistoryNamed(W)'
  <2>1. PICK longer : /\ longer = history \/ longer = Append(history, entry)
                      /\ history' = IF Len(longer) > 2 THEN Tail(longer) ELSE longer
    BY DEF Remember
  <2> DEFINE S == HistoryOf(W)
  <2>2. history \in Seq(S) /\ Len(history) <= 2 /\ entry \in S
    BY <1>2 DEF HistoryNamed
  <2> HIDE DEF S, entry
  <2>3. longer \in Seq(S) /\ Len(longer) <= 3
    BY <2>1, <2>2
  <2>4. history' \in Seq(S) /\ Len(history') <= 2
    BY <2>1, <2>3
  <2>5. HistoryOf(W)' = S
    BY DEF HistoryOf, Remember, Upto, S
  <2>6. QED
    BY <2>4, <2>5 DEF HistoryNamed
<1>4. CallNamed(W, F, y)
  BY <1>1 DEF CallNamed, Labelling
<1>5. call' = [call EXCEPT ![c] = y]
  BY DEF Remember
<1>6. CallsNamed(W, F)'
  BY <1>4, <1>5, CallBecomes DEF Remember
<1>7. QED
  BY <1>3, <1>6, RestKept DEF Remember, ReadsInv

\* A delta turns the old markets into the new.
LEMMA DeltaApplies ==
  ASSUME NEW old, NEW new, new = [s \in DOMAIN new |-> new[s]]
  PROVE  Applied(old, StationMarketDelta(old, new)) = new
<1> DEFINE delta == StationMarketDelta(old, new)
           U == {s \in DOMAIN new : s \notin DOMAIN old \/ old[s] # new[s]}
<1>1. DOMAIN delta.upsert = U /\ delta.remove = DOMAIN old \ DOMAIN new /\ \A s \in U : delta.upsert[s] = new[s]
  BY DEF StationMarketDelta
<1> HIDE DEF delta
<1>2. (DOMAIN old \cup DOMAIN delta.upsert) \ delta.remove = DOMAIN new
  BY <1>1
<1>3. \A s \in DOMAIN new : (IF s \in DOMAIN delta.upsert THEN delta.upsert[s] ELSE old[s]) = new[s]
  BY <1>1
<1>4. Applied(old, delta) = [s \in DOMAIN new |-> new[s]]
  BY <1>2, <1>3 DEF Applied
<1>5. QED
  BY <1>4 DEF delta

\* The client's copy after it merged an answer is what the server saw.
LEMMA AnswerMerges ==
  ASSUME NEW W, NEW F, Named(W, F), NEW c \in Clients, call[c] # NoCall, call[c].phase = "labelled"
  PROVE  LET x == call[c]
             m == MergedState(cache[c], Held(c), x)
         IN /\ m.content = x.content /\ m.markets = x.markets /\ m.fleet.seen = x.fleet.seen
            /\ m.labels = x.labels /\ m.label = x.label /\ m.fleetVersion = x.fleet.version
<1> USE DEF Named
<1> DEFINE x == call[c]
           old == cache[c]
           has == Held(c)
           m == MergedState(old, has, x)
<1> SUFFICES /\ m.content = x.content /\ m.markets = x.markets /\ m.fleet.seen = x.fleet.seen
             /\ m.labels = x.labels /\ m.label = x.label /\ m.fleetVersion = x.fleet.version
  OBVIOUS
<1>1. Labelling(W, x) /\ SeenAs(F, x.fleet)
  BY DEF CallsNamed, CallNamed
<1>2. Upto \subseteq Nat /\ NoVersion \notin Nat
  BY ReadsAssumption DEF Upto
<1>h. /\ \A d \in Domains : has.domains[d] = x.labels[d] => old # NoCache /\ has.domains[d] = old.labels[d]
      /\ has.markets \in Nat => old # NoCache /\ has.markets = old.label
      /\ has.fleet \in Nat => old # NoCache /\ has.fleet = old.fleetVersion
  <2>1. CASE old = NoCache
    <3>1. has.markets = NoVersion /\ has.fleet = NoVersion /\ \A d \in Domains : has.domains[d] = NoVersion
      BY <2>1 DEF Held, Everything
    <3>2. \A d \in Domains : x.labels[d] \in Nat
      BY <1>1, <1>2 DEF Labelling
    <3>3. QED
      BY <1>2, <3>1, <3>2
  <2>2. CASE old # NoCache
    BY <2>2 DEF Held
  <2>3. QED
    BY <2>1, <2>2
<1>o. old # NoCache =>
        Labelling(W, old) /\ old.fleetVersion \in 1..fleet.version /\ old.fleet.seen = F[old.fleetVersion]
  BY DEF CacheNamed
<1> DEFINE update == MarketUpdate(has.markets, x)
<1>m. /\ m.labels = x.labels /\ m.label = x.label /\ m.fleetVersion = x.fleet.version
      /\ m.content = [d \in Domains |-> IF has.domains[d] # x.labels[d] THEN x.content[d] ELSE old.content[d]]
      /\ m.markets = CASE update.kind = "full" -> update.markets
                       [] update.kind = "delta" -> Applied(old.markets, update.of)
                       [] OTHER -> old.markets
      /\ m.fleet = IF has.fleet # x.fleet.version THEN x.fleet ELSE old.fleet
  BY DEF MergedState
<1> HIDE DEF m, has, update
<1>3. m.content = x.content
  <2>1. ASSUME NEW d \in Domains, has.domains[d] = x.labels[d] PROVE old.content[d] = x.content[d]
    BY <1>1, <1>h, <1>o, <2>1 DEF Labelling
  <2>2. m.content = [d \in Domains |-> x.content[d]]
    BY <1>m, <2>1
  <2>3. QED
    BY <1>1, <2>2 DEF Labelling
<1>4. m.fleet.seen = x.fleet.seen
  <2>1. CASE has.fleet = x.fleet.version
    <3>1. x.fleet.version \in Nat
      BY <1>1 DEF SeenAs
    <3>2. QED
      BY <1>1, <1>h, <1>m, <1>o, <2>1, <3>1 DEF SeenAs
  <2>2. CASE has.fleet # x.fleet.version
    BY <1>m, <2>2
  <2>3. QED
    BY <2>1, <2>2
<1>5. m.markets = x.markets
  <2>x. x.label \in Nat /\ x.label \in Upto /\ x.markets = Shown(W[x.label])
    BY <1>1, <1>2 DEF Labelling
  <2>s. x.markets = [s \in DOMAIN x.markets |-> x.markets[s]]
    BY <2>x DEF Shown, Offered
  <2> DEFINE bases == {i \in 1..Len(history) : history[i].version = has.markets}
  <2>1. CASE has.markets = x.label
    <3>1. update.kind = "none"
      BY <2>1 DEF update, MarketUpdate
    <3>2. old.markets = x.markets
      BY <1>h, <1>o, <2>1, <2>x DEF Labelling
    <3>3. QED
      BY <1>m, <3>1, <3>2
  <2>2. CASE has.markets # x.label /\ bases = {}
    <3>1. update.kind = "full" /\ update.markets = x.markets
      BY <2>2 DEF update, MarketUpdate
    <3>2. QED
      BY <1>m, <3>1
  <2>3. CASE has.markets # x.label /\ bases # {}
    <3>1. update.kind = "delta" /\ update.of = StationMarketDelta(history[Min(bases)].markets, x.markets)
      BY <2>3 DEF update, MarketUpdate
    <3>2. history \in Seq(HistoryOf(W)) /\ Len(history) \in Nat /\ Len(history) <= 2
      BY DEF HistoryNamed
    <3>3. Min(bases) \in bases
      <4>1. bases \subseteq {1, 2}
        BY <3>2
      <4>2. \E i \in bases : \A j \in bases : i <= j
        <5>1. CASE 1 \in bases
          BY <4>1, <5>1
        <5>2. CASE 1 \notin bases
          BY <2>3, <4>1, <5>2
        <5>3. QED
          BY <5>1, <5>2
      <4>3. QED
        BY <4>2 DEF Min
    <3>4. PICK i \in 1..Len(history) : i = Min(bases) /\ history[i].version = has.markets
      BY <3>3
    <3>5. history[i] \in HistoryOf(W)
      BY <3>2, <3>4, ElementOfSeq
    <3>6. has.markets \in Upto /\ history[i].markets = Shown(W[has.markets])
      <4>1. PICK v \in Upto : history[i] = [version |-> v, markets |-> Shown(W[v])]
        BY <3>5 DEF HistoryOf
      <4>2. has.markets = v
        BY <3>4, <4>1
      <4>3. QED
        BY <4>1, <4>2
    <3>7. old.markets = Shown(W[has.markets])
      BY <1>2, <1>h, <1>o, <3>6 DEF Labelling
    <3>8. Applied(old.markets, update.of) = x.markets
      BY <2>s, <3>1, <3>4, <3>6, <3>7, DeltaApplies
    <3>9. QED
      BY <1>m, <3>1, <3>8
  <2>4. QED
    BY <2>1, <2>2, <2>3
<1>6. QED
  BY <1>3, <1>4, <1>5, <1>m

LEMMA AnswerStep ==
  ASSUME NEW W, NEW F, Named(W, F), NEW c \in Clients, Answer(c)
  PROVE  ReadsInv'
<1> USE DEF Named
<1> DEFINE x == call[c]
           m == MergedState(cache[c], Held(c), x)
<1>1. /\ x # NoCall /\ x.phase = "labelled" /\ call' = [call EXCEPT ![c] = NoCall]
      /\ cache' = (IF c \notin Readers THEN cache ELSE [cache EXCEPT ![c] = m])
      /\ UNCHANGED <<world, promised, fleet, cached, history, twofold>>
  BY DEF Answer
<1>2. Labelling(W, x) /\ SeenAs(F, x.fleet)
  BY <1>1 DEF CallsNamed, CallNamed
<1>3. /\ m.content = x.content /\ m.markets = x.markets /\ m.fleet.seen = x.fleet.seen
      /\ m.labels = x.labels /\ m.label = x.label /\ m.fleetVersion = x.fleet.version
  BY <1>1, AnswerMerges
<1> HIDE DEF m
<1>4. Labelling(W, m) /\ m.fleetVersion \in 1..fleet.version /\ m.fleet.seen = F[m.fleetVersion]
  BY <1>2, <1>3 DEF Labelling, SeenAs
<1>5. CacheNamed(W, F)'
  <2>1. DOMAIN cache' = Clients /\ \A d \in Clients : cache'[d] = cache[d] \/ cache'[d] = m
    BY <1>1 DEF CacheNamed
  <2>2. ASSUME NEW k, Labelling(W, k) PROVE Labelling(W, k)'
    BY <1>1, <2>2 DEF Labelling, Upto
  <2>3. ASSUME NEW d \in Clients, cache'[d] # NoCache
        PROVE  /\ Labelling(W, cache'[d])
               /\ cache'[d].fleetVersion \in 1..fleet.version /\ cache'[d].fleet.seen = F[cache'[d].fleetVersion]
    BY <1>4, <2>1, <2>3 DEF CacheNamed
  <2>4. QED
    BY <1>1, <2>1, <2>3 DEF CacheNamed, Labelling, Upto
<1>6. CallsNamed(W, F)'
  BY <1>1, CallBecomes
<1>7. QED
  BY <1>1, <1>5, <1>6, RestKept DEF ReadsInv

LEMMA ReadsInvStep == ReadsInv /\ [ReadsNext]_readVars => ReadsInv'
<1> SUFFICES ASSUME ReadsInv, [ReadsNext]_readVars PROVE ReadsInv'
  OBVIOUS
<1>1. CASE UNCHANGED readVars
  <2>1. CASE twofold
    BY <1>1, <2>1 DEF readVars, ReadsInv
  <2>2. CASE ~twofold
    <3>1. PICK W, F : Named(W, F)
      BY <2>2 DEF ReadsInv
    <3>2. Named(W, F)'
      BY <1>1, <3>1, RestKept DEF readVars, Named, CallsNamed, CallNamed, Labelling, SeenAs, Upto
    <3>3. QED
      BY <3>2 DEF ReadsInv
  <2>3. QED
    BY <2>1, <2>2
<1>2. CASE ReadsNext
  <2>1. PICK W, F : Named(W, F)
    BY <1>2 DEF ReadsNext, ReadsInv
  <2>2. QED
    BY <1>2, <2>1, WorldSteps, ReadSteps, RememberStep, AnswerStep DEF ReadsNext
<1>3. QED
  BY <1>1, <1>2

\* However many clients read while the world, the claims and the fleet change, a client
\* that merges an answer has the world and the fleet of the server's snapshot, as long
\* as no version names two contents.
THEOREM AnswersMerge == ReadsSpec => AnswersAreComplete
<1>1. ReadsInv /\ [ReadsNext]_readVars =>
        [\A c \in Readers : Answer(c) =>
           /\ cache'[c].content = call[c].content /\ cache'[c].markets = call[c].markets
           /\ cache'[c].fleet.seen = call[c].fleet.seen]_readVars
  <2> SUFFICES ASSUME ReadsInv, ReadsNext, NEW c \in Readers, Answer(c)
               PROVE  /\ cache'[c].content = call[c].content /\ cache'[c].markets = call[c].markets
                      /\ cache'[c].fleet.seen = call[c].fleet.seen
    OBVIOUS
  <2>1. PICK W, F : Named(W, F)
    BY DEF ReadsNext, ReadsInv
  <2>2. c \in Clients
    BY ReadsAssumption
  <2>3. cache'[c] = MergedState(cache[c], Held(c), call[c])
    BY <2>1, <2>2 DEF Answer, Named, CacheNamed
  <2>4. QED
    BY <2>1, <2>2, <2>3, AnswerMerges DEF Answer
<1>2. QED
  BY <1>1, ReadsInvInit, ReadsInvStep, PTL DEF ReadsSpec, AnswersAreComplete

-----------------------------------------------------------------------------
(* Route tables. *)

Copies == kept \cup {Here}

\* A cell belongs to one graph, and the galaxy has the newest.
CellsInv ==
  /\ cell \in Nat
  /\ \A x \in Copies : x.cell \in Nat /\ x.cell <= cell
  /\ \A x, y \in Copies : x.cell = y.cell => x.graph = y.graph
  /\ \A c \in DOMAIN built : c \in Nat /\ c <= cell
  /\ RoutesAreCurrent

LEMMA CellsInit == MergeInit => CellsInv
BY DEF MergeInit, CellsInv, Copies, Here, RoutesAreCurrent, Empty

\* The galaxy changes: in a new cell, or with the graph it had.
LEMMA GalaxyChanges ==
  ASSUME CellsInv, kept' = kept,
         \/ cell' = cell + 1 /\ built' = built
         \/ cell' = cell + 1 /\ built' = Over(One(cell + 1, Graph(galaxy')), built)
         \/ cell' = cell /\ Graph(galaxy') = Graph(galaxy) /\ built' = built
  PROVE  CellsInv'
<1>1. /\ Here.cell = cell /\ Here.graph = Graph(galaxy)
      /\ Here'.cell = cell' /\ Here'.graph = Graph(galaxy')
  BY DEF Here
<1>2. CASE cell' = cell + 1
  <2>1. cell' \in Nat /\ cell < cell' /\ cell' \notin DOMAIN built
    BY <1>2 DEF CellsInv
  <2>2. \A x \in kept : x.cell \in Nat /\ x.cell <= cell /\ x.cell # cell'
    BY <2>1 DEF CellsInv, Copies
  <2>3. CASE built' = built
    BY <1>1, <2>1, <2>2, <2>3 DEF CellsInv, Copies, RoutesAreCurrent
  <2>4. CASE built' = Over(One(cell + 1, Graph(galaxy')), built)
    <3>1. DOMAIN built' = {cell'} \cup DOMAIN built /\ built'[cell'] = Graph(galaxy')
          /\ \A x \in DOMAIN built \ {cell'} : built'[x] = built[x]
      <4>1. built' = Over(One(cell', Graph(galaxy')), built)
        BY <1>2, <2>4
      <4>2. QED
        BY <4>1 DEF Over, One
    <3>2. QED
      BY <1>1, <2>1, <2>2, <3>1 DEF CellsInv, Copies, RoutesAreCurrent
  <2>5. QED
    BY <1>2, <2>1, <2>3, <2>4 DEF CellsInv
<1>3. CASE cell' = cell /\ Graph(galaxy') = Graph(galaxy) /\ built' = built
  <2>1. Here' = Here
    BY <1>3 DEF Here
  <2>2. QED
    BY <1>3, <2>1 DEF CellsInv, Copies, RoutesAreCurrent
<1>4. QED
  BY <1>2, <1>3

LEMMA CellsStep == CellsInv /\ [MergeNext]_mergeVars => CellsInv'
<1> SUFFICES ASSUME CellsInv, [MergeNext]_mergeVars PROVE CellsInv'
  OBVIOUS
<1>1. ASSUME NEW o \in Observations, Ingest(o) PROVE CellsInv'
  BY <1>1, GalaxyChanges DEF Ingest, RoutingChanged
<1>2. ASSUME NEW s \in Systems, MoveCapital(s) PROVE CellsInv'
  BY <1>2, GalaxyChanges DEF MoveCapital
<1>3. CASE Keep
  BY <1>3 DEF Keep, CellsInv, Copies, RoutesAreCurrent, Here
<1>4. ASSUME NEW x \in kept \cup {Here}, Ask(x) PROVE CellsInv'
  <2>1. x.cell \notin DOMAIN built /\ Copies' = Copies /\ cell' = cell
    BY <1>4 DEF Ask, Copies, Here
  <2>2. /\ DOMAIN built' = {x.cell} \cup DOMAIN built /\ built'[x.cell] = x.graph
        /\ \A c \in DOMAIN built \ {x.cell} : built'[c] = built[c]
    BY <1>4 DEF Ask, Over, One
  <2>3. QED
    BY <2>1, <2>2 DEF CellsInv, RoutesAreCurrent, Copies
<1>5. CASE UNCHANGED mergeVars
  BY <1>5 DEF mergeVars, CellsInv, Copies, RoutesAreCurrent, Here
<1>6. QED
  BY <1>1, <1>2, <1>3, <1>4, <1>5 DEF MergeNext

\* However observations, moves of the capital, readers that keep copies and questions
\* that build tables interleave, nobody is routed by another galaxy than his own.
THEOREM NobodyIsMisrouted == MergeSpec => []RoutesAreCurrent
<1>1. CellsInv => RoutesAreCurrent
  BY DEF CellsInv
<1>2. QED
  BY <1>1, CellsInit, CellsStep, PTL DEF MergeSpec

-----------------------------------------------------------------------------
(* Merging records. *)

LEMMA Stamps ==
  ASSUME NEW a \in Nat, NEW b \in Nat
  PROVE  /\ Earliest(a, b) \in Nat /\ Latest(a, b) \in Nat
         /\ Earliest(Earliest(a, b), b) = Earliest(a, b) /\ Latest(Latest(a, b), b) = Latest(a, b)
         /\ Earliest(a, a) = a /\ Latest(a, a) = a
         /\ Latest(a, b) >= a /\ Latest(a, b) >= b
BY DEF Earliest, Latest, Never

LEMMA SystemMerged ==
  ASSUME NEW c, NEW i, IsSystem(c), IsSystem(i)
  PROVE  LET B == Newer(i, c) /\ SystemDiffers(c, i)
         IN MergedSystem(c, i) =
              [facts |-> IF B THEN Updated(c.facts, i.facts) ELSE c.facts,
               links |-> IF B THEN (IF i.allLinks THEN i.links ELSE c.links \cup i.links) ELSE c.links,
               allLinks |-> IF B THEN c.allLinks \/ i.allLinks ELSE c.allLinks,
               at |-> IF B THEN i.at ELSE c.at, first |-> Earliest(c.first, i.first),
               last |-> Latest(c.last, i.last), scanned |-> Latest(c.scanned, i.scanned)]
<1> DEFINE B == Newer(i, c) /\ SystemDiffers(c, i)
<1>c. c = [facts |-> c.facts, links |-> c.links, allLinks |-> c.allLinks,
           at |-> c.at, first |-> c.first, last |-> c.last, scanned |-> c.scanned]
  BY DEF IsSystem
<1> SUFFICES MergedSystem(c, i) =
              [facts |-> IF B THEN Updated(c.facts, i.facts) ELSE c.facts,
               links |-> IF B THEN (IF i.allLinks THEN i.links ELSE c.links \cup i.links) ELSE c.links,
               allLinks |-> IF B THEN c.allLinks \/ i.allLinks ELSE c.allLinks,
               at |-> IF B THEN i.at ELSE c.at, first |-> Earliest(c.first, i.first),
               last |-> Latest(c.last, i.last), scanned |-> Latest(c.scanned, i.scanned)]
  OBVIOUS
<1> DEFINE known == IF B
                    THEN [c EXCEPT !.facts = Updated(@, i.facts), !.at = i.at,
                                   !.links = IF i.allLinks THEN i.links ELSE @ \cup i.links,
                                   !.allLinks = @ \/ i.allLinks]
                    ELSE c
<1>1. MergedSystem(c, i) =
        [known EXCEPT !.first = Earliest(@, i.first), !.last = Latest(@, i.last),
                      !.scanned = Latest(@, i.scanned)]
  BY DEF MergedSystem
<1> HIDE DEF B
<1>2. known = [facts |-> IF B THEN Updated(c.facts, i.facts) ELSE c.facts,
               links |-> IF B THEN (IF i.allLinks THEN i.links ELSE c.links \cup i.links) ELSE c.links,
               allLinks |-> IF B THEN c.allLinks \/ i.allLinks ELSE c.allLinks,
               at |-> IF B THEN i.at ELSE c.at, first |-> c.first, last |-> c.last,
               scanned |-> c.scanned]
  <2>1. CASE B
    BY <2>1, <1>c
  <2>2. CASE ~B
    BY <2>2, <1>c
  <2>3. QED
    BY <2>1, <2>2
<1> HIDE DEF known
<1>3. QED
  BY <1>1, <1>2

LEMMA FactsUpdated ==
  ASSUME NEW c, NEW i, IsSystem(c), IsSystem(i)
  PROVE  LET u == Updated(c.facts, i.facts)
         IN /\ u = [f \in FactNames |-> u[f]] /\ Updated(u, i.facts) = u
            /\ \A f \in FactNames : u[f] = IF i.facts[f] # Unseen THEN i.facts[f] ELSE c.facts[f]
            /\ \A f \in Given(i.facts) : u[f] = i.facts[f]
<1> DEFINE u == Updated(c.facts, i.facts)
<1>1. DOMAIN c.facts = FactNames /\ DOMAIN i.facts = FactNames
  BY DEF IsSystem
<1>2. u = [f \in FactNames |-> IF i.facts[f] # Unseen THEN i.facts[f] ELSE c.facts[f]]
  BY <1>1 DEF Updated
<1> HIDE DEF u
<1>3. \A f \in FactNames : u[f] = IF i.facts[f] # Unseen THEN i.facts[f] ELSE c.facts[f]
  BY <1>2
<1>4. u = [f \in FactNames |-> u[f]]
  BY <1>2
<1>5. Updated(u, i.facts) = [f \in FactNames |-> IF i.facts[f] # Unseen THEN i.facts[f] ELSE u[f]]
  BY <1>2 DEF Updated
<1>6. Updated(u, i.facts) = u
  BY <1>3, <1>4, <1>5
<1>7. \A f \in Given(i.facts) : u[f] = i.facts[f]
  BY <1>1, <1>3 DEF Given
<1>8. QED
  BY <1>3, <1>4, <1>6, <1>7 DEF u

\* An observation merged twice is merged once, and what it does not change keeps its time.
LEMMA SystemMerge ==
  ASSUME NEW c, NEW i, IsSystem(c), IsSystem(i)
  PROVE  LET m == MergedSystem(c, i)
         IN /\ IsSystem(m) /\ MergedSystem(m, i) = m
            /\ m.scanned >= c.scanned /\ m.at >= c.at
            /\ \A f \in FactNames : m.facts[f] # c.facts[f] =>
                 m.facts[f] = i.facts[f] /\ i.facts[f] # Unseen /\ m.at = i.at
<1> DEFINE m == MergedSystem(c, i)
           B == Newer(i, c) /\ SystemDiffers(c, i)
<1> SUFFICES /\ IsSystem(m) /\ MergedSystem(m, i) = m
             /\ m.scanned >= c.scanned /\ m.at >= c.at
             /\ \A f \in FactNames : m.facts[f] # c.facts[f] =>
                  m.facts[f] = i.facts[f] /\ i.facts[f] # Unseen /\ m.at = i.at
  OBVIOUS
<1>n. /\ c.at \in Nat /\ c.first \in Nat /\ c.last \in Nat /\ c.scanned \in Nat
      /\ i.at \in Nat /\ i.first \in Nat /\ i.last \in Nat /\ i.scanned \in Nat
      /\ c.allLinks \in BOOLEAN /\ i.allLinks \in BOOLEAN
  BY DEF IsSystem
<1>f. c.facts = [f \in FactNames |-> c.facts[f]] /\ i.facts = [f \in FactNames |-> i.facts[f]]
  BY DEF IsSystem
<1>s. /\ m.first = Earliest(c.first, i.first) /\ m.last = Latest(c.last, i.last)
      /\ m.scanned = Latest(c.scanned, i.scanned)
      /\ m = [facts |-> m.facts, links |-> m.links, allLinks |-> m.allLinks, at |-> m.at,
              first |-> m.first, last |-> m.last, scanned |-> m.scanned]
  BY SystemMerged
<1>t. /\ m.first \in Nat /\ m.last \in Nat /\ m.scanned \in Nat /\ m.scanned >= c.scanned
      /\ Earliest(m.first, i.first) = m.first /\ Latest(m.last, i.last) = m.last
      /\ Latest(m.scanned, i.scanned) = m.scanned
  BY <1>n, <1>s, Stamps
<1>1. CASE B
  <2>1. /\ m.facts = Updated(c.facts, i.facts) /\ m.at = i.at
        /\ m.links = IF i.allLinks THEN i.links ELSE c.links \cup i.links
        /\ m.allLinks = (c.allLinks \/ i.allLinks)
    BY <1>1, SystemMerged
  <2>2. i.at >= c.at
    BY <1>1 DEF Newer
  <2> HIDE DEF m, B
  <2>3. /\ m.facts = [f \in FactNames |-> m.facts[f]] /\ Updated(m.facts, i.facts) = m.facts
        /\ \A f \in FactNames : m.facts[f] = IF i.facts[f] # Unseen THEN i.facts[f] ELSE c.facts[f]
    BY <2>1, FactsUpdated
  <2>4. IsSystem(m)
    BY <1>n, <1>s, <1>t, <2>1, <2>3 DEF IsSystem
  <2>5. /\ (IF i.allLinks THEN i.links ELSE m.links \cup i.links) = m.links
        /\ (m.allLinks \/ i.allLinks) = m.allLinks
    BY <1>n, <2>1
  <2>6. MergedSystem(m, i) = m
    <3> DEFINE D == Newer(i, m) /\ SystemDiffers(m, i)
    <3>1. MergedSystem(m, i) =
            [facts |-> IF D THEN Updated(m.facts, i.facts) ELSE m.facts,
             links |-> IF D THEN (IF i.allLinks THEN i.links ELSE m.links \cup i.links) ELSE m.links,
             allLinks |-> IF D THEN m.allLinks \/ i.allLinks ELSE m.allLinks,
             at |-> IF D THEN i.at ELSE m.at, first |-> Earliest(m.first, i.first),
             last |-> Latest(m.last, i.last), scanned |-> Latest(m.scanned, i.scanned)]
      BY <2>4, SystemMerged
    <3> HIDE DEF D
    <3>2. QED
      BY <1>s, <1>t, <2>1, <2>3, <2>5, <3>1
  <2>7. QED
    BY <1>t, <2>1, <2>2, <2>3, <2>4, <2>6
<1>2. CASE ~B
  <2>1. m.facts = c.facts /\ m.at = c.at /\ m.links = c.links /\ m.allLinks = c.allLinks
    BY <1>2, SystemMerged
  <2>2. ~(Newer(i, m) /\ SystemDiffers(m, i))
    BY <1>2, <2>1 DEF Newer, SystemDiffers
  <2> HIDE DEF m, B
  <2>3. IsSystem(m)
    BY <1>n, <1>f, <1>s, <1>t, <2>1 DEF IsSystem
  <2>4. MergedSystem(m, i) = m
    BY <1>s, <1>t, <2>2, <2>3, SystemMerged
  <2>5. QED
    BY <1>n, <1>t, <2>1, <2>3, <2>4
<1>3. QED
  BY <1>1, <1>2

LEMMA SystemItself == ASSUME NEW i, IsSystem(i) PROVE MergedSystem(i, i) = i
<1>1. ~SystemDiffers(i, i)
  BY DEF SystemDiffers, Given
<1>2. /\ Earliest(i.first, i.first) = i.first /\ Latest(i.last, i.last) = i.last
      /\ Latest(i.scanned, i.scanned) = i.scanned
  BY Stamps DEF IsSystem
<1>3. i = [facts |-> i.facts, links |-> i.links, allLinks |-> i.allLinks, at |-> i.at,
           first |-> i.first, last |-> i.last, scanned |-> i.scanned]
  BY DEF IsSystem
<1>4. QED
  BY <1>1, <1>2, <1>3, SystemMerged

LEMMA PoiMerged ==
  ASSUME NEW c, NEW i, IsPoi(c), IsPoi(i), c.system = i.system
  PROVE  LET B == Newer(i, c) /\ PoiDiffers(c, i)
         IN MergedPoi(c, i) =
              [system |-> c.system,
               info |-> IF B THEN (IF i.allInfo THEN i.info ELSE PartialInfo(c.info, i.info)) ELSE c.info,
               allInfo |-> IF B THEN c.allInfo \/ i.allInfo ELSE c.allInfo,
               resources |-> IF B THEN PatchedResources(c.resources, i) ELSE c.resources,
               allResources |-> IF B THEN c.allResources \/ i.allResources ELSE c.allResources,
               at |-> IF B THEN Latest(c.at, i.at) ELSE c.at, first |-> Earliest(c.first, i.first),
               last |-> Latest(c.last, i.last)]
<1> DEFINE B == Newer(i, c) /\ PoiDiffers(c, i)
<1> SUFFICES MergedPoi(c, i) =
              [system |-> c.system,
               info |-> IF B THEN (IF i.allInfo THEN i.info ELSE PartialInfo(c.info, i.info)) ELSE c.info,
               allInfo |-> IF B THEN c.allInfo \/ i.allInfo ELSE c.allInfo,
               resources |-> IF B THEN PatchedResources(c.resources, i) ELSE c.resources,
               allResources |-> IF B THEN c.allResources \/ i.allResources ELSE c.allResources,
               at |-> IF B THEN Latest(c.at, i.at) ELSE c.at, first |-> Earliest(c.first, i.first),
               last |-> Latest(c.last, i.last)]
  OBVIOUS
<1>c. c = [system |-> c.system, info |-> c.info, allInfo |-> c.allInfo, resources |-> c.resources,
           allResources |-> c.allResources, at |-> c.at, first |-> c.first, last |-> c.last]
  BY DEF IsPoi
<1> DEFINE known == IF B
                    THEN [c EXCEPT !.info = IF i.allInfo THEN i.info ELSE PartialInfo(@, i.info),
                                   !.allInfo = @ \/ i.allInfo,
                                   !.resources = PatchedResources(@, i),
                                   !.allResources = @ \/ i.allResources,
                                   !.at = Latest(@, i.at)]
                    ELSE c
<1>1. MergedPoi(c, i) = [known EXCEPT !.first = Earliest(@, i.first), !.last = Latest(@, i.last)]
  BY DEF MergedPoi
<1> HIDE DEF B
<1>2. known = [system |-> c.system,
               info |-> IF B THEN (IF i.allInfo THEN i.info ELSE PartialInfo(c.info, i.info)) ELSE c.info,
               allInfo |-> IF B THEN c.allInfo \/ i.allInfo ELSE c.allInfo,
               resources |-> IF B THEN PatchedResources(c.resources, i) ELSE c.resources,
               allResources |-> IF B THEN c.allResources \/ i.allResources ELSE c.allResources,
               at |-> IF B THEN Latest(c.at, i.at) ELSE c.at, first |-> c.first, last |-> c.last]
  <2>1. CASE B
    BY <2>1, <1>c
  <2>2. CASE ~B
    BY <2>2, <1>c
  <2>3. QED
    BY <2>1, <2>2
<1> HIDE DEF known
<1>3. QED
  BY <1>1, <1>2

\* What an observation says of a place, once it is merged, it says no more.
LEMMA InfoMerged ==
  ASSUME NEW c, NEW i, IsPoi(c), IsPoi(i),
         NEW n, n = IF i.allInfo THEN i.info ELSE PartialInfo(c.info, i.info)
  PROVE  /\ n = [name |-> n.name, base |-> n.base] /\ n.base \in BOOLEAN
         /\ (IF i.allInfo THEN i.info ELSE PartialInfo(n, i.info)) = n
         /\ n.name # c.info.name => n.name = i.info.name
<1>1. /\ c.info = [name |-> c.info.name, base |-> c.info.base] /\ c.info.base \in BOOLEAN
      /\ i.info = [name |-> i.info.name, base |-> i.info.base] /\ i.info.base \in BOOLEAN
  BY DEF IsPoi
<1>2. CASE i.allInfo
  BY <1>1, <1>2
<1>3. CASE ~i.allInfo
  <2>1. n = [name |-> IF i.info.name # Unseen THEN i.info.name ELSE c.info.name,
             base |-> c.info.base \/ i.info.base]
    BY <1>3 DEF PartialInfo
  <2>2. n = [name |-> n.name, base |-> n.base] /\ n.base \in BOOLEAN
    <3>1. n.base = (c.info.base \/ i.info.base)
      BY <2>1
    <3>2. n = [name |-> n.name, base |-> n.base]
      BY <2>1
    <3>3. QED
      BY <1>1, <3>1, <3>2
  <2>3. PartialInfo(n, i.info) = n
    <3>1. /\ (IF i.info.name # Unseen THEN i.info.name ELSE n.name) = n.name
          /\ (n.base \/ i.info.base) = n.base
      BY <1>1, <2>1
    <3>2. QED
      BY <2>2, <3>1 DEF PartialInfo
  <2>4. QED
    BY <1>3, <2>1, <2>2, <2>3
<1>4. QED
  BY <1>2, <1>3 DEF IsPoi

LEMMA ResourcesMerged ==
  ASSUME NEW c, NEW i, IsPoi(c), IsPoi(i), NEW r, r = PatchedResources(c.resources, i)
  PROVE  r = [x \in DOMAIN r |-> r[x]] /\ PatchedResources(r, i) = r
<1>1. /\ c.resources = [x \in DOMAIN c.resources |-> c.resources[x]]
      /\ i.resources = [x \in DOMAIN i.resources |-> i.resources[x]]
  BY DEF IsPoi
<1>2. CASE i.allResources
  BY <1>1, <1>2 DEF PatchedResources
<1>3. CASE ~i.allResources
  <2>1. r = Over(i.resources, c.resources) /\ PatchedResources(r, i) = Over(i.resources, r)
    BY <1>3 DEF PatchedResources
  <2>2. /\ DOMAIN r = DOMAIN i.resources \cup DOMAIN c.resources
        /\ r = [x \in DOMAIN r |-> r[x]]
        /\ \A x \in DOMAIN i.resources : r[x] = i.resources[x]
    BY <2>1 DEF Over
  <2>3. Over(i.resources, r) = r
    BY <2>2 DEF Over
  <2>4. QED
    BY <2>1, <2>2, <2>3
<1>4. QED
  BY <1>2, <1>3

LEMMA PoiMerge ==
  ASSUME NEW c, NEW i, IsPoi(c), IsPoi(i)
  PROVE  LET m == MergedPoi(c, i)
         IN /\ IsPoi(m) /\ MergedPoi(m, i) = m /\ m.system = c.system /\ m.at >= c.at
            /\ m.info.name # c.info.name => m.at = i.at /\ m.info.name = i.info.name
<1> DEFINE m == MergedPoi(c, i)
           B == Newer(i, c) /\ PoiDiffers(c, i)
<1> SUFFICES /\ IsPoi(m) /\ MergedPoi(m, i) = m /\ m.system = c.system /\ m.at >= c.at
             /\ m.info.name # c.info.name => m.at = i.at /\ m.info.name = i.info.name
  OBVIOUS
<1>n. /\ c.at \in Nat /\ c.first \in Nat /\ c.last \in Nat
      /\ i.at \in Nat /\ i.first \in Nat /\ i.last \in Nat
      /\ c.allInfo \in BOOLEAN /\ i.allInfo \in BOOLEAN
      /\ c.allResources \in BOOLEAN /\ i.allResources \in BOOLEAN /\ c.info.base \in BOOLEAN
  BY DEF IsPoi
<1>f. c.info = [name |-> c.info.name, base |-> c.info.base]
      /\ c.resources = [x \in DOMAIN c.resources |-> c.resources[x]]
  BY DEF IsPoi
<1>0. CASE c.system # i.system
  BY <1>0, <1>n DEF MergedPoi
<1>3. CASE c.system = i.system
  <2>s. /\ m.first = Earliest(c.first, i.first) /\ m.last = Latest(c.last, i.last)
        /\ m.system = c.system
        /\ m = [system |-> m.system, info |-> m.info, allInfo |-> m.allInfo, resources |-> m.resources,
                allResources |-> m.allResources, at |-> m.at, first |-> m.first, last |-> m.last]
    BY <1>3, PoiMerged
  <2>t. /\ m.first \in Nat /\ m.last \in Nat
        /\ Earliest(m.first, i.first) = m.first /\ Latest(m.last, i.last) = m.last
    BY <1>n, <2>s, Stamps
  <2>1. CASE B
    <3>1. /\ m.info = IF i.allInfo THEN i.info ELSE PartialInfo(c.info, i.info)
          /\ m.allInfo = (c.allInfo \/ i.allInfo)
          /\ m.resources = PatchedResources(c.resources, i)
          /\ m.allResources = (c.allResources \/ i.allResources)
          /\ m.at = Latest(c.at, i.at)
      BY <1>3, <2>1, PoiMerged
    <3>2. i.at >= c.at
      BY <2>1 DEF Newer
    <3>3. m.at = i.at
      BY <1>n, <3>1, <3>2 DEF Latest
    <3> HIDE DEF m, B
    <3>4. /\ m.info = [name |-> m.info.name, base |-> m.info.base] /\ m.info.base \in BOOLEAN
          /\ (IF i.allInfo THEN i.info ELSE PartialInfo(m.info, i.info)) = m.info
          /\ m.info.name # c.info.name => m.info.name = i.info.name
      BY <3>1, InfoMerged
    <3>5. /\ m.resources = [x \in DOMAIN m.resources |-> m.resources[x]]
          /\ PatchedResources(m.resources, i) = m.resources
      BY <3>1, ResourcesMerged
    <3>6. IsPoi(m)
      <4>1. m.allInfo \in BOOLEAN /\ m.allResources \in BOOLEAN /\ m.at \in Nat
        BY <1>n, <3>1, <3>3
      <4>2. QED
        BY <2>s, <2>t, <3>4, <3>5, <4>1 DEF IsPoi
    <3>7. /\ (m.allInfo \/ i.allInfo) = m.allInfo
          /\ (m.allResources \/ i.allResources) = m.allResources /\ Latest(m.at, i.at) = m.at
      BY <1>n, <3>1, <3>3, Stamps
    <3>8. MergedPoi(m, i) = m
      <4> DEFINE D == Newer(i, m) /\ PoiDiffers(m, i)
      <4>1. MergedPoi(m, i) =
              [system |-> m.system,
               info |-> IF D THEN (IF i.allInfo THEN i.info ELSE PartialInfo(m.info, i.info)) ELSE m.info,
               allInfo |-> IF D THEN m.allInfo \/ i.allInfo ELSE m.allInfo,
               resources |-> IF D THEN PatchedResources(m.resources, i) ELSE m.resources,
               allResources |-> IF D THEN m.allResources \/ i.allResources ELSE m.allResources,
               at |-> IF D THEN Latest(m.at, i.at) ELSE m.at, first |-> Earliest(m.first, i.first),
               last |-> Latest(m.last, i.last)]
        BY <1>3, <2>s, <3>6, PoiMerged
      <4> HIDE DEF D
      <4>2. QED
        BY <2>s, <2>t, <3>4, <3>5, <3>7, <4>1
    <3>9. QED
      BY <2>s, <3>2, <3>3, <3>4, <3>6, <3>8
  <2>2. CASE ~B
    <3>1. /\ m.info = c.info /\ m.allInfo = c.allInfo /\ m.resources = c.resources
          /\ m.allResources = c.allResources /\ m.at = c.at
      BY <1>3, <2>2, PoiMerged
    <3>2. ~(Newer(i, m) /\ PoiDiffers(m, i))
      BY <2>2, <3>1 DEF Newer, PoiDiffers
    <3> HIDE DEF m, B
    <3>3. IsPoi(m)
      BY <1>n, <1>f, <2>s, <2>t, <3>1 DEF IsPoi
    <3>4. MergedPoi(m, i) = m
      BY <1>3, <2>s, <2>t, <3>2, <3>3, PoiMerged
    <3>5. QED
      BY <1>n, <2>s, <3>1, <3>3, <3>4
  <2>3. QED
    BY <2>1, <2>2
<1>4. QED
  BY <1>0, <1>3

LEMMA PoiItself == ASSUME NEW i, IsPoi(i) PROVE MergedPoi(i, i) = i
<1>1. ~PoiDiffers(i, i)
  BY DEF PoiDiffers
<1>2. Earliest(i.first, i.first) = i.first /\ Latest(i.last, i.last) = i.last
  BY Stamps DEF IsPoi
<1>3. i = [system |-> i.system, info |-> i.info, allInfo |-> i.allInfo, resources |-> i.resources,
           allResources |-> i.allResources, at |-> i.at, first |-> i.first, last |-> i.last]
  BY DEF IsPoi
<1>4. QED
  BY <1>1, <1>2, <1>3, PoiMerged

-----------------------------------------------------------------------------
(* Merging galaxies. *)

IsGalaxy(g) ==
  /\ g = [systems |-> [s \in DOMAIN g.systems |-> g.systems[s]], pois |-> [p \in DOMAIN g.pois |-> g.pois[p]]]
  /\ \A s \in DOMAIN g.systems : IsSystem(g.systems[s])
  /\ \A p \in DOMAIN g.pois : IsPoi(g.pois[p])

LEMMA ObservedRecords ==
  ASSUME NEW o \in Observations
  PROVE  /\ o.at \in Nat /\ o # Nobody
         /\ \A s \in DOMAIN o.systems :
              /\ IsSystem(o.systems[s])
              /\ \A f \in FactNames : o.systems[s].facts[f] # Unseen => o.systems[s].at = o.at
              /\ o.systems[s].facts["count"] # Unseen => \A p \in DOMAIN o.pois : o.pois[p].system = s
         /\ \A p \in DOMAIN o.pois : IsPoi(o.pois[p]) /\ o.pois[p].at = o.at
BY ObservationsAssumption

\* A place that goes is not put back by the observation that removes it.
LEMMA GoneIsGone ==
  ASSUME NEW o \in Observations, NEW p \in Gone(o)
  PROVE  p \notin DOMAIN o.pois /\ p \in DOMAIN galaxy.pois
<1>1. PICK s : /\ s = galaxy.pois[p].system /\ s \in DOMAIN o.systems /\ Current(o, s)
               /\ ~Lists(o, p, s)
  BY DEF Gone
<1>2. o.systems[s].facts["count"] # Unseen
  BY <1>1 DEF Current
<1>3. QED
  BY <1>1, <1>2, ObservedRecords DEF Gone, Lists

LEMMA SystemsAfter ==
  ASSUME IsGalaxy(galaxy), NEW o \in Observations, NEW g, g = MergedGalaxy(o)
  PROVE  /\ DOMAIN g.systems = DOMAIN galaxy.systems \cup DOMAIN o.systems
         /\ \A s \in DOMAIN g.systems :
              /\ IsSystem(g.systems[s])
              /\ s \notin DOMAIN galaxy.systems => g.systems[s] = o.systems[s]
              /\ s \in DOMAIN galaxy.systems /\ s \notin DOMAIN o.systems => g.systems[s] = galaxy.systems[s]
              /\ s \in DOMAIN galaxy.systems /\ s \in DOMAIN o.systems =>
                   g.systems[s] = MergedSystem(galaxy.systems[s], o.systems[s])
<1>1. g.systems = [id \in DOMAIN galaxy.systems \cup DOMAIN o.systems |->
                     IF id \notin DOMAIN galaxy.systems THEN o.systems[id]
                     ELSE IF id \notin DOMAIN o.systems THEN galaxy.systems[id]
                     ELSE MergedSystem(galaxy.systems[id], o.systems[id])]
  BY DEF MergedGalaxy, Merged
<1>2. QED
  BY <1>1, ObservedRecords, SystemMerge DEF IsGalaxy

LEMMA PoisAfter ==
  ASSUME IsGalaxy(galaxy), NEW o \in Observations, NEW g, g = MergedGalaxy(o)
  PROVE  /\ DOMAIN g.pois = (DOMAIN galaxy.pois \ Gone(o)) \cup DOMAIN o.pois
         /\ \A p \in DOMAIN g.pois :
              /\ IsPoi(g.pois[p])
              /\ p \notin DOMAIN galaxy.pois => g.pois[p] = o.pois[p]
              /\ p \in DOMAIN galaxy.pois => p \notin Gone(o)
              /\ p \in DOMAIN galaxy.pois /\ p \notin DOMAIN o.pois => g.pois[p] = galaxy.pois[p]
              /\ p \in DOMAIN galaxy.pois /\ p \in DOMAIN o.pois =>
                   g.pois[p] = MergedPoi(galaxy.pois[p], o.pois[p])
<1> DEFINE held == [p \in DOMAIN galaxy.pois \ Gone(o) |-> galaxy.pois[p]]
<1>1. g.pois = [id \in DOMAIN held \cup DOMAIN o.pois |->
                  IF id \notin DOMAIN held THEN o.pois[id]
                  ELSE IF id \notin DOMAIN o.pois THEN held[id]
                  ELSE MergedPoi(held[id], o.pois[id])]
  BY DEF MergedGalaxy, Merged
<1>2. DOMAIN held = DOMAIN galaxy.pois \ Gone(o) /\ \A p \in DOMAIN held : held[p] = galaxy.pois[p]
  OBVIOUS
<1> HIDE DEF held
<1>3. DOMAIN g.pois = (DOMAIN galaxy.pois \ Gone(o)) \cup DOMAIN o.pois
  BY <1>1, <1>2
<1>4. ASSUME NEW p \in DOMAIN g.pois
      PROVE  /\ p \notin DOMAIN galaxy.pois => g.pois[p] = o.pois[p]
             /\ p \in DOMAIN galaxy.pois => p \notin Gone(o)
             /\ p \in DOMAIN galaxy.pois /\ p \notin DOMAIN o.pois => g.pois[p] = galaxy.pois[p]
             /\ p \in DOMAIN galaxy.pois /\ p \in DOMAIN o.pois =>
                  g.pois[p] = MergedPoi(galaxy.pois[p], o.pois[p])
  BY <1>1, <1>2, <1>3, GoneIsGone
<1>5. ASSUME NEW p \in DOMAIN g.pois PROVE IsPoi(g.pois[p])
  <2>1. CASE p \in DOMAIN galaxy.pois /\ p \in DOMAIN o.pois
    BY <1>4, <2>1, ObservedRecords, PoiMerge DEF IsGalaxy
  <2>2. CASE ~(p \in DOMAIN galaxy.pois /\ p \in DOMAIN o.pois)
    BY <1>3, <1>4, <2>2, ObservedRecords DEF IsGalaxy
  <2>3. QED
    BY <2>1, <2>2
<1>6. QED
  BY <1>3, <1>4, <1>5

LEMMA GalaxyMerged ==
  ASSUME IsGalaxy(galaxy), NEW o \in Observations
  PROVE  IsGalaxy(MergedGalaxy(o))
<1> DEFINE g == MergedGalaxy(o)
<1>1. g = [systems |-> [s \in DOMAIN g.systems |-> g.systems[s]], pois |-> [p \in DOMAIN g.pois |-> g.pois[p]]]
  BY DEF MergedGalaxy, Merged
<1>2. QED
  BY <1>1, SystemsAfter, PoisAfter DEF IsGalaxy

\* What has been merged is merged: the same observation changes nothing more.
LEMMA MergedTwice ==
  ASSUME IsGalaxy(galaxy), NEW o \in Observations, galaxy' = MergedGalaxy(o)
  PROVE  MergedGalaxy(o)' = galaxy'
<1> PICK g : g = galaxy'
  OBVIOUS
<1>0. IsGalaxy(g) /\ g = MergedGalaxy(o)
  BY GalaxyMerged
<1>1. /\ DOMAIN g.systems = DOMAIN galaxy.systems \cup DOMAIN o.systems
      /\ \A s \in DOMAIN g.systems :
           /\ s \notin DOMAIN galaxy.systems => g.systems[s] = o.systems[s]
           /\ s \in DOMAIN galaxy.systems /\ s \notin DOMAIN o.systems => g.systems[s] = galaxy.systems[s]
           /\ s \in DOMAIN galaxy.systems /\ s \in DOMAIN o.systems =>
                g.systems[s] = MergedSystem(galaxy.systems[s], o.systems[s])
  BY <1>0, SystemsAfter
<1>2. /\ DOMAIN g.pois = (DOMAIN galaxy.pois \ Gone(o)) \cup DOMAIN o.pois
      /\ \A p \in DOMAIN g.pois :
           /\ p \notin DOMAIN galaxy.pois => g.pois[p] = o.pois[p]
           /\ p \in DOMAIN galaxy.pois => p \notin Gone(o)
           /\ p \in DOMAIN galaxy.pois /\ p \notin DOMAIN o.pois => g.pois[p] = galaxy.pois[p]
           /\ p \in DOMAIN galaxy.pois /\ p \in DOMAIN o.pois =>
                g.pois[p] = MergedPoi(galaxy.pois[p], o.pois[p])
  BY <1>0, PoisAfter
<1>3. \A s \in DOMAIN o.systems : MergedSystem(g.systems[s], o.systems[s]) = g.systems[s]
  BY <1>1, ObservedRecords, SystemMerge, SystemItself DEF IsGalaxy
<1>4. \A p \in DOMAIN o.pois : MergedPoi(g.pois[p], o.pois[p]) = g.pois[p]
  BY <1>2, ObservedRecords, PoiMerge, PoiItself DEF IsGalaxy
<1>5. ASSUME NEW s \in DOMAIN o.systems, Current(o, s)' PROVE Current(o, s)
  <2>1. CASE s \in DOMAIN galaxy.systems
    <3>1. g.systems[s].scanned >= galaxy.systems[s].scanned
      BY <1>1, <2>1, ObservedRecords, SystemMerge DEF IsGalaxy
    <3>2. /\ g.systems[s].scanned \in Nat /\ galaxy.systems[s].scanned \in Nat
          /\ o.systems[s].scanned \in Nat /\ o.systems[s].at \in Nat
      BY <1>0, <1>1, <2>1, ObservedRecords DEF IsGalaxy, IsSystem
    <3>3. s \in DOMAIN g.systems
      BY <1>1
    <3>4. QED
      BY <1>5, <2>1, <3>1, <3>2, <3>3 DEF Current
  <2>2. CASE s \notin DOMAIN galaxy.systems
    BY <1>5, <2>2 DEF Current
  <2>3. QED
    BY <2>1, <2>2
<1>6. Gone(o)' = {}
  <2> SUFFICES ASSUME NEW p \in DOMAIN g.pois, NEW s, s = g.pois[p].system,
                      s \in DOMAIN o.systems, Current(o, s)', ~Lists(o, p, s)
               PROVE  FALSE
    BY DEF Gone, Lists
  <2>1. Current(o, s)
    BY <1>5
  <2>2. p \in DOMAIN galaxy.pois
    BY <1>2 DEF Lists
  <2>3. galaxy.pois[p].system = s
    BY <1>2, <2>2, ObservedRecords, PoiMerge DEF IsGalaxy
  <2>4. p \in Gone(o)
    BY <2>1, <2>2, <2>3 DEF Gone
  <2>5. QED
    BY <1>2, <2>2, <2>4
<1>7. MergedGalaxy(o)' =
        [systems |-> [id \in DOMAIN g.systems \cup DOMAIN o.systems |->
                        IF id \notin DOMAIN g.systems THEN o.systems[id]
                        ELSE IF id \notin DOMAIN o.systems THEN g.systems[id]
                        ELSE MergedSystem(g.systems[id], o.systems[id])],
         pois |-> [id \in DOMAIN [p \in DOMAIN g.pois \ {} |-> g.pois[p]] \cup DOMAIN o.pois |->
                     IF id \notin DOMAIN [p \in DOMAIN g.pois \ {} |-> g.pois[p]] THEN o.pois[id]
                     ELSE IF id \notin DOMAIN o.pois THEN [p \in DOMAIN g.pois \ {} |-> g.pois[p]][id]
                     ELSE MergedPoi([p \in DOMAIN g.pois \ {} |-> g.pois[p]][id], o.pois[id])]]
  BY <1>6 DEF MergedGalaxy, Merged
<1>8. [id \in DOMAIN g.systems \cup DOMAIN o.systems |->
         IF id \notin DOMAIN g.systems THEN o.systems[id]
         ELSE IF id \notin DOMAIN o.systems THEN g.systems[id]
         ELSE MergedSystem(g.systems[id], o.systems[id])] = [s \in DOMAIN g.systems |-> g.systems[s]]
  BY <1>1, <1>3
<1>9. [id \in DOMAIN [p \in DOMAIN g.pois \ {} |-> g.pois[p]] \cup DOMAIN o.pois |->
         IF id \notin DOMAIN [p \in DOMAIN g.pois \ {} |-> g.pois[p]] THEN o.pois[id]
         ELSE IF id \notin DOMAIN o.pois THEN [p \in DOMAIN g.pois \ {} |-> g.pois[p]][id]
         ELSE MergedPoi([p \in DOMAIN g.pois \ {} |-> g.pois[p]][id], o.pois[id])]
        = [p \in DOMAIN g.pois |-> g.pois[p]]
  BY <1>2, <1>4
<1>10. QED
  BY <1>0, <1>7, <1>8, <1>9 DEF IsGalaxy

-----------------------------------------------------------------------------
(* Versions. *)

IsSightings ==
  /\ sightings = [a \in DOMAIN sightings |-> sightings[a]]
  /\ \A a \in DOMAIN sightings :
       /\ sightings[a] = [ship |-> sightings[a].ship, first |-> sightings[a].first, last |-> sightings[a].last]
       /\ sightings[a].first \in Nat /\ sightings[a].last \in Nat

\* What the last observation says is in the knowledge.
Settled(o) ==
  /\ MergedGalaxy(o) = galaxy
  /\ \A a \in DOMAIN o.agents : a \in DOMAIN sightings /\ Sighted(a, o.agents[a], o.at) = sightings[a]
  /\ \A x \in DOMAIN o.reports : x \in DOMAIN tables /\ tables[x] = o.reports[x]

KnowledgeInv ==
  /\ IsGalaxy(galaxy) /\ IsSightings /\ version \in Nat
  /\ tables = [x \in DOMAIN tables |-> tables[x]]
  /\ last \in Observations \cup {Nobody}
  /\ last # Nobody => Settled(last)

SightingsAfter(o) == Over([a \in DOMAIN o.agents |-> Sighted(a, o.agents[a], o.at)], sightings)

LEMMA SightingsMerged ==
  ASSUME IsSightings, NEW o \in Observations, sightings' = SightingsAfter(o)
  PROVE  /\ IsSightings'
         /\ \A a \in DOMAIN o.agents :
              a \in DOMAIN sightings' /\ Sighted(a, o.agents[a], o.at)' = sightings'[a]
<1>0. o.at \in Nat /\ Restamp \in Nat /\ Restamp > 0
  BY ObservationsAssumption
<1>1. /\ DOMAIN sightings' = DOMAIN o.agents \cup DOMAIN sightings
      /\ sightings' = [a \in DOMAIN sightings' |-> sightings'[a]]
      /\ \A a \in DOMAIN o.agents : sightings'[a] = Sighted(a, o.agents[a], o.at)
      /\ \A a \in DOMAIN sightings' \ DOMAIN o.agents :
           a \in DOMAIN sightings /\ sightings'[a] = sightings[a]
  BY DEF SightingsAfter, Over
<1>2. ASSUME NEW a \in DOMAIN o.agents, NEW r, r = sightings'[a]
      PROVE  /\ r = [ship |-> r.ship, first |-> r.first, last |-> r.last]
             /\ r.first \in Nat /\ r.last \in Nat
             /\ o.agents[a] = r.ship /\ ~(o.at >= r.last + Restamp)
  <2>1. r = Sighted(a, o.agents[a], o.at)
    BY <1>1, <1>2
  <2>2. CASE a \notin DOMAIN sightings
    BY <1>0, <2>1, <2>2 DEF Sighted
  <2>3. CASE a \in DOMAIN sightings
    <3>1. PICK s : s = sightings[a]
      OBVIOUS
    <3>2. s = [ship |-> s.ship, first |-> s.first, last |-> s.last] /\ s.first \in Nat /\ s.last \in Nat
      BY <2>3, <3>1 DEF IsSightings
    <3>3. r = IF o.agents[a] # s.ship \/ o.at >= s.last + Restamp
              THEN [ship |-> o.agents[a], first |-> Earliest(s.first, o.at), last |-> o.at] ELSE s
      BY <2>1, <2>3, <3>1 DEF Sighted
    <3>4. Earliest(s.first, o.at) \in Nat
      BY <1>0, <3>2, Stamps
    <3>5. QED
      BY <1>0, <3>2, <3>3, <3>4
  <2>4. QED
    BY <2>2, <2>3
<1>3. ASSUME NEW a \in DOMAIN o.agents PROVE Sighted(a, o.agents[a], o.at)' = sightings'[a]
  <2>1. a \in DOMAIN sightings'
    BY <1>1
  <2>2. QED
    BY <1>2, <2>1 DEF Sighted
<1>4. QED
  BY <1>1, <1>2, <1>3 DEF IsSightings

LEMMA CapitalMoved ==
  ASSUME IsGalaxy(galaxy), NEW s, NEW g,
         g = [systems |-> Over(galaxy.systems, One(s, Blank)),
              pois |-> Over(One("capital", Capital(s)), galaxy.pois)]
  PROVE  /\ IsGalaxy(g)
         /\ DOMAIN g.systems = DOMAIN galaxy.systems \cup {s}
         /\ \A x \in DOMAIN galaxy.systems : g.systems[x] = galaxy.systems[x]
         /\ s \notin DOMAIN galaxy.systems => g.systems[s] = Blank
         /\ DOMAIN g.pois = DOMAIN galaxy.pois \cup {"capital"}
         /\ \A x \in DOMAIN galaxy.pois \ {"capital"} : g.pois[x] = galaxy.pois[x]
         /\ g.pois["capital"] = Capital(s)
<1>1. /\ DOMAIN g.systems = DOMAIN galaxy.systems \cup {s}
      /\ \A x \in DOMAIN galaxy.systems : g.systems[x] = galaxy.systems[x]
      /\ s \notin DOMAIN galaxy.systems => g.systems[s] = Blank
      /\ g.systems = [x \in DOMAIN g.systems |-> g.systems[x]]
  BY DEF Over, One
<1>2. /\ DOMAIN g.pois = DOMAIN galaxy.pois \cup {"capital"}
      /\ \A x \in DOMAIN galaxy.pois \ {"capital"} : g.pois[x] = galaxy.pois[x]
      /\ g.pois["capital"] = Capital(s)
      /\ g.pois = [x \in DOMAIN g.pois |-> g.pois[x]]
  BY DEF Over, One
<1>3. IsSystem(Blank)
  <2>1. PICK b : b = Blank
    OBVIOUS
  <2>2. /\ b.facts = [f \in FactNames |-> Unseen] /\ b.links = {} /\ b.allLinks = FALSE
        /\ b.at = 0 /\ b.first = 0 /\ b.last = 0 /\ b.scanned = 0
        /\ b = [facts |-> b.facts, links |-> b.links, allLinks |-> b.allLinks,
                at |-> b.at, first |-> b.first, last |-> b.last, scanned |-> b.scanned]
    BY <2>1 DEF Blank, Never
  <2>3. b.facts = [f \in FactNames |-> b.facts[f]]
    BY <2>2
  <2>4. /\ b.allLinks \in BOOLEAN /\ {b.at, b.first, b.last, b.scanned} \subseteq Nat
        /\ b = [facts |-> [f \in FactNames |-> b.facts[f]], links |-> b.links, allLinks |-> b.allLinks,
                at |-> b.at, first |-> b.first, last |-> b.last, scanned |-> b.scanned]
    <3>1. b.allLinks \in BOOLEAN
      BY <2>2
    <3>2. b.at \in Nat /\ b.first \in Nat /\ b.last \in Nat /\ b.scanned \in Nat
      BY <2>2
    <3>3. QED
      BY <2>2, <2>3, <3>1, <3>2
  <2>5. IsSystem(b)
    BY <2>4 DEF IsSystem
  <2>6. QED
    BY <2>1, <2>5
<1>4. IsPoi(Capital(s))
  <2> DEFINE i == [name |-> "capital", base |-> TRUE]
  <2>i. i = [name |-> i.name, base |-> i.base] /\ i.base = TRUE
    OBVIOUS
  <2> HIDE DEF i
  <2>1. CASE "capital" \in DOMAIN galaxy.pois
    <3>1. PICK c : c = galaxy.pois["capital"] /\ IsPoi(c)
      BY <2>1 DEF IsGalaxy
    <3>2. Capital(s) = [system |-> s, info |-> i, allInfo |-> TRUE,
                        resources |-> c.resources, allResources |-> c.allResources,
                        at |-> c.at, first |-> c.first, last |-> c.last]
      BY <2>1, <3>1 DEF Capital, i
    <3>c. /\ c.resources = [x \in DOMAIN c.resources |-> c.resources[x]]
          /\ c.allResources \in BOOLEAN /\ {c.at, c.first, c.last} \subseteq Nat
      BY <3>1 DEF IsPoi
    <3>3. PICK r : r = Capital(s)
      OBVIOUS
    <3>4. /\ r.system = s /\ r.info = i /\ r.allInfo = TRUE /\ r.resources = c.resources
          /\ r.allResources = c.allResources /\ r.at = c.at /\ r.first = c.first /\ r.last = c.last
          /\ r = [system |-> r.system, info |-> r.info, allInfo |-> r.allInfo, resources |-> r.resources,
                  allResources |-> r.allResources, at |-> r.at, first |-> r.first, last |-> r.last]
      BY <3>2, <3>3
    <3>5. /\ r.info = [name |-> r.info.name, base |-> r.info.base] /\ r.info.base \in BOOLEAN
          /\ r.resources = [x \in DOMAIN r.resources |-> r.resources[x]]
      BY <2>i, <3>c, <3>4
    <3>6. r.allInfo \in BOOLEAN /\ r.allResources \in BOOLEAN
      BY <3>c, <3>4
    <3>7. r.at \in Nat /\ r.first \in Nat /\ r.last \in Nat
      BY <3>c, <3>4
    <3>8. r = [system |-> r.system, info |-> [name |-> r.info.name, base |-> r.info.base],
               allInfo |-> r.allInfo, resources |-> [x \in DOMAIN r.resources |-> r.resources[x]],
               allResources |-> r.allResources, at |-> r.at, first |-> r.first, last |-> r.last]
      BY <3>4, <3>5
    <3>9. IsPoi(r)
      BY <3>5, <3>6, <3>7, <3>8 DEF IsPoi
    <3>10. QED
      BY <3>3, <3>9
  <2>2. CASE "capital" \notin DOMAIN galaxy.pois
    <3>1. Capital(s) = [system |-> s, info |-> i, allInfo |-> TRUE,
                        resources |-> Empty, allResources |-> FALSE,
                        at |-> Never, first |-> Never, last |-> Never]
      BY <2>2 DEF Capital, i
    <3>2. PICK r : r = Capital(s)
      OBVIOUS
    <3>3. /\ r.system = s /\ r.info = i /\ r.allInfo = TRUE /\ r.resources = Empty
          /\ r.allResources = FALSE /\ r.at = 0 /\ r.first = 0 /\ r.last = 0
          /\ r = [system |-> r.system, info |-> r.info, allInfo |-> r.allInfo, resources |-> r.resources,
                  allResources |-> r.allResources, at |-> r.at, first |-> r.first, last |-> r.last]
      BY <3>1, <3>2 DEF Never
    <3>4. Empty = [x \in DOMAIN Empty |-> Empty[x]]
      BY DEF Empty
    <3>5. /\ r.info = [name |-> r.info.name, base |-> r.info.base] /\ r.info.base \in BOOLEAN
          /\ r.resources = [x \in DOMAIN r.resources |-> r.resources[x]]
      BY <2>i, <3>4, <3>3
    <3>6. r.allInfo \in BOOLEAN /\ r.allResources \in BOOLEAN
      BY <3>3
    <3>7. r.at \in Nat /\ r.first \in Nat /\ r.last \in Nat
      BY <3>3
    <3>8. r = [system |-> r.system, info |-> [name |-> r.info.name, base |-> r.info.base],
               allInfo |-> r.allInfo, resources |-> [x \in DOMAIN r.resources |-> r.resources[x]],
               allResources |-> r.allResources, at |-> r.at, first |-> r.first, last |-> r.last]
      BY <3>3, <3>5
    <3>9. IsPoi(r)
      BY <3>5, <3>6, <3>7, <3>8 DEF IsPoi
    <3>10. QED
      BY <3>2, <3>9
  <2>3. QED
    BY <2>1, <2>2
<1>5. g = [systems |-> [x \in DOMAIN g.systems |-> g.systems[x]], pois |-> [x \in DOMAIN g.pois |-> g.pois[x]]]
  BY <1>1, <1>2
<1>6. QED
  BY <1>1, <1>2, <1>3, <1>4, <1>5 DEF IsGalaxy

LEMMA KnowledgeInit == MergeInit => KnowledgeInv
BY DEF MergeInit, KnowledgeInv, IsGalaxy, IsSightings, Empty

LEMMA KnowledgeStep == KnowledgeInv /\ [MergeNext]_mergeVars => KnowledgeInv'
<1> SUFFICES ASSUME KnowledgeInv, [MergeNext]_mergeVars PROVE KnowledgeInv'
  OBVIOUS
<1>0. IsGalaxy(galaxy) /\ IsSightings
  BY DEF KnowledgeInv
<1>1. ASSUME NEW o \in Observations, Ingest(o) PROVE KnowledgeInv'
  <2>1. /\ last' = o /\ o # Nobody /\ galaxy' = MergedGalaxy(o) /\ sightings' = SightingsAfter(o)
        /\ tables' = Over(o.reports, tables) /\ version' \in {version, version + 1}
    BY <1>1, ObservedRecords DEF Ingest, SightingsAfter
  <2>2. IsGalaxy(galaxy)' /\ MergedGalaxy(o)' = galaxy'
    BY <1>0, <2>1, GalaxyMerged, MergedTwice DEF IsGalaxy
  <2>3. /\ IsSightings'
        /\ \A a \in DOMAIN o.agents :
             a \in DOMAIN sightings' /\ Sighted(a, o.agents[a], o.at)' = sightings'[a]
    BY <1>0, <2>1, SightingsMerged
  <2>4. /\ tables' = [x \in DOMAIN tables' |-> tables'[x]]
        /\ \A x \in DOMAIN o.reports : x \in DOMAIN tables' /\ tables'[x] = o.reports[x]
    BY <2>1 DEF Over
  <2>5. Settled(o)'
    BY <2>2, <2>3, <2>4 DEF Settled
  <2>6. version' \in Nat
    BY <2>1 DEF KnowledgeInv
  <2>7. QED
    BY <2>1, <2>2, <2>3, <2>4, <2>5, <2>6 DEF KnowledgeInv
<1>2. ASSUME NEW s \in Systems, MoveCapital(s) PROVE KnowledgeInv'
  <2>1. /\ last' = Nobody /\ UNCHANGED <<tables, sightings>> /\ version' \in {version, version + 1}
        /\ \/ galaxy' = galaxy
           \/ galaxy' = [systems |-> Over(galaxy.systems, One(s, Blank)),
                         pois |-> Over(One("capital", Capital(s)), galaxy.pois)]
    BY <1>2 DEF MoveCapital
  <2>2. IsGalaxy(galaxy')
    BY <1>0, <2>1, CapitalMoved
  <2>3. QED
    BY <2>1, <2>2 DEF KnowledgeInv, IsSightings
<1>3. ASSUME UNCHANGED <<galaxy, tables, sightings, version, last>> PROVE KnowledgeInv'
  <2>1. \A o : Settled(o)' <=> Settled(o)
    BY <1>3 DEF Settled, MergedGalaxy, Gone, Current, Lists, Sighted
  <2>2. QED
    BY <1>3, <2>1 DEF KnowledgeInv, IsGalaxy, IsSightings
<1>4. QED
  BY <1>1, <1>2, <1>3 DEF MergeNext, Keep, Ask, mergeVars

\* An observation makes a version when, and only when, something that counts is new.
LEMMA ReportsCount ==
  ASSUME tables = [x \in DOMAIN tables |-> tables[x]], NEW r
  PROVE  CountedPart(Over(r, tables)) # CountedPart(tables) <=>
           \E x \in DOMAIN r : x.kind \in Counted /\ (x \notin DOMAIN tables \/ tables[x] # r[x])
<1> DEFINE t == Over(r, tables)
           C(u) == {x \in DOMAIN u : x.kind \in Counted}
<1>1. /\ DOMAIN t = DOMAIN r \cup DOMAIN tables
      /\ \A x \in DOMAIN r : t[x] = r[x]
      /\ \A x \in DOMAIN tables \ DOMAIN r : t[x] = tables[x]
  BY DEF Over
<1> HIDE DEF t
<1>2. /\ CountedPart(t) = [x \in C(t) |-> t[x]]
      /\ CountedPart(tables) = [x \in C(tables) |-> tables[x]]
  BY DEF CountedPart
<1>3. ASSUME NEW x \in DOMAIN r, x.kind \in Counted, x \notin DOMAIN tables \/ tables[x] # r[x]
      PROVE  CountedPart(t) # CountedPart(tables)
  <2>1. x \in C(t) /\ t[x] = r[x]
    BY <1>1, <1>3
  <2>2. CASE x \notin DOMAIN tables
    <3>1. x \notin C(tables) /\ DOMAIN CountedPart(t) = C(t) /\ DOMAIN CountedPart(tables) = C(tables)
      BY <1>2, <2>2
    <3>2. QED
      BY <2>1, <3>1
  <2>3. CASE x \in DOMAIN tables /\ tables[x] # r[x]
    <3>1. CountedPart(t)[x] = t[x] /\ CountedPart(tables)[x] = tables[x]
      BY <1>2, <1>3, <2>1, <2>3
    <3>2. QED
      BY <2>1, <2>3, <3>1
  <2>4. QED
    BY <1>3, <2>2, <2>3
<1>4. ASSUME \A x \in DOMAIN r : x.kind \in Counted => x \in DOMAIN tables /\ tables[x] = r[x]
      PROVE  CountedPart(t) = CountedPart(tables)
  <2>1. C(t) = C(tables) /\ \A x \in C(t) : t[x] = tables[x]
    BY <1>1, <1>4
  <2>2. QED
    BY <1>2, <2>1
<1>5. QED
  BY <1>3, <1>4 DEF t

LEMMA VersionStep == KnowledgeInv /\ [MergeNext]_mergeVars => [taken' # taken =>
     /\ version' # version <=> Known(galaxy', tables', sightings') # Known(galaxy, tables, sightings)
     /\ \A o \in Observations : (o = last /\ Ingest(o)) => galaxy' = galaxy /\ version' = version]_mergeVars
<1> SUFFICES ASSUME KnowledgeInv, MergeNext, taken' # taken
             PROVE  /\ version' # version <=> Known(galaxy', tables', sightings') # Known(galaxy, tables, sightings)
                    /\ \A o \in Observations :
                         (o = last /\ Ingest(o)) => galaxy' = galaxy /\ version' = version
  OBVIOUS
<1>0. version \in Nat /\ version + 1 # version /\ tables = [x \in DOMAIN tables |-> tables[x]]
  BY DEF KnowledgeInv
<1>k. Known(galaxy', tables', sightings') # Known(galaxy, tables, sightings) <=>
        galaxy' # galaxy \/ sightings' # sightings \/ CountedPart(tables') # CountedPart(tables)
  BY DEF Known
<1>1. ASSUME NEW o \in Observations, Ingest(o)
      PROVE  /\ version' # version <=> Known(galaxy', tables', sightings') # Known(galaxy, tables, sightings)
             /\ o = last => galaxy' = galaxy /\ version' = version
  <2>1. /\ galaxy' = MergedGalaxy(o) /\ sightings' = SightingsAfter(o)
        /\ tables' = Over(o.reports, tables)
        /\ version' = IF Versioned(o, galaxy', sightings') THEN version + 1 ELSE version
    BY <1>1 DEF Ingest, SightingsAfter
  <2>2. CountedPart(tables') # CountedPart(tables) <=>
          \E x \in DOMAIN o.reports :
            x.kind \in Counted /\ (x \notin DOMAIN tables \/ tables[x] # o.reports[x])
    BY <1>0, <2>1, ReportsCount
  <2>3. version' # version <=> Versioned(o, galaxy', sightings')
    BY <1>0, <2>1
  <2>4. Versioned(o, galaxy', sightings') <=>
          galaxy' # galaxy \/ sightings' # sightings \/ CountedPart(tables') # CountedPart(tables)
    BY <2>2 DEF Versioned
  <2>5. ASSUME o = last PROVE galaxy' = galaxy /\ version' = version
    <3>1. Settled(o) /\ sightings = [a \in DOMAIN sightings |-> sightings[a]]
      BY <2>5, ObservedRecords DEF KnowledgeInv, IsSightings
    <3>2. galaxy' = galaxy
      BY <2>1, <3>1 DEF Settled
    <3>3. SightingsAfter(o) = sightings
      BY <3>1 DEF SightingsAfter, Over, Settled
    <3>4. ~Versioned(o, galaxy', sightings')
      BY <2>1, <3>1, <3>2, <3>3 DEF Versioned, Settled
    <3>5. QED
      BY <2>3, <3>2, <3>4
  <2>6. QED
    BY <1>k, <2>3, <2>4, <2>5
<1>2. ASSUME NEW s \in Systems, MoveCapital(s)
      PROVE  version' # version <=> Known(galaxy', tables', sightings') # Known(galaxy, tables, sightings)
  <2>1. tables' = tables /\ sightings' = sightings
    BY <1>2 DEF MoveCapital
  <2>2. version' # version <=> galaxy' # galaxy
    BY <1>0, <1>2 DEF MoveCapital
  <2>3. QED
    BY <1>k, <2>1, <2>2
<1>3. \/ \E o \in Observations : Ingest(o)
      \/ \E s \in Systems : MoveCapital(s)
  BY DEF MergeNext, Keep, Ask
<1>4. QED
  BY <1>1, <1>2, <1>3

\* Whatever observations arrive, in whatever order and however often: the version
\* clients and the writer of the file go by moves exactly when what it stands for does.
THEOREM VersionsFollow == MergeSpec => VersionsFollowChanges
<1>1. QED
  BY KnowledgeInit, KnowledgeStep, VersionStep, PTL DEF MergeSpec, VersionsFollowChanges

-----------------------------------------------------------------------------
(* The dates of facts. *)

\* The stamp of the record a fact is in.
StampOf(g, x) == IF x.fact = "info" THEN g.pois[x.id].at ELSE g.systems[x.id].at

\* No fact is from an observation that is newer than its record's stamp.
DatedInv ==
  /\ DOMAIN dated = HeldFacts(galaxy)
  /\ \A x \in HeldFacts(galaxy) : dated[x] \in Nat /\ dated[x] <= StampOf(galaxy, x)

LEMMA FactHeld ==
  ASSUME NEW g, NEW x
  PROVE  x \in HeldFacts(g) <=>
           \/ /\ x = [id |-> x.id, fact |-> x.fact]
              /\ x.id \in DOMAIN g.systems /\ x.fact \in {"name", "stronghold", "count"}
              /\ x.fact # "info" /\ g.systems[x.id].facts[x.fact] # Unseen
           \/ /\ x = [id |-> x.id, fact |-> x.fact]
              /\ x.id \in DOMAIN g.pois /\ x.fact = "info" /\ g.pois[x.id].info.name # Unseen
<1>1. /\ "info" # "name" /\ "info" # "stronghold" /\ "info" # "count"
  OBVIOUS
<1>2. \A S, T : x \in [id : S, fact : T] <=>
               x = [id |-> x.id, fact |-> x.fact] /\ x.id \in S /\ x.fact \in T
  OBVIOUS
<1>3. QED
  BY <1>1, <1>2 DEF HeldFacts, FactOf

\* A step that makes no fact older, and no fact newer than its record, keeps the dates.
LEMMA DatedKept ==
  ASSUME DatedInv, NEW g, g = galaxy', NEW at \in Nat, dated' = DatedBy(g, at),
         \A x \in HeldFacts(g) : StampOf(g, x) \in Nat,
         \A x \in HeldFacts(galaxy) : StampOf(galaxy, x) \in Nat,
         \A x \in HeldFacts(g) \cap HeldFacts(galaxy) :
           /\ StampOf(g, x) >= StampOf(galaxy, x)
           /\ FactOf(g, x) # FactOf(galaxy, x) => StampOf(g, x) = at,
         \A x \in HeldFacts(g) \ HeldFacts(galaxy) : StampOf(g, x) >= at
  PROVE  /\ DatedInv'
         /\ \A x \in DOMAIN dated \cap DOMAIN dated' : dated'[x] >= dated[x]
<1>1. /\ DOMAIN dated' = HeldFacts(g)
      /\ \A x \in HeldFacts(g) :
           dated'[x] = IF x \in HeldFacts(galaxy) /\ FactOf(g, x) = FactOf(galaxy, x)
                       THEN dated[x] ELSE at
  BY DEF DatedBy
<1>2. ASSUME NEW x \in HeldFacts(g), x \in HeldFacts(galaxy)
      PROVE  dated'[x] \in Nat /\ dated'[x] <= StampOf(g, x) /\ dated'[x] >= dated[x]
  BY <1>1, <1>2 DEF DatedInv
<1>3. ASSUME NEW x \in HeldFacts(g), x \notin HeldFacts(galaxy)
      PROVE  dated'[x] \in Nat /\ dated'[x] <= StampOf(g, x)
  BY <1>1, <1>3
<1>4. \A x : StampOf(g, x) = StampOf(galaxy, x)'
  BY DEF StampOf
<1>5. HeldFacts(g) = HeldFacts(galaxy)'
  OBVIOUS
<1>6. QED
  BY <1>1, <1>2, <1>3, <1>4, <1>5 DEF DatedInv

LEMMA StampsAreNats ==
  ASSUME NEW g, IsGalaxy(g), NEW x \in HeldFacts(g) PROVE StampOf(g, x) \in Nat
BY FactHeld DEF StampOf, IsGalaxy, IsSystem, IsPoi

LEMMA ObservedDates ==
  ASSUME IsGalaxy(galaxy), DatedInv, NEW o \in Observations, Ingest(o)
  PROVE  /\ DatedInv'
         /\ \A x \in DOMAIN dated \cap DOMAIN dated' : dated'[x] >= dated[x]
<1> PICK g : g = galaxy'
  OBVIOUS
<1>0. g = MergedGalaxy(o) /\ dated' = DatedBy(g, o.at) /\ IsGalaxy(g) /\ o.at \in Nat
  BY GalaxyMerged, ObservedRecords DEF Ingest
<1>1. ASSUME NEW x \in HeldFacts(g), NEW f, f = x.fact, NEW s, s = x.id, f # "info"
      PROVE  /\ x \in HeldFacts(galaxy) =>
                  /\ StampOf(g, x) >= StampOf(galaxy, x)
                  /\ FactOf(g, x) # FactOf(galaxy, x) => StampOf(g, x) = o.at
             /\ x \notin HeldFacts(galaxy) => StampOf(g, x) >= o.at
  <2>1. /\ x = [id |-> s, fact |-> f] /\ s \in DOMAIN g.systems /\ f \in {"name", "stronghold", "count"}
        /\ f \in FactNames /\ g.systems[s].facts[f] # Unseen
    BY <1>1, FactHeld DEF FactNames
  <2>2. /\ StampOf(g, x) = g.systems[s].at /\ StampOf(galaxy, x) = galaxy.systems[s].at
        /\ FactOf(g, x) = g.systems[s].facts[f] /\ FactOf(galaxy, x) = galaxy.systems[s].facts[f]
    BY <1>1 DEF StampOf, FactOf
  <2>3. x \in HeldFacts(galaxy) <=> s \in DOMAIN galaxy.systems /\ galaxy.systems[s].facts[f] # Unseen
    BY <1>1, <2>1, FactHeld
  <2>4. CASE s \notin DOMAIN galaxy.systems
    <3>1. s \in DOMAIN o.systems /\ g.systems[s] = o.systems[s]
      BY <1>0, <2>1, <2>4, SystemsAfter
    <3>2. g.systems[s].at = o.at
      BY <2>1, <3>1, ObservedRecords
    <3>3. QED
      BY <1>0, <2>2, <2>3, <2>4, <3>2
  <2>5. CASE s \in DOMAIN galaxy.systems /\ s \notin DOMAIN o.systems
    <3>1. g.systems[s] = galaxy.systems[s]
      BY <1>0, <2>1, <2>5, SystemsAfter
    <3>2. galaxy.systems[s].at \in Nat
      BY <2>5 DEF IsGalaxy, IsSystem
    <3>3. QED
      BY <2>1, <2>2, <2>3, <2>5, <3>1, <3>2
  <2>6. CASE s \in DOMAIN galaxy.systems /\ s \in DOMAIN o.systems
    <3>1. PICK c, i, m : c = galaxy.systems[s] /\ i = o.systems[s] /\ m = g.systems[s]
      OBVIOUS
    <3>2. IsSystem(c) /\ IsSystem(i) /\ m = MergedSystem(c, i)
      BY <1>0, <2>1, <2>6, <3>1, SystemsAfter, ObservedRecords DEF IsGalaxy
    <3>3. /\ m.at >= c.at
          /\ m.facts[f] # c.facts[f] => m.facts[f] = i.facts[f] /\ i.facts[f] # Unseen /\ m.at = i.at
      BY <2>1, <3>2, SystemMerge
    <3>4. i.facts[f] # Unseen => i.at = o.at
      BY <2>1, <2>6, <3>1, ObservedRecords
    <3>5. QED
      BY <1>0, <2>1, <2>2, <2>3, <2>6, <3>1, <3>3, <3>4
  <2>7. QED
    BY <2>4, <2>5, <2>6
<1>2. ASSUME NEW x \in HeldFacts(g), NEW p, p = x.id, x.fact = "info"
      PROVE  /\ x \in HeldFacts(galaxy) =>
                  /\ StampOf(g, x) >= StampOf(galaxy, x)
                  /\ FactOf(g, x) # FactOf(galaxy, x) => StampOf(g, x) = o.at
             /\ x \notin HeldFacts(galaxy) => StampOf(g, x) >= o.at
  <2>1. /\ x = [id |-> p, fact |-> "info"] /\ p \in DOMAIN g.pois /\ g.pois[p].info.name # Unseen
    BY <1>2, FactHeld
  <2>2. /\ StampOf(g, x) = g.pois[p].at /\ StampOf(galaxy, x) = galaxy.pois[p].at
        /\ FactOf(g, x) = g.pois[p].info.name /\ FactOf(galaxy, x) = galaxy.pois[p].info.name
    BY <1>2 DEF StampOf, FactOf
  <2>3. x \in HeldFacts(galaxy) <=> p \in DOMAIN galaxy.pois /\ galaxy.pois[p].info.name # Unseen
    BY <1>2, <2>1, FactHeld
  <2>4. CASE p \notin DOMAIN galaxy.pois
    <3>1. p \in DOMAIN o.pois /\ g.pois[p] = o.pois[p]
      BY <1>0, <2>1, <2>4, PoisAfter
    <3>2. g.pois[p].at = o.at
      BY <3>1, ObservedRecords
    <3>3. QED
      BY <1>0, <2>2, <2>3, <2>4, <3>2
  <2>5. CASE p \in DOMAIN galaxy.pois /\ p \notin DOMAIN o.pois
    <3>1. g.pois[p] = galaxy.pois[p] /\ galaxy.pois[p].at \in Nat
      BY <1>0, <2>1, <2>5, PoisAfter DEF IsGalaxy, IsPoi
    <3>2. QED
      BY <2>1, <2>2, <2>3, <2>5, <3>1
  <2>6. CASE p \in DOMAIN galaxy.pois /\ p \in DOMAIN o.pois
    <3>1. PICK c, i, m : c = galaxy.pois[p] /\ i = o.pois[p] /\ m = g.pois[p]
      OBVIOUS
    <3>2. IsPoi(c) /\ IsPoi(i) /\ m = MergedPoi(c, i) /\ i.at = o.at
      BY <1>0, <2>1, <2>6, <3>1, PoisAfter, ObservedRecords DEF IsGalaxy
    <3>3. /\ m.at >= c.at
          /\ m.info.name # c.info.name => m.at = i.at /\ m.info.name = i.info.name
      BY <3>2, PoiMerge
    <3>4. QED
      BY <1>0, <2>1, <2>2, <2>3, <2>6, <3>1, <3>2, <3>3
  <2>7. QED
    BY <2>4, <2>5, <2>6
<1>3. \A x \in HeldFacts(g) : StampOf(g, x) \in Nat
  BY <1>0, StampsAreNats
<1>4. \A x \in HeldFacts(galaxy) : StampOf(galaxy, x) \in Nat
  BY StampsAreNats
<1>5. \A x \in HeldFacts(g) \cap HeldFacts(galaxy) :
        /\ StampOf(g, x) >= StampOf(galaxy, x)
        /\ FactOf(g, x) # FactOf(galaxy, x) => StampOf(g, x) = o.at
  BY <1>1, <1>2
<1>6. \A x \in HeldFacts(g) \ HeldFacts(galaxy) : StampOf(g, x) >= o.at
  BY <1>1, <1>2
<1>7. QED
  BY <1>0, <1>3, <1>4, <1>5, <1>6, DatedKept

LEMMA CapitalDates ==
  ASSUME IsGalaxy(galaxy), DatedInv, NEW s \in Systems, MoveCapital(s)
  PROVE  /\ DatedInv'
         /\ \A x \in DOMAIN dated \cap DOMAIN dated' : dated'[x] >= dated[x]
<1> PICK g : g = galaxy'
  OBVIOUS
<1>1. CASE galaxy' = galaxy /\ dated' = dated
  BY <1>1 DEF DatedInv, StampOf
<1>2. CASE /\ g = [systems |-> Over(galaxy.systems, One(s, Blank)),
                   pois |-> Over(One("capital", Capital(s)), galaxy.pois)]
           /\ dated' = DatedBy(g, g.pois["capital"].at)
  <2>1. /\ IsGalaxy(g)
        /\ DOMAIN g.systems = DOMAIN galaxy.systems \cup {s}
        /\ \A x \in DOMAIN galaxy.systems : g.systems[x] = galaxy.systems[x]
        /\ s \notin DOMAIN galaxy.systems => g.systems[s] = Blank
        /\ DOMAIN g.pois = DOMAIN galaxy.pois \cup {"capital"}
        /\ \A x \in DOMAIN galaxy.pois \ {"capital"} : g.pois[x] = galaxy.pois[x]
        /\ g.pois["capital"] = Capital(s)
    BY <1>2, CapitalMoved
  <2> DEFINE at == g.pois["capital"].at
  <2>2. at \in Nat
    BY <2>1 DEF IsGalaxy, IsPoi
  <2>3. "capital" \in DOMAIN galaxy.pois => at = galaxy.pois["capital"].at
    BY <2>1 DEF Capital
  <2>4. \A f \in FactNames : Blank.facts[f] = Unseen
    BY DEF Blank
  <2>5. ASSUME NEW x \in HeldFacts(g)
        PROVE  /\ x \in HeldFacts(galaxy) =>
                    /\ StampOf(g, x) >= StampOf(galaxy, x)
                    /\ FactOf(g, x) # FactOf(galaxy, x) => StampOf(g, x) = at
               /\ x \notin HeldFacts(galaxy) => StampOf(g, x) >= at
    <3>0. StampOf(g, x) \in Nat
      BY <2>1, StampsAreNats
    <3>1. CASE x.fact # "info"
      <4>1. /\ x = [id |-> x.id, fact |-> x.fact] /\ x.id \in DOMAIN g.systems
            /\ x.fact \in {"name", "stronghold", "count"} /\ g.systems[x.id].facts[x.fact] # Unseen
        BY <3>1, FactHeld
      <4>2. x.id \in DOMAIN galaxy.systems
        BY <2>1, <2>4, <4>1 DEF FactNames
      <4>3. g.systems[x.id] = galaxy.systems[x.id]
        BY <2>1, <4>2
      <4>4. x \in HeldFacts(galaxy)
        BY <3>1, <4>1, <4>2, <4>3, FactHeld
      <4>5. StampOf(g, x) = StampOf(galaxy, x) /\ FactOf(g, x) = FactOf(galaxy, x)
        BY <3>1, <4>3 DEF StampOf, FactOf
      <4>6. QED
        BY <3>0, <4>4, <4>5
    <3>2. CASE x.fact = "info" /\ x.id = "capital"
      <4>1. StampOf(g, x) = at
        BY <3>2 DEF StampOf
      <4>2. x \in HeldFacts(galaxy) => StampOf(galaxy, x) = at
        BY <2>3, <3>2, FactHeld DEF StampOf
      <4>3. QED
        BY <2>2, <4>1, <4>2
    <3>3. CASE x.fact = "info" /\ x.id # "capital"
      <4>1. x = [id |-> x.id, fact |-> x.fact] /\ x.id \in DOMAIN g.pois /\ g.pois[x.id].info.name # Unseen
        BY <3>3, FactHeld
      <4>2. x.id \in DOMAIN galaxy.pois /\ g.pois[x.id] = galaxy.pois[x.id]
        BY <2>1, <3>3, <4>1
      <4>3. x \in HeldFacts(galaxy)
        BY <3>3, <4>1, <4>2, FactHeld
      <4>4. StampOf(g, x) = StampOf(galaxy, x) /\ FactOf(g, x) = FactOf(galaxy, x)
        BY <3>3, <4>2 DEF StampOf, FactOf
      <4>5. QED
        BY <3>0, <4>3, <4>4
    <3>4. QED
      BY <3>1, <3>2, <3>3
  <2>6. \A x \in HeldFacts(g) : StampOf(g, x) \in Nat
    BY <2>1, StampsAreNats
  <2>7. \A x \in HeldFacts(galaxy) : StampOf(galaxy, x) \in Nat
    BY StampsAreNats
  <2>8. dated' = DatedBy(g, at)
    BY <1>2
  <2> HIDE DEF at
  <2>9. \A x \in HeldFacts(g) \cap HeldFacts(galaxy) :
          /\ StampOf(g, x) >= StampOf(galaxy, x)
          /\ FactOf(g, x) # FactOf(galaxy, x) => StampOf(g, x) = at
    BY <2>5
  <2>10. \A x \in HeldFacts(g) \ HeldFacts(galaxy) : StampOf(g, x) >= at
    BY <2>5
  <2>11. QED
    BY <2>2, <2>6, <2>7, <2>8, <2>9, <2>10, DatedKept
<1>3. QED
  BY <1>1, <1>2 DEF MoveCapital

\* In whatever order the observations of different bots arrive, and wherever the capital
\* goes, no fact gives way to one that was seen before it.
THEOREM FactsNeverGoBack == MergeSpec => FactsMoveForward
<1>1. MergeInit => DatedInv
  BY FactHeld DEF MergeInit, DatedInv, HeldFacts, Empty
<1>2. KnowledgeInv /\ DatedInv /\ [MergeNext]_mergeVars =>
        /\ DatedInv'
        /\ [\A x \in DOMAIN dated \cap DOMAIN dated' : dated'[x] >= dated[x]]_mergeVars
  <2> SUFFICES ASSUME KnowledgeInv, DatedInv, [MergeNext]_mergeVars
               PROVE  /\ DatedInv'
                      /\ [\A x \in DOMAIN dated \cap DOMAIN dated' : dated'[x] >= dated[x]]_mergeVars
    OBVIOUS
  <2>0. IsGalaxy(galaxy)
    BY DEF KnowledgeInv
  <2>1. ASSUME NEW o \in Observations, Ingest(o)
        PROVE  DatedInv' /\ \A x \in DOMAIN dated \cap DOMAIN dated' : dated'[x] >= dated[x]
    BY <2>0, <2>1, ObservedDates
  <2>2. ASSUME NEW s \in Systems, MoveCapital(s)
        PROVE  DatedInv' /\ \A x \in DOMAIN dated \cap DOMAIN dated' : dated'[x] >= dated[x]
    BY <2>0, <2>2, CapitalDates
  <2>3. ASSUME UNCHANGED <<galaxy, dated>>
        PROVE  DatedInv' /\ \A x \in DOMAIN dated \cap DOMAIN dated' : dated'[x] >= dated[x]
    BY <2>3 DEF DatedInv, StampOf
  <2>4. QED
    BY <2>1, <2>2, <2>3 DEF MergeNext, Keep, Ask, mergeVars
<1>3. QED
  BY <1>1, <1>2, KnowledgeInit, KnowledgeStep, PTL DEF MergeSpec, FactsMoveForward

=============================================================================
