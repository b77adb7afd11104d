------------------------------ MODULE Movements ------------------------------
(***************************************************************************)
(* Claims on stock (prayer-runtime, knowledge/reservations.rs; prayer-sdk, *)
(* knowledge/inventory): a movement claims quantities of what the shared   *)
(* knowledge shows - rows of an order book, storage, cargo - and of the    *)
(* faction's virtual orders, until it completes, fails or is released.     *)
(*                                                                         *)
(* The claims are kept in memory, the orders with the knowledge.  The      *)
(* caller of an operation may be any task of the process: only the HTTP    *)
(* server runs them one at a time, and only reservations share a gate.     *)
(***************************************************************************)
EXTENDS VirtualOrders, SequencesExt

CONSTANTS
  Rows,          \* rows of the books and places: [kind, level]; level 1 is the best price
  Sights,        \* what an observation may show: the quantities of all rows of a kind
  MaxLooks,      \* bound: observations
  OrderIds,
  Books,         \* what an administrator may put: sets of orders by id
  Asks,          \* what a client may ask: [claims, uses]
  MovementIds,   \* 1..n, in the order of the reservations
  MaxByHand,     \* bound: operations of an administrator on the orders
  MaxReopened,   \* bound: movements that leave Completed, once each
  NoAsk

VARIABLES
  stock,        \* the quantity the knowledge shows of each row
  seen,         \* how each storage is known: "unknown", "remembered" or "live"
  reserved,     \* reserved_by_key: no entry where nothing was ever reserved, or the last claim ended
  movements,
  orders,
  ask,          \* the reservation being made
  settling,     \* movements that ended and whose orders are not settled yet
  looks, touches,
  byHand,       \* history: held without a movement
  tampered,     \* history: orders whose movements were overruled by an administrator or a restart
  reopened      \* history: movements that left Completed

ledgerVars == <<stock, seen, reserved, movements, orders, ask, settling, looks, touches, byHand,
                tampered, reopened>>

\* A claim names a kind and maybe a lot; one that is resolved also what was seen of it.
AskedClaims    == [kind : STRING, lot : Int, quantity : Int]
ResolvedClaims == [kind : STRING, quantity : Int, observed : Int, key : [kind : STRING, lot : Int]]
PendingAsks    == [claims : Seq(ResolvedClaims), uses : [OrderIds -> Nat], movement : Nat]

ASSUME LedgerAssumption ==
  /\ IsFiniteSet(Rows) /\ \A r \in Rows : r \in [kind : STRING, level : Nat \ {0}]
  /\ IsFiniteSet(MovementIds) /\ MovementIds \subseteq Nat \ {0}
  /\ \A s \in Sights : \A r \in DOMAIN s \cap Rows : s[r] \in Nat
  /\ \A b \in Books : DOMAIN b \subseteq OrderIds /\ \A o \in DOMAIN b : b[o] \in VirtualOrders
  /\ \A a \in Asks : a.claims \in Seq(AskedClaims) /\ a.uses \in [OrderIds -> Nat]
  /\ NoAsk \notin PendingAsks

Storages == {"personal_storage", "faction_storage"}
Kinds    == {r.kind : r \in Rows}
Active   == {"Reserved", "Running", "NeedsReconciliation"}

\* The lot a row belongs to: every price of an ask is a lot, bids of all prices are one.
Level(r) == IF r.kind = "market" THEN r.level ELSE 1
LotOf(r) == [kind |-> r.kind, lot |-> Level(r)]
Compound(k) == [kind |-> k, lot |-> 0]
AnyLot == -1   \* a claim that names no lot; 0 names the compound key
Keys == {LotOf(r) : r \in Rows} \cup {Compound(k) : k \in Kinds}

Unborn == [status |-> "Unborn", claims |-> <<>>, uses |-> [o \in OrderIds |-> 0]]
IsActive(m) == movements[m].status \in Active
None == [o \in OrderIds |-> 0]

\* replace_virtual_orders (and the craft list): orders that make no sense are dropped.
BookOf(book) == Pruned([o \in {o \in DOMAIN book : Kept(book[o])} |-> Normalized(book[o])])
HeldIn(book) == [o \in OrderIds |-> IF o \in DOMAIN book THEN book[o].reserved ELSE 0]

\* Orders an earlier process left on disk may be there already.
LedgerInit ==
  /\ stock = [r \in Rows |-> 0] /\ seen = [k \in Storages |-> "unknown"]
  /\ reserved = <<>> /\ movements = [m \in MovementIds |-> Unborn]
  /\ orders \in {<<>>} \cup {BookOf(b) : b \in Books}
  /\ ask = NoAsk /\ settling = {} /\ looks = 0 /\ touches = 0
  /\ byHand = HeldIn(orders) /\ tampered = {} /\ reopened = {}

-----------------------------------------------------------------------------
(* What there is. *)

\* InventoryIndex: markets and cargo are live, storage is if this process fetched it.
Live(r, s) == r.kind \in Storages => s[r.kind] = "live"

\* query_canonical and the lot filter of resolve_claim_canonical.
Matching(c, st, s) ==
  {r \in Rows : /\ r.kind = c.kind /\ st[r] > 0 /\ Live(r, s)
                /\ c.lot \in {AnyLot, 0, Level(r)}}
Observed(c, st, s) == SumFunctionOnSet(st, Matching(c, st, s))

\* resolve_claim_canonical: one row that fits gives its lot, several give the compound key.
Resolved(c, st, s) ==
  [kind |-> c.kind, quantity |-> c.quantity, observed |-> Observed(c, st, s),
   key |-> CASE c.lot # AnyLot -> [kind |-> c.kind, lot |-> c.lot]
             [] c.lot = AnyLot /\ Cardinality(Matching(c, st, s)) = 1 -> LotOf(CHOOSE r \in Matching(c, st, s) : TRUE)
             [] OTHER -> Compound(c.kind)]

ClaimedOf(claims, k) ==
  SumFunction([i \in DOMAIN claims |-> IF claims[i].key = k THEN Positive(claims[i].quantity) ELSE 0])
Owed(k)   == SumFunction([m \in MovementIds |-> IF IsActive(m) THEN ClaimedOf(movements[m].claims, k) ELSE 0])
UsedOf(o) == SumFunction([m \in MovementIds |-> IF IsActive(m) THEN movements[m].uses[o] ELSE 0])

\* reserved_for_key and reserved_for_compound.
ReservedAt(k) == IF k \in DOMAIN reserved THEN reserved[k] ELSE 0
ReservedFor(kind) ==
  SumFunction([k \in {k \in Keys : k.kind = kind /\ (k.lot = 0 \/ kind # "cargo")} |-> ReservedAt(k)])

\* Observations of the books and of a storage overwrite what was known, and settle
\* whether orders with a tipping point are dumped.
Storage(st, s) ==
  IF s["faction_storage"] = "unknown" \/ ~\E r \in Rows : r.kind = "faction_storage" THEN Unknown
  ELSE st[CHOOSE r \in Rows : r.kind = "faction_storage"]

Look(sight) ==
  /\ looks < MaxLooks /\ looks' = looks + 1
  /\ stock' = [r \in Rows |-> IF r \in DOMAIN sight THEN sight[r] ELSE stock[r]]
  /\ seen' = [k \in Storages |-> IF \E r \in DOMAIN sight : r.kind = k THEN "live" ELSE seen[k]]
  /\ orders' = DumpModes(orders, Storage(stock', seen'))
  /\ UNCHANGED <<reserved, movements, ask, settling, touches, byHand, tampered, reopened>>

-----------------------------------------------------------------------------
(* reserve_inventory_movement. *)

\* The knowledge is copied before the gate is taken.
Asked(a) ==
  /\ ask = NoAsk
  /\ ask' = [claims |-> [i \in DOMAIN a.claims |-> Resolved(a.claims[i], stock, seen)],
             uses |-> a.uses, movement |-> 0]
  /\ UNCHANGED <<stock, seen, reserved, movements, orders, settling, looks, touches, byHand, tampered,
                 reopened>>

Open(o) ==
  IF o \in DOMAIN orders THEN OpenQuantity(orders[o], Storage(stock, seen), ReservedFor("faction_storage"))
  ELSE 0
UsesFit == \A o \in OrderIds : ask.uses[o] > 0 => Open(o) >= ask.uses[o]

\* Mutant: the claims of one request are compared with the stock one by one.
EachClaimFits ==
  \A i \in DOMAIN ask.claims :
    LET c == ask.claims[i] IN c.quantity > 0 /\ c.observed > 0 /\ c.observed - ReservedAt(c.key) >= c.quantity

\* InventoryReservationLedger::reserve: the claims on one key are taken together.
ClaimsFit ==
  \A i \in DOMAIN ask.claims :
    LET c == ask.claims[i]
        least == Min({ask.claims[j].observed : j \in {j \in DOMAIN ask.claims : ask.claims[j].key = c.key}})
    IN c.quantity > 0 /\ c.observed > 0 /\ least - ReservedAt(c.key) >= ClaimedOf(ask.claims, c.key)

\* A request for nothing is not granted.
Granted == UsesFit /\ ClaimsFit /\ (ask.claims # <<>> \/ ask.uses # None)

Born == {m \in MovementIds : movements[m].status # "Unborn"}
Taken(claims) ==
  [k \in DOMAIN reserved \cup {claims[i].key : i \in DOMAIN claims} |-> ReservedAt(k) + ClaimedOf(claims, k)]

Refuse ==
  /\ ask # NoAsk /\ ask.movement = 0 /\ ~Granted
  /\ ask' = NoAsk
  /\ UNCHANGED <<stock, seen, reserved, movements, orders, settling, looks, touches, byHand, tampered,
                 reopened>>

Claim ==
  /\ ask # NoAsk /\ ask.movement = 0 /\ Granted
  /\ \E m \in MovementIds \ Born :
       /\ \A n \in MovementIds \ Born : m <= n
       /\ movements' = [movements EXCEPT ![m] =
                          [status |-> "Reserved", claims |-> ask.claims, uses |-> ask.uses]]
       /\ ask' = IF ask.uses = None THEN NoAsk ELSE [ask EXCEPT !.movement = m]
  /\ reserved' = Taken(ask.claims)
  /\ UNCHANGED <<stock, seen, orders, settling, looks, touches, byHand, tampered, reopened>>

-----------------------------------------------------------------------------
(* The status of a movement. *)

Allowed == {<<"Reserved", "Running">>, <<"Reserved", "Released">>, <<"Reserved", "Failed">>,
            <<"Running", "Completed">>, <<"Running", "Failed">>, <<"Running", "NeedsReconciliation">>,
            <<"NeedsReconciliation", "Completed">>, <<"NeedsReconciliation", "Failed">>,
            <<"NeedsReconciliation", "Released">>,
            <<"Completed", "Released">>, <<"Completed", "NeedsReconciliation">>}

Without(amounts, claim) ==
  IF claim.key \notin DOMAIN amounts THEN amounts
  ELSE IF amounts[claim.key] = claim.quantity
       THEN [k \in DOMAIN amounts \ {claim.key} |-> amounts[k]]
       ELSE [amounts EXCEPT ![claim.key] = @ - claim.quantity]

\* InventoryReservationLedger::transition: claims end when the movement stops being
\* active.  They are not made again when a completed movement needs reconciliation.
Freed(m, to) ==
  IF IsActive(m) /\ to \notin Active THEN FoldLeft(Without, reserved, movements[m].claims) ELSE reserved

\* transition_inventory_movement and reconcile_inventory_movement, up to the orders.
Transition(m, to) ==
  /\ <<movements[m].status, to>> \in Allowed
  /\ movements[m].status = "Completed" => m \notin reopened /\ Cardinality(reopened) < MaxReopened
  /\ movements' = [movements EXCEPT ![m].status = to]
  /\ reserved' = Freed(m, to)
  /\ settling' = IF to \in {"Completed", "Failed", "Released"}
                 THEN settling \cup {[movement |-> m, done |-> to = "Completed", from |-> movements[m].status]}
                 ELSE settling
  /\ reopened' = IF movements[m].status = "Completed" THEN reopened \cup {m} ELSE reopened
  /\ UNCHANGED <<stock, seen, orders, ask, looks, touches, byHand, tampered>>

SettledBook(uses, done) == Pruned([o \in DOMAIN orders |-> Settled(orders[o], uses[o], done)])

Settle(t) ==
  /\ t \in settling /\ settling' = settling \ {t}
  /\ orders' = SettledBook(movements[t.movement].uses, t.done)
  /\ UNCHANGED <<stock, seen, reserved, movements, ask, looks, touches, byHand, tampered, reopened>>

\* The amount the orders are asked for after the ledger has the movement: another
\* task may have changed them, then the movement is released.
HoldOrders ==
  /\ ask # NoAsk /\ ask.movement > 0 /\ ask' = NoAsk
  /\ LET m == ask.movement
     IN IF HoldsAll(orders, ask.uses)
        THEN /\ orders' = [o \in DOMAIN orders |-> IF ask.uses[o] > 0 THEN WithHeld(orders[o], ask.uses[o])
                                                   ELSE orders[o]]
             /\ UNCHANGED <<movements, reserved>>
        ELSE /\ UNCHANGED orders
             /\ IF <<movements[m].status, "Released">> \in Allowed
                THEN movements' = [movements EXCEPT ![m].status = "Released"] /\ reserved' = Freed(m, "Released")
                ELSE UNCHANGED <<movements, reserved>>
  /\ tampered' = IF HoldsAll(orders, ask.uses) THEN tampered
                 ELSE tampered \cup {o \in OrderIds : ask.uses[o] > 0 /\ ~(IsActive(ask.movement) /\ movements'[ask.movement].status = "Released")}
  /\ UNCHANGED <<stock, seen, settling, looks, touches, byHand, reopened>>

-----------------------------------------------------------------------------
(* Administration of the orders, and restarts. *)

\* What an order should hold for its movements now.
Expected(o) ==
  UsedOf(o) - (IF ask # NoAsk /\ ask.movement > 0 THEN ask.uses[o] ELSE 0)
  + SumFunction([t \in settling |-> movements[t.movement].uses[o]])
InUse == {o \in OrderIds : Expected(o) # 0 \/ (ask # NoAsk /\ ask.movement > 0 /\ ask.uses[o] > 0)
                           \/ \E t \in settling : movements[t.movement].uses[o] > 0}

ByHand ==
  /\ touches < MaxByHand /\ touches' = touches + 1
  /\ UNCHANGED <<stock, seen, reserved, movements, ask, settling, looks, reopened>>

Put(book) ==
  /\ ByHand
  /\ orders' = BookOf(book)
  /\ byHand' = HeldIn(orders')
  /\ tampered' = tampered \cup InUse

HoldByHand(uses) ==
  /\ ByHand /\ orders' = Pruned(HeldEach(orders, uses))
  /\ byHand' = [o \in OrderIds |-> IF o \in DOMAIN orders /\ Accepts(orders[o], uses[o])
                                   THEN byHand[o] + uses[o] ELSE byHand[o]]
  /\ UNCHANGED tampered

EndByHand(o, Ended(_)) ==
  /\ ByHand /\ o \in DOMAIN orders
  /\ orders' = Pruned([orders EXCEPT ![o] = Ended(@)])
  /\ byHand' = [byHand EXCEPT ![o] = 0]
  /\ tampered' = tampered \cup (InUse \cap {o})
FillByHand(o)    == EndByHand(o, FilledByHand)
ReleaseByHand(o) == EndByHand(o, ReleasedByHand)

\* Only the orders and what they hold are on disk.
RestartLedger ==
  /\ looks < MaxLooks /\ looks' = looks + 1
  /\ stock' = [r \in Rows |-> IF r.kind \in Storages THEN stock[r] ELSE 0]
  /\ seen' = [k \in Storages |-> IF seen[k] = "live" THEN "remembered" ELSE seen[k]]
  /\ reserved' = <<>> /\ movements' = [m \in MovementIds |-> Unborn]
  /\ ask' = NoAsk /\ settling' = {} /\ reopened' = {}
  /\ tampered' = tampered \cup InUse \cup {o \in OrderIds : \E m \in reopened : movements[m].uses[o] > 0}
  /\ UNCHANGED <<orders, touches, byHand>>

LedgerNext ==
  \/ \E s \in Sights : Look(s)
  \/ \E a \in Asks : Asked(a)
  \/ Refuse \/ Claim \/ HoldOrders
  \/ \E m \in MovementIds, to \in Active \cup {"Completed", "Failed", "Released"} : Transition(m, to)
  \/ \E t \in settling : Settle(t)
  \/ \E b \in Books : Put(b)
  \/ \E a \in Asks : HoldByHand(a.uses)
  \/ \E o \in OrderIds : FillByHand(o) \/ ReleaseByHand(o)
  \/ RestartLedger

LedgerSpec == LedgerInit /\ [][LedgerNext]_ledgerVars

-----------------------------------------------------------------------------
(* What clients are shown of a book. *)

Better(r, q) == IF r.kind = "market_bid" THEN r.level > q.level ELSE r.level < q.level

\* Mutant: rows are reduced in the order they are listed, by the whole amount each.
ProjectedEach(r) == Positive(stock[r] - ReservedFor(r.kind))

\* apply_market_reservations: the best rows are taken first.
Projected(r) ==
  LET ahead == SumFunctionOnSet(stock, {q \in Rows : q.kind = r.kind /\ Better(q, r)})
  IN stock[r] - Least(stock[r], Positive(ReservedFor(r.kind) - ahead))

\* market_movement_health: the depth observed is dealt out to the active movements
\* in the order of their reservations.
ClaimedKind(m, kind) ==
  IF ~IsActive(m) THEN 0
  ELSE SumFunction([i \in DOMAIN movements[m].claims |->
                      IF movements[m].claims[i].kind = kind THEN movements[m].claims[i].quantity ELSE 0])
Depth(kind) == SumFunctionOnSet(stock, {r \in Rows : r.kind = kind})
Backed(m, kind) ==
  LET before == SumFunction([n \in {n \in MovementIds : n < m} |-> ClaimedKind(n, kind)])
  IN Least(ClaimedKind(m, kind), Positive(Depth(kind) - before))

-----------------------------------------------------------------------------
(* Properties. *)

\* A new movement is accepted only if all active movements together claim no more of
\* each key than was observed: whatever ended, failed or was reconciled before,
\* nothing is promised twice on one key - unless a completed movement was reopened,
\* whose claims are then forgotten or removed twice.
StockPromisedOnce ==
  [][\A m \in MovementIds :
       movements[m].status = "Unborn" /\ movements'[m].status = "Reserved" /\ reopened = {} =>
         \A k \in Keys, i \in DOMAIN ask.claims :
           ask.claims[i].key = k => Owed(k)' <= ask.claims[i].observed]_ledgerVars

\* The depth shown to clients and the part of the claims that is backed add up to
\* the depth observed, and no row is offered while a better one is still claimed.
DepthAddsUp ==
  reopened = {} => \A kind \in Kinds \cap {"market", "market_bid"} :
    LET rows == {r \in Rows : r.kind = kind}
    IN /\ SumFunction([r \in rows |-> Projected(r)]) + SumFunction([m \in MovementIds |-> Backed(m, kind)])
            = Depth(kind)
       /\ \A r, q \in rows : Better(r, q) /\ Projected(r) > 0 => Projected(q) = stock[q]

\* An order is never filled and held beyond its quantity, and it holds exactly what
\* its active movements and the administrator hold of it, at every step of a
\* reservation and of a settlement - unless an administrator overruled them, the
\* process was restarted, or a completed movement was reopened.
OrdersAddUp ==
  \A o \in DOMAIN orders :
    /\ Fixed(orders[o]) => Positive(orders[o].reserved) + Positive(orders[o].filled) <= orders[o].quantity
    /\ o \notin tampered /\ (\A m \in reopened : movements[m].uses[o] = 0) =>
         orders[o].reserved = Expected(o) + byHand[o]
=============================================================================
