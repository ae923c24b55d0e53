----------------------------- MODULE PriceCache -----------------------------
(***************************************************************************)
(* The latest-price cache of one server process                            *)
(* (server/services/priceCache.js over server/services/redisCache.js): a   *)
(* shared store with expiry in front, one in-process slot, one request     *)
(* under way, and a circuit breaker.                                       *)
(*                                                                         *)
(* A price is represented by the time it was first cached.  The code       *)
(* between two awaits is one step.                                         *)
(***************************************************************************)
EXTENDS Integers, FiniteSets

CONSTANTS
    Readers,         \* callers of getLatestTradePrices
    Symbols,
    Lists,           \* the symbol lists they ask for
    MaxAges,         \* the maxAgeMs they pass
    StoreFloor,      \* the shortest life of a price in the store
    Threshold,       \* BREAKER_THRESHOLD
    Cooldown,        \* BREAKER_COOLDOWN_MS
    Horizon,         \* bound: the last instant of the clock
    FailureBound,    \* bound: failures in a row
    Nobody           \* no price in the store; no request under way

ASSUME PriceCacheAssumption ==
    /\ Lists \subseteq SUBSET Symbols /\ {} \notin Lists
    /\ MaxAges \subseteq Nat /\ IsFiniteSet(MaxAges) /\ StoreFloor \in Nat
    /\ Threshold \in Nat \ {0} /\ Cooldown \in Nat \ {0}
    /\ Horizon \in Nat /\ FailureBound \in Nat
    /\ Nobody \notin Readers

VARIABLES
    clock,       \* Date.now()
    slot,        \* cache: the list it holds, since when, and the prices
    inflight,    \* inflight: the list, and the reader whose request it is
    failures,    \* consecutiveFailures
    openUntil,   \* breakerOpenUntil
    store,       \* the prices in Redis, and in the process for when Redis is away
    writes,      \* setCachedPrices calls nobody waits for
    reader,      \* where each caller is
    mixed        \* history: since a request is under way, two lists were under way at once

breakerVars == <<failures, openUntil>>
storeVars   == <<store, writes>>
cacheVars   == <<clock, slot, inflight, breakerVars, storeVars, reader, mixed>>

\* Where getCachedPrices and setCachedPrices go: to the process when Redis was
\* never reached, is lost for good, or fails this one command.
Layers == {"redis", "local"}

Idle == [at |-> "idle", list |-> {}, maxAge |-> 0, since |-> 0, lead |-> Nobody]

CacheInit ==
    /\ clock = 0
    /\ slot = [list |-> {}, at |-> 0, data |-> <<>>]
    /\ inflight = [list |-> {}, by |-> Nobody]
    /\ failures = 0 /\ openUntil = 0
    /\ store = [l \in Layers |-> [s \in Symbols |-> Nobody]]
    /\ writes = {}
    /\ reader = [r \in Readers |-> Idle]
    /\ mixed = FALSE

Fetching == {r \in Readers : reader[r].at = "fetching"}
Lasts(maxAge) == IF maxAge > StoreFloor THEN maxAge ELSE StoreFloor
OldestOf(data) == CHOOSE t \in {data[s] : s \in DOMAIN data} : \A s \in DOMAIN data : t <= data[s]

\* Time passes, and prices past their life leave the store.
Passes ==
    /\ clock < Horizon
    /\ clock' = clock + 1
    /\ store' = [l \in Layers |-> [s \in Symbols |->
                   IF store[l][s] # Nobody /\ clock' > store[l][s].until
                   THEN Nobody ELSE store[l][s]]]
    /\ UNCHANGED <<slot, inflight, breakerVars, writes, reader, mixed>>

\* getLatestTradePrices is called; it reads the clock and asks the store.
Ask(r, list, maxAge) ==
    /\ reader[r] = Idle
    /\ reader' = [reader EXCEPT ![r] =
                    [at |-> "asking", list |-> list, maxAge |-> maxAge, since |-> clock,
                     lead |-> Nobody]]
    /\ UNCHANGED <<clock, slot, inflight, breakerVars, storeVars, mixed>>

\* The prices of a list that a layer holds.
Held(layer, list) ==
    [s \in {x \in list : store[layer][x] # Nobody} |-> store[layer][s].at]

Return(r) == reader' = [reader EXCEPT ![r] = Idle]

\* Every symbol is in the store: the slot takes the answer, stamped with now.
FoundInStore(r, layer) ==
    /\ reader[r].at = "asking"
    /\ LET data == Held(layer, reader[r].list) IN
       /\ DOMAIN data = reader[r].list
       /\ slot' = [list |-> reader[r].list, at |-> clock, data |-> data]
       /\ Return(r)
    /\ UNCHANGED <<clock, inflight, breakerVars, storeVars, mixed>>

MissedInStore(r) ==
    /\ reader[r].at = "asking"
    /\ \E layer \in Layers : DOMAIN Held(layer, reader[r].list) # reader[r].list

\* The slot answers: its age is taken at the time of the call.
SlotFresh(r) == slot.list = reader[r].list /\ reader[r].since - slot.at < reader[r].maxAge

FoundInSlot(r) ==
    /\ MissedInStore(r)
    /\ SlotFresh(r)
    /\ Return(r)
    /\ UNCHANGED <<clock, slot, inflight, breakerVars, storeVars, mixed>>

\* The request under way is for the same list: its answer is shared.
Join(r) ==
    /\ MissedInStore(r)
    /\ ~SlotFresh(r)
    /\ inflight.list = reader[r].list
    /\ reader' = [reader EXCEPT ![r].at = "joined", ![r].since = 0,
                              ![r].lead = inflight.by]
    /\ UNCHANGED <<clock, slot, inflight, breakerVars, storeVars, mixed>>

\* The breaker is open: whatever the slot holds, or nothing, without a request.
TurnedAway(r) ==
    /\ MissedInStore(r)
    /\ ~SlotFresh(r) /\ inflight.list # reader[r].list
    /\ reader[r].since < openUntil
    /\ Return(r)
    /\ UNCHANGED <<clock, slot, inflight, breakerVars, storeVars, mixed>>

\* Mutant: the request under way is not remembered.
FetchUnannounced(r) ==
    /\ MissedInStore(r)
    /\ ~SlotFresh(r) /\ inflight.list # reader[r].list
    /\ ~(reader[r].since < openUntil)
    /\ reader' = [reader EXCEPT ![r].at = "fetching", ![r].since = 0]
    /\ mixed' = (mixed \/ \E q \in Fetching : reader[q].list # reader[r].list)
    /\ UNCHANGED <<clock, slot, inflight, breakerVars, storeVars>>

\* alpaca.getLatestTrades is called, and the single inflight entry is replaced.
Fetch(r) ==
    /\ MissedInStore(r)
    /\ ~SlotFresh(r) /\ inflight.list # reader[r].list
    /\ ~(reader[r].since < openUntil)
    /\ reader' = [reader EXCEPT ![r].at = "fetching", ![r].since = 0]
    /\ inflight' = [list |-> reader[r].list, by |-> r]
    /\ mixed' = (mixed \/ \E q \in Fetching : reader[q].list # reader[r].list)
    /\ UNCHANGED <<clock, slot, breakerVars, storeVars>>

\* The finally block, and everyone who waits for this request.
Settle(r) ==
    /\ reader' = [q \in Readers |-> IF q = r \/ (reader[q].at = "joined" /\ reader[q].lead = r)
                                    THEN Idle ELSE reader[q]]
    /\ inflight' = [list |-> {}, by |-> Nobody]
    /\ mixed' = (mixed /\ Fetching # {r})

\* Mutant: a success closes the count of failures and leaves the breaker's deadline.
CloseCountOnly == failures' = 0 /\ UNCHANGED openUntil

CloseBreaker == failures' = 0 /\ openUntil' = 0

FetchSucceeds(r) ==
    /\ reader[r].at = "fetching"
    /\ slot' = [list |-> reader[r].list, at |-> clock,
                data |-> [s \in reader[r].list |-> clock]]
    /\ CloseBreaker
    /\ writes' = writes \union {[list |-> reader[r].list, life |-> Lasts(reader[r].maxAge)]}
    /\ Settle(r)
    /\ UNCHANGED <<clock, store>>

\* The breaker opens at the failure that reaches the threshold, and only when it
\* has not been open since the last success.
FetchFails(r) ==
    /\ reader[r].at = "fetching"
    /\ failures < FailureBound
    /\ failures' = failures + 1
    /\ openUntil' = IF failures' = Threshold /\ openUntil = 0 THEN clock + Cooldown ELSE openUntil
    /\ Settle(r)
    /\ UNCHANGED <<clock, slot, storeVars>>

StoreWrites(w, layer) ==
    /\ w \in writes
    /\ store' = [store EXCEPT ![layer] =
                   [s \in Symbols |-> IF s \in w.list
                                      THEN [at |-> clock, until |-> clock + w.life]
                                      ELSE @[s]]]
    /\ writes' = writes \ {w}
    /\ UNCHANGED <<clock, slot, inflight, breakerVars, reader, mixed>>

CacheNext ==
    \/ Passes
    \/ \E r \in Readers :
         \/ \E list \in Lists, maxAge \in MaxAges : Ask(r, list, maxAge)
         \/ \E layer \in Layers : FoundInStore(r, layer)
         \/ FoundInSlot(r)
         \/ Join(r)
         \/ TurnedAway(r)
         \/ Fetch(r)
         \/ FetchSucceeds(r)
         \/ FetchFails(r)
    \/ \E w \in writes, layer \in Layers : StoreWrites(w, layer)

CacheSpec == CacheInit /\ [][CacheNext]_cacheVars

(***************************************************************************)
(* Properties                                                              *)
(***************************************************************************)

CacheTypeOK ==
    /\ clock \in Nat
    /\ slot = [list |-> slot.list, at |-> slot.at, data |-> slot.data]
    /\ slot.list \subseteq Symbols /\ slot.at \in Nat /\ slot.data \in [slot.list -> Nat]
    /\ inflight \in [list : SUBSET Symbols, by : Readers \union {Nobody}]
    /\ failures \in Nat /\ openUntil \in Nat
    /\ store \in [Layers -> [Symbols -> {Nobody} \union [at : Nat, until : Nat]]]
    /\ writes \subseteq [list : SUBSET Symbols, life : Nat]
    /\ reader \in [Readers -> [at : {"idle", "asking", "joined", "fetching"},
                               list : SUBSET Symbols, maxAge : Nat, since : Nat,
                               lead : Readers \union {Nobody}]]
    /\ mixed \in BOOLEAN

\* A burst of callers costs one upstream request: two requests are under way at
\* once only if, since the first of them, requests for two different lists were.
\* The single inflight entry is replaced by a request for another list, and
\* cleared by whichever request ends first.
SingleFlight == ~mixed => Cardinality(Fetching) <= 1

LongestLife == CHOOSE n \in {Lasts(a) : a \in MaxAges} : \A a \in MaxAges : Lasts(a) <= n

\* A price that the slot answers a caller with is never older than the life of
\* the store and the caller's own maxAgeMs and waiting time together:
\* the slot stamps a price of the store as new, but the chain ends there.
CacheAgeBounded ==
    \A r \in Readers : reader[r].at = "asking" /\ SlotFresh(r) =>
        clock - OldestOf(slot.data) <= LongestLife + reader[r].maxAge + (clock - reader[r].since)

\* The count of failures and the deadline of the breaker tell the same story:
\* the breaker has a deadline exactly when the failures since the last success
\* reached the threshold, however the answers of concurrent requests interleave.
BreakerMatchesFailures == (failures >= Threshold) <=> (openUntil # 0)
=============================================================================
