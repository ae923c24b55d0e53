------------------------------ MODULE FeedSync ------------------------------
(***************************************************************************)
(* The news and earnings feeds (server/services/newsFetcher.js,            *)
(* server/services/earningsFetcher.js and the routes that start them): a   *)
(* sync finds or creates a row for every entry of the provider's answer,   *)
(* one after the other, and no unique index stands behind it.              *)
(***************************************************************************)
EXTENDS Integers, FiniteSets

CONSTANTS
    Syncs,       \* sync requests that can be under way at once
    Entries,     \* the keys of entries: title and day, or day, symbol and kind
    Unusable,    \* entries without a headline or link, symbol or date
    FeedBound,   \* bound: rows of one key
    HandBound    \* bound: rows of one key added by hand

ASSUME FeedSyncAssumption == Unusable \subseteq Entries /\ FeedBound \in Nat \ {0} /\ HandBound \in Nat

VARIABLES
    table,      \* MarketNews or EventCalendar: rows of every key
    sync,       \* the entries each sync still has to go through, and the one it creates
    twice,      \* history: keys two syncs looked for before either wrote
    byHand      \* history: rows of every key an operator added

feedVars == <<table, sync, twice, byHand>>

NoSync == [at |-> "idle", todo |-> {}, entry |-> {}]

FeedInit ==
    /\ table = [e \in Entries |-> 0]
    /\ sync = [s \in Syncs |-> NoSync]
    /\ twice = {}
    /\ byHand = [e \in Entries |-> 0]

\* The provider answered with a batch of entries.
SyncStarts(s, batch) ==
    /\ sync[s].at = "idle"
    /\ sync' = [sync EXCEPT ![s] = [NoSync EXCEPT !.at = "looping", !.todo = batch]]
    /\ UNCHANGED <<table, twice, byHand>>

\* An entry is skipped: it is not usable, or not of a symbol that was asked for.
Skips(s) ==
    /\ sync[s].at = "looping"
    /\ \E e \in sync[s].todo \cap Unusable : sync' = [sync EXCEPT ![s].todo = @ \ {e}]
    /\ UNCHANGED <<table, twice, byHand>>

Usable(s) == sync[s].todo \ Unusable

\* Mutant: entries are inserted without a look.
FindsNothing(s) ==
    /\ sync[s].at = "looping"
    /\ \E e \in Usable(s) :
         /\ sync' = [sync EXCEPT ![s].at = "creating", ![s].entry = {e}]
         /\ twice' = IF \E q \in Syncs : sync[q].entry = {e} THEN twice \cup {e} ELSE twice
    /\ UNCHANGED <<table, byHand>>

\* findOrCreate finds a row of the key ...
FindsRow(s) ==
    /\ sync[s].at = "looping"
    /\ \E e \in Usable(s) :
         /\ table[e] > 0
         /\ sync' = [sync EXCEPT ![s].todo = @ \ {e}]
    /\ UNCHANGED <<table, twice, byHand>>

\* ... or finds none ...
FindsNone(s) ==
    /\ sync[s].at = "looping"
    /\ \E e \in Usable(s) :
         /\ table[e] = 0
         /\ sync' = [sync EXCEPT ![s].at = "creating", ![s].entry = {e}]
         /\ twice' = IF \E q \in Syncs : sync[q].entry = {e} THEN twice \cup {e} ELSE twice
    /\ UNCHANGED <<table, byHand>>

\* ... and creates one.
Creates(s) ==
    /\ sync[s].at = "creating"
    /\ \E e \in sync[s].entry :
         /\ table[e] < FeedBound
         /\ table' = [table EXCEPT ![e] = @ + 1]
         /\ sync' = [sync EXCEPT ![s].at = "looping", ![s].entry = {},
                                 ![s].todo = @ \ {e}]
    /\ UNCHANGED <<twice, byHand>>

\* The database fails: the request ends, and the entries left are not tried.
SyncFails(s) ==
    /\ sync[s].at \in {"looping", "creating"}
    /\ sync' = [sync EXCEPT ![s] = NoSync]
    /\ UNCHANGED <<table, twice, byHand>>

SyncEnds(s) ==
    /\ sync[s].at = "looping" /\ sync[s].todo = {}
    /\ sync' = [sync EXCEPT ![s].at = "idle"]
    /\ UNCHANGED <<table, twice, byHand>>

\* POST /event-calendar: an operator's row is created without a look.
AddEvent(e) ==
    /\ table[e] < FeedBound /\ byHand[e] < HandBound
    /\ table' = [table EXCEPT ![e] = @ + 1]
    /\ byHand' = [byHand EXCEPT ![e] = @ + 1]
    /\ UNCHANGED <<sync, twice>>

\* DELETE /event-calendar/:id.
DeleteEvent(e) ==
    /\ table[e] > 0
    /\ table' = [table EXCEPT ![e] = @ - 1]
    /\ UNCHANGED <<sync, twice, byHand>>

FeedNext ==
    \/ \E s \in Syncs :
         \/ \E batch \in SUBSET Entries : SyncStarts(s, batch)
         \/ Skips(s) \/ FindsRow(s) \/ FindsNone(s) \/ Creates(s) \/ SyncFails(s) \/ SyncEnds(s)
    \/ \E e \in Entries : AddEvent(e) \/ DeleteEvent(e)

FeedSpec == FeedInit /\ [][FeedNext]_feedVars

-----------------------------------------------------------------------------

FeedTypeOK ==
    /\ table \in [Entries -> 0 .. FeedBound]
    /\ \A s \in Syncs :
         /\ sync[s].at \in {"idle", "looping", "creating"}
         /\ sync[s].todo \subseteq Entries
         /\ Cardinality(sync[s].entry) = (IF sync[s].at = "creating" THEN 1 ELSE 0)
    /\ twice \subseteq Entries

\* However often the feeds are synced, whatever fails halfway and whatever is
\* deleted in between, an entry has one row beside those added by hand, unless
\* two syncs looked for it before either wrote (findOrCreate).
OneRowPerEntry == \A e \in Entries \ twice : table[e] <= 1 + byHand[e]
=============================================================================
