----------------------------- MODULE SignalRelay -----------------------------
(***************************************************************************)
(* The relay of signals from producers to consumers                        *)
(* (server/routes/producerConsumer.js and the page of the web client that  *)
(* follows a channel): a consumer asks for the rows after the last id it   *)
(* has.  One channel of one user.                                          *)
(***************************************************************************)
EXTENDS Integers, FiniteSets, FiniteSetsExt

CONSTANTS
    SignalBound,   \* bound: signals published
    PollLimit      \* the limit of a read

ASSUME SignalRelayAssumption ==
    SignalBound \in Nat \ {0} /\ PollLimit \in Nat \ {0}

Ids == 1 .. SignalBound

VARIABLES
    signal,     \* ProducedSignal: what has become of every id
    follows,    \* a bot that sends the lastId of each answer, or the page
    lastId,     \* the lastId the consumer has
    since,      \* the sinceId its polls send
    asked,      \* a poll is under way
    seen,       \* the signals it was given
    behind      \* history: signals that were committed after one with a higher id

relayVars == <<signal, follows, lastId, since, asked, seen, behind>>

RelayInit ==
    /\ signal = [i \in Ids |-> "none"]
    /\ follows \in {"bot", "page"}
    /\ lastId = 0 /\ since = 0
    /\ asked = FALSE
    /\ seen = {} /\ behind = {}

\* POST /producer/:id takes the next id; the row is visible when it commits.
Produce ==
    /\ \E i \in Ids :
         /\ signal[i] = "none" /\ \A j \in Ids : j < i => signal[j] # "none"
         /\ signal' = [signal EXCEPT ![i] = "inserting"]
    /\ UNCHANGED <<follows, lastId, since, asked, seen, behind>>

Commit(i) ==
    /\ signal[i] = "inserting"
    /\ signal' = [signal EXCEPT ![i] = "live"]
    /\ behind' = IF \E j \in Ids : j > i /\ signal[j] \in {"live", "expired", "purged"}
               THEN behind \cup {i} ELSE behind
    /\ UNCHANGED <<follows, lastId, since, asked, seen>>

Expire(i) ==
    /\ signal[i] = "live"
    /\ signal' = [signal EXCEPT ![i] = "expired"]
    /\ UNCHANGED <<follows, lastId, since, asked, seen, behind>>

\* DELETE /expired; nothing else removes a row.
Purge ==
    /\ signal' = [i \in Ids |-> IF signal[i] = "expired" THEN "purged" ELSE signal[i]]
    /\ UNCHANGED <<follows, lastId, since, asked, seen, behind>>

AskSignals ==
    /\ ~asked
    /\ asked' = TRUE
    /\ UNCHANGED <<signal, follows, lastId, since, seen, behind>>

Ahead == {i \in Ids : i > since /\ signal[i] = "live"}

\* Mutant: the newest rows are read first.
NewestFirst ==
    {i \in Ahead : Cardinality({j \in Ahead : j > i}) < PollLimit}

\* The rows of a read: the lowest ids first, up to the limit.
Delivered == {i \in Ahead : Cardinality({j \in Ahead : j < i}) < PollLimit}

\* The answer's lastId is that of its last row.  The page keeps it, lower than
\* the one it had or not, and goes on polling with the one it had when the
\* stream started.
GiveSignals ==
    /\ asked
    /\ asked' = FALSE
    /\ seen' = seen \cup Delivered
    /\ lastId' = IF Delivered = {} THEN lastId ELSE Max(Delivered)
    /\ since' = IF follows = "bot" THEN lastId' ELSE since
    /\ UNCHANGED <<signal, follows, behind>>

AskFails ==
    /\ asked
    /\ asked' = FALSE
    /\ UNCHANGED <<signal, follows, lastId, since, seen, behind>>

\* The page stops and starts the stream: the effect takes the current lastId.
Restream ==
    /\ follows = "page" /\ ~asked
    /\ since' = lastId
    /\ UNCHANGED <<signal, follows, lastId, asked, seen, behind>>

RelayNext ==
    \/ Produce \/ \E i \in Ids : Commit(i) \/ Expire(i)
    \/ Purge \/ AskSignals \/ GiveSignals \/ AskFails \/ Restream

RelaySpec == RelayInit /\ [][RelayNext]_relayVars

-----------------------------------------------------------------------------

RelayTypeOK ==
    /\ signal \in [Ids -> {"none", "inserting", "live", "expired", "purged"}]
    /\ lastId \in 0 .. SignalBound /\ since \in 0 .. lastId
    /\ asked \in BOOLEAN /\ seen \subseteq Ids /\ behind \subseteq Ids

\* A consumer's place in the channel passes over no signal it could still act
\* on, but for one whose row appeared after a row with a higher id: limits,
\* expiry, failed polls and restarts of the stream lose none.
NothingPassedOver ==
    \A i \in 1 .. lastId : signal[i] = "live" => i \in seen \cup behind
=============================================================================
