---------------------------- MODULE TelegramBot ----------------------------
(***************************************************************************)
(* The Telegram bot of one user (server/services/telegramBot.js and        *)
(* server/routes/telegram.js): the configuration row, the loops map, the   *)
(* long-poll loops and the commands they execute, with failing calls,      *)
(* reconfiguration and restarts of the process.                            *)
(*                                                                         *)
(* The Telegram server keeps an update until it is asked for a later one.  *)
(* The code between two awaits is one step.                                *)
(***************************************************************************)
EXTENDS Integers, FiniteSets

CONSTANTS
    Loops,           \* loops that may exist at once, were there no map
    UpdateBound,     \* bound: commands the user sends
    TroubleBound,    \* bound: failures, restarts and reconfigurations
    NoEntry          \* no configuration row; no entry in the loops map

ASSUME TelegramAssumption == UpdateBound \in Nat /\ TroubleBound \in Nat /\ NoEntry \notin Loops

VARIABLES
    tgConfig,    \* the TelegramConfig row: its id and lastUpdateId
    tgEntry,     \* the loop in the loops map
    loop,        \* each loop: where it is, cancelled, its copy of the row, its batch
    deleting,    \* a DELETE has stopped the loop and not yet destroyed the row
    sent,        \* commands sent so far; they are numbered
    forgotten,   \* the Telegram server has dropped the updates up to this one
    handled,     \* history: how often each command was executed
    trouble      \* history: failures, restarts and reconfigurations

tgVars == <<tgConfig, tgEntry, loop, deleting, sent, forgotten, handled, trouble>>

Updates == 1..UpdateBound
Off == [at |-> "off", cancelled |-> FALSE, copy |-> NoEntry, batch |-> {}]

TgInit ==
    /\ tgConfig = NoEntry /\ tgEntry = NoEntry
    /\ loop = [l \in Loops |-> Off]
    /\ deleting = FALSE
    /\ sent = 0 /\ forgotten = 0
    /\ handled = [u \in Updates |-> 0]
    /\ trouble = 0

Troubled == trouble < TroubleBound /\ trouble' = trouble + 1

\* startTelegramLoop and the synchronous start of runLoop: nothing when the map
\* has an entry, be it cancelled or crashed.
StartLoop(l) ==
    IF tgEntry # NoEntry THEN UNCHANGED <<tgEntry, loop>>
    ELSE /\ loop[l].at = "off"
         /\ tgEntry' = l
         /\ loop' = [loop EXCEPT ![l] = [Off EXCEPT !.at = "top"]]

\* POST: the row is created, or rewritten from the first update on.
Configure(l) ==
    /\ Troubled
    /\ tgConfig' = [id |-> IF tgConfig = NoEntry THEN trouble ELSE tgConfig.id, last |-> 0]
    /\ StartLoop(l)
    /\ UNCHANGED <<deleting, sent, forgotten, handled>>

\* Mutant: stopping a loop also removes its entry, so that a new one may start.
StopLoopAndForget ==
    /\ loop' = IF tgEntry = NoEntry THEN loop ELSE [loop EXCEPT ![tgEntry].cancelled = TRUE]
    /\ tgEntry' = NoEntry

\* stopTelegramLoop: the entry stays until the loop ends by itself.
StopLoop ==
    /\ loop' = IF tgEntry = NoEntry THEN loop ELSE [loop EXCEPT ![tgEntry].cancelled = TRUE]
    /\ UNCHANGED tgEntry

DeleteStops ==
    /\ tgConfig # NoEntry /\ ~deleting
    /\ deleting' = TRUE
    /\ StopLoop
    /\ UNCHANGED <<tgConfig, sent, forgotten, handled, trouble>>

Destroyed ==
    /\ deleting
    /\ deleting' = FALSE
    /\ tgConfig' = NoEntry
    /\ UNCHANGED <<tgEntry, loop, sent, forgotten, handled, trouble>>

\* The loop ends and deletes the user's entry, whichever loop it names.
LoopEnds(l) ==
    /\ loop[l].at = "top"
    /\ loop[l].cancelled \/ tgConfig = NoEntry
    /\ loop' = [loop EXCEPT ![l] = Off]
    /\ tgEntry' = NoEntry
    /\ UNCHANGED <<tgConfig, deleting, sent, forgotten, handled, trouble>>

ReadsConfig(l) ==
    /\ loop[l].at = "top" /\ ~loop[l].cancelled /\ tgConfig # NoEntry
    /\ loop' = [loop EXCEPT ![l].at = "polling", ![l].copy = tgConfig]
    /\ UNCHANGED <<tgConfig, tgEntry, deleting, sent, forgotten, handled, trouble>>

\* The query fails outside the try block: the loop is gone, its entry is not.
LoopCrashes(l) ==
    /\ loop[l].at = "top" /\ ~loop[l].cancelled
    /\ Troubled
    /\ loop' = [loop EXCEPT ![l] = Off]
    /\ UNCHANGED <<tgConfig, tgEntry, deleting, sent, forgotten, handled>>

\* getUpdates from the last handled update on; an empty answer ends the poll.
PollAnswers(l) ==
    /\ loop[l].at = "polling"
    /\ LET last == loop[l].copy.last
           from == IF forgotten > last THEN forgotten ELSE last
           batch == {u \in Updates : from < u /\ u <= sent}
       IN  /\ forgotten' = from
           /\ loop' = IF batch = {}
                      THEN [loop EXCEPT ![l].at = "top", ![l].copy = NoEntry]
                      ELSE [loop EXCEPT ![l].at = "handling", ![l].batch = batch]
    /\ UNCHANGED <<tgConfig, tgEntry, deleting, sent, handled, trouble>>

\* The oldest update of the batch is dispatched, and its reply sent.
HandleUpdate(l) ==
    /\ loop[l].at = "handling"
    /\ \E u \in loop[l].batch :
         /\ \A v \in loop[l].batch : u <= v
         /\ handled' = [handled EXCEPT ![u] = @ + 1]
         /\ loop' = [loop EXCEPT ![l].batch = @ \ {u},
                       ![l].at = IF loop[l].batch = {u} THEN "saving" ELSE "handling",
                       ![l].copy.last = u]
    /\ UNCHANGED <<tgConfig, tgEntry, deleting, sent, forgotten, trouble>>

\* lastUpdateId is written once the whole batch is done, if the row still exists.
SavesOffset(l) ==
    /\ loop[l].at = "saving"
    /\ tgConfig' = IF tgConfig # NoEntry /\ tgConfig.id = loop[l].copy.id
                   THEN [tgConfig EXCEPT !.last = loop[l].copy.last] ELSE tgConfig
    /\ loop' = [loop EXCEPT ![l].at = "top", ![l].copy = NoEntry]
    /\ UNCHANGED <<tgEntry, deleting, sent, forgotten, handled, trouble>>

\* The poll, or the write of the offset, fails: the loop waits and starts over.
PollFails(l) ==
    /\ loop[l].at \in {"polling", "saving"}
    /\ Troubled
    /\ loop' = [loop EXCEPT ![l].at = "top", ![l].copy = NoEntry]
    /\ UNCHANGED <<tgConfig, tgEntry, deleting, sent, forgotten, handled>>

\* The user sends a command to the bot.
UserSends ==
    /\ sent < UpdateBound
    /\ sent' = sent + 1
    /\ UNCHANGED <<tgConfig, tgEntry, loop, deleting, forgotten, handled, trouble>>

\* The process dies and boots: resumeTelegramLoops starts the configured bots.
Restarts(l) ==
    /\ Troubled
    /\ deleting' = FALSE
    /\ tgEntry' = IF tgConfig = NoEntry THEN NoEntry ELSE l
    /\ loop' = [m \in Loops |-> IF m = l /\ tgConfig # NoEntry
                                THEN [Off EXCEPT !.at = "top"] ELSE Off]
    /\ UNCHANGED <<tgConfig, sent, forgotten, handled>>

TgNext ==
    \/ UserSends \/ DeleteStops \/ Destroyed
    \/ \E l \in Loops :
         \/ Configure(l) \/ LoopEnds(l) \/ ReadsConfig(l) \/ LoopCrashes(l)
         \/ PollAnswers(l) \/ HandleUpdate(l) \/ SavesOffset(l) \/ PollFails(l)
         \/ Restarts(l)

TgSpec == TgInit /\ [][TgNext]_tgVars

(***************************************************************************)
(* Properties                                                              *)
(***************************************************************************)

TgRows == [id : Nat, last : Nat]
Running == {l \in Loops : loop[l].at # "off"}

TgTypeOK ==
    /\ tgConfig \in TgRows \union {NoEntry} /\ tgEntry \in Loops \union {NoEntry}
    /\ loop \in [Loops -> [at : {"off", "top", "polling", "handling", "saving"},
                           cancelled : BOOLEAN, copy : TgRows \union {NoEntry},
                           batch : SUBSET Updates]]
    /\ deleting \in BOOLEAN /\ sent \in Nat /\ forgotten \in Nat
    /\ handled \in [Updates -> Nat] /\ trouble \in Nat

\* One bot has one loop: a loop that runs is the one the map names, through
\* deletion, reconfiguration while the old loop is still in its long poll, crashes
\* of a loop and restarts.
OneLoop == \A l \in Running : tgEntry = l

\* A command such as /stop or /forceexit is executed once for the configuration of
\* the bot, and again only if the offset that follows it was lost: to a failure, a
\* restart, or a configuration that starts from the first update again.
ExecutedOnce == \A u \in Updates : handled[u] <= trouble
=============================================================================
