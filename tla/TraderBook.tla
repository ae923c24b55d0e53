----------------------------- MODULE TraderBook -----------------------------
(***************************************************************************)
(* The book of one user's auto-trader (server/services/autoTrader.js): the *)
(* orders a tick sends, the AutoTraderTrades rows it journals, and the     *)
(* counters of the state row (dailyPnl, consecutiveLosses) the kill switch *)
(* reads, against what fills at the broker between the steps of a tick.    *)
(*                                                                         *)
(* A unit is what one buy buys; profits are -1 or 1.  The log keeps the    *)
(* journal's rows and the broker's sell fills in the order of their times, *)
(* so that createdAt and filled_at are positions in it.  Timers, starts    *)
(* and stops are in TraderLifecycle, the sending of an order in            *)
(* OrderLedger: here an order is placed, refused, or placed with its       *)
(* answer lost, and an order with a row in the ledger is only replayed.    *)
(***************************************************************************)
EXTENDS Integers, Sequences, FiniteSets, SequencesExt

CONSTANTS
    Assets,          \* state.symbols
    LastBar,         \* bound: the last bar
    MaxOpen,         \* maxOpenPositions
    DailyLossLimit, MaxLosses,   \* dailyLossLimit, maxConsecutiveLosses
    LogBound,        \* bound: entries of the log
    CountBound,      \* bound: how often an exit is counted
    MisfortuneBound  \* bound: restarts of the trader and of the process, lost writes, answers and reads

ASSUME BookAssumption ==
    /\ LastBar \in Nat \ {0} /\ MaxOpen \in Nat /\ LogBound \in Nat /\ CountBound \in Nat /\ MisfortuneBound \in Nat
    /\ DailyLossLimit \in Nat \ {0} /\ MaxLosses \in Nat \ {0}

VARIABLES
    bracketed,   \* useBracketOrders
    signal,      \* what the strategy says at each bar of each asset
    bar,         \* the last bar
    on,          \* the row's running column
    dailyPnl, consecutiveLosses,   \* the row's counters
    working,     \* the broker's orders that are not filled yet
    filled,      \* those that are
    sent,        \* all it was sent; of the trader's own orders, also the ledger's rows
    unsent,      \* the ledger's rows of orders that the broker was never sent
    held,        \* units of each asset held at the broker
    log,         \* journal rows and sell fills
    turn,        \* the tick under way
    counts,      \* history: how often each exit was added to dailyPnl
    added,       \* history: what was added to dailyPnl since the last start
    early,       \* history: a tick began, or the trader started, with orders under way
    disturbed,   \* history: the journal and the broker's orders came apart
    misfortunes  \* restarts, lost writes, answers and reads so far

brokerSide == <<working, filled, sent, unsent, held>>
bookVars == <<bracketed, signal, bar, on, dailyPnl, consecutiveLosses, brokerSide,
              log, turn, counts, added, early, disturbed, misfortunes>>

Acts == {"buy", "sell", "none"}
Order(a, b, side) == [asset |-> a, bar |-> b, side |-> side]
OrderIds == [asset : Assets, bar : 0 .. LastBar, side : {"buy", "sell", "exit", "trail", "close"}]

NoTurn == [at |-> "idle", pnl |-> 0, losses |-> 0, seen |-> {}, todo |-> {}, exits |-> {},
           pending |-> {}]

BookInit ==
    /\ bracketed \in BOOLEAN
    /\ signal \in [Assets -> [1 .. LastBar -> Acts]]
    /\ bar = 1 /\ on = TRUE /\ dailyPnl = 0 /\ consecutiveLosses = 0
    /\ working = {} /\ filled = {} /\ sent = {} /\ unsent = {} /\ held = [a \in Assets |-> 0]
    /\ log = <<>> /\ turn = NoTurn
    /\ counts = [o \in OrderIds |-> 0] /\ added = 0
    /\ early = FALSE /\ disturbed = FALSE /\ misfortunes = 0

(***************************************************************************)
(* The broker                                                              *)
(***************************************************************************)

\* A buy fills; with a bracket its stop and target then work, as one exit.
FillBuy(o) ==
    /\ o \in working /\ o.side = "buy"
    /\ held' = [held EXCEPT ![o.asset] = @ + 1]
    /\ filled' = filled \union {o}
    /\ LET legs == IF bracketed THEN {[o EXCEPT !.side = "exit"]} ELSE {}
       IN  working' = (working \ {o}) \union legs /\ sent' = sent \union legs
    /\ UNCHANGED <<bracketed, signal, bar, on, dailyPnl, consecutiveLosses, unsent, log, turn,
                   counts, added, early, disturbed, misfortunes>>

\* A sell fills against units held.  The other sells of an asset die with its last unit.
FillSell(o, profit) ==
    /\ o \in working /\ o.side # "buy" /\ held[o.asset] > 0 /\ Len(log) < LogBound
    /\ held' = [held EXCEPT ![o.asset] = @ - 1]
    /\ filled' = filled \union {o}
    /\ working' = {w \in working \ {o} :
                     w.asset = o.asset /\ held[o.asset] = 1 => w.side = "buy"}
    /\ log' = Append(log, [kind |-> "fill", order |-> o, pnl |-> profit])
    /\ UNCHANGED <<bracketed, signal, bar, on, dailyPnl, consecutiveLosses, sent, unsent, turn,
                   counts, added, early, disturbed, misfortunes>>

NewBar ==
    /\ bar < LastBar
    /\ bar' = bar + 1
    /\ UNCHANGED <<bracketed, signal, on, dailyPnl, consecutiveLosses, brokerSide, log, turn,
                   counts, added, early, disturbed, misfortunes>>

(***************************************************************************)
(* A tick                                                                  *)
(***************************************************************************)

\* tickInner up to the broker's clock: the row is read and its counters judged by
\* killSwitchTriggered.
BeginTick ==
    /\ turn.at = "idle" /\ on
    /\ LET killed == dailyPnl <= -DailyLossLimit \/ consecutiveLosses >= MaxLosses
       IN  /\ on' = ~killed
           /\ turn' = IF killed THEN NoTurn
                      ELSE [NoTurn EXCEPT !.at = "looking", !.pnl = dailyPnl, !.losses = consecutiveLosses]
    /\ early' = (early \/ \E o \in working : o.side \in {"buy", "sell", "close"})
    /\ UNCHANGED <<bracketed, signal, bar, dailyPnl, consecutiveLosses, brokerSide, log,
                   counts, added, disturbed, misfortunes>>

\* The positions are fetched.
FetchPositions ==
    /\ turn.at = "looking"
    /\ turn' = [turn EXCEPT !.at = IF bracketed THEN "reconciling" ELSE "trading",
                            !.seen = {a \in Assets : held[a] > 0}, !.todo = Assets]
    /\ UNCHANGED <<bracketed, signal, bar, on, dailyPnl, consecutiveLosses, brokerSide, log,
                   counts, added, early, disturbed, misfortunes>>

\* The clock, the positions or the account are not to be had, or the exposure is too high:
\* fireKillSwitch.
FireKillSwitch ==
    /\ turn.at = "looking"
    /\ on' = FALSE /\ turn' = NoTurn
    /\ UNCHANGED <<bracketed, signal, bar, dailyPnl, consecutiveLosses, brokerSide, log,
                   counts, added, early, disturbed, misfortunes>>

Rows(kind, a) == {i \in DOMAIN log : log[i].kind = kind /\ log[i].order.asset = a}
Latest(rows) == IF rows = {} THEN 0 ELSE Max(rows)

Mishap(happens) ==
    /\ happens => misfortunes < MisfortuneBound
    /\ misfortunes' = IF happens THEN misfortunes + 1 ELSE misfortunes

\* reconcileBracketFills: a journalled buy is open if its asset has no position and no
\* later sell in the journal.  It is matched with the fill of the asset that the closed
\* orders list first: the newest one, if it came after the last sell journalled.  A read of
\* the sells that fails reads as no sells.
Reconcile(read) ==
    /\ turn.at = "reconciling"
    /\ Mishap(~read) /\ disturbed' = (disturbed \/ ~read)
    /\ LET lastSell(a) == IF read THEN Latest(Rows("sell", a)) ELSE 0
           fill(a) == Latest({i \in Rows("fill", a) : i > lastSell(a)})
           open == UNION {{i \in Rows("buy", a) : i > lastSell(a)} :
                            a \in {b \in Assets \ turn.seen : fill(b) > 0}}
       IN  turn' = [turn EXCEPT !.at = "trading",
                      !.exits = {[row |-> i, fill |-> log[fill(log[i].order.asset)]] : i \in open}]
    /\ UNCHANGED <<bracketed, signal, bar, on, dailyPnl, consecutiveLosses, brokerSide, log,
                   counts, added, early>>

\* The read of the buys or the list of the closed orders fails, and nothing is matched.
ReconcileFails ==
    /\ turn.at = "reconciling"
    /\ Mishap(TRUE) /\ disturbed' = TRUE
    /\ turn' = [turn EXCEPT !.at = "trading"]
    /\ UNCHANGED <<bracketed, signal, bar, on, dailyPnl, consecutiveLosses, brokerSide, log,
                   counts, added, early>>

\* AutoTraderTrade.create: the order id is unique, and any failure of the write is
\* swallowed.
Journal(kind, o, profit, lost) ==
    LET known == \E i \in DOMAIN log : log[i].kind \in {"buy", "sell"} /\ log[i].order = o
    IN  /\ lost => ~known
        /\ Mishap(lost) /\ disturbed' = (disturbed \/ lost)
        /\ IF known \/ lost THEN log' = log
           ELSE /\ Len(log) < LogBound
                /\ log' = Append(log, [kind |-> kind, order |-> o, pnl |-> profit])

\* An exit is journalled: those matched by the age of their buys, the newest first.
JournalExit(lost) ==
    /\ turn.at = "trading" /\ turn.pending = {}
    /\ \E x \in turn.exits :
         /\ \A y \in turn.exits : y.row <= x.row
         /\ Journal("sell", x.fill.order, x.fill.pnl, lost)
         /\ turn' = [turn EXCEPT !.exits = @ \ {x}, !.pending = {[x.fill EXCEPT !.kind = "sell"]}]
    /\ UNCHANGED <<bracketed, signal, bar, on, dailyPnl, consecutiveLosses, brokerSide,
                   counts, added, early>>

\* Mutant: the counters of the beginning of the tick are used throughout.
CountFromStart(profit) ==
    /\ dailyPnl' = turn.pnl + profit
    /\ consecutiveLosses' = IF profit < 0 THEN turn.losses + 1 ELSE 0
    /\ turn' = [turn EXCEPT !.pending = {}]

\* state.update with the counters of the tick's copy, which follows the update.
Count(profit) ==
    /\ dailyPnl' = turn.pnl + profit
    /\ consecutiveLosses' = IF profit < 0 THEN turn.losses + 1 ELSE 0
    /\ turn' = [turn EXCEPT !.pending = {}, !.pnl = dailyPnl', !.losses = consecutiveLosses']

\* The exit just journalled, reconciled or sold, is added to the counters.
CountExit ==
    /\ turn.at = "trading"
    /\ \E x \in turn.pending :
         /\ x.kind = "sell" /\ counts[x.order] < CountBound
         /\ Count(x.pnl)
         /\ counts' = [counts EXCEPT ![x.order] = @ + 1]
         /\ added' = added + x.pnl
    /\ UNCHANGED <<bracketed, signal, bar, on, brokerSide, log, early, disturbed, misfortunes>>

\* Nothing is left to journal or count, so that the tick goes on.
Ready == turn.at = "trading" /\ turn.exits = {} /\ turn.pending = {}

\* flattenAll near the close: the open orders are cancelled, if that does not fail.
BeginFlatten(cancelled) ==
    /\ Ready /\ turn.todo = Assets /\ turn.seen # {}
    /\ working' = IF cancelled THEN {} ELSE working
    /\ turn' = [turn EXCEPT !.at = "closing"]
    /\ UNCHANGED <<bracketed, signal, bar, on, dailyPnl, consecutiveLosses, filled, sent, unsent,
                   held, log, counts, added, early, disturbed, misfortunes>>

\* The tick ends with the last of the positions it saw.
Closed(a) ==
    turn' = IF turn.seen = {a} THEN NoTurn ELSE [turn EXCEPT !.seen = @ \ {a}]

\* Each position is closed and journalled; the counters are left alone.  (Bound: an asset is
\* closed once per bar.)
Flatten(a, profit, lost) ==
    /\ turn.at = "closing" /\ a \in turn.seen /\ held[a] > 0
    /\ LET o == Order(a, bar, "close")
       IN  /\ o \notin sent
           /\ working' = working \union {o} /\ sent' = sent \union {o}
           /\ Journal("sell", o, profit, lost)
    /\ Closed(a)
    /\ UNCHANGED <<bracketed, signal, bar, on, dailyPnl, consecutiveLosses, filled, unsent, held,
                   counts, added, early>>

FlattenFails(a) ==
    /\ turn.at = "closing" /\ a \in turn.seen
    /\ Closed(a)
    /\ UNCHANGED <<bracketed, signal, bar, on, dailyPnl, consecutiveLosses, brokerSide, log,
                   counts, added, early, disturbed, misfortunes>>

\* executeGovernedOrder: a new order gets a row in the ledger and is placed, or refused,
\* or its answer is lost after the broker took it.  An order that has a row is answered with
\* the row, whatever became of the order.
Submit(o, outcome) ==
    \/ /\ o \in sent \union unsent /\ outcome = "placed"
       /\ disturbed' = (disturbed \/ o \in unsent)
       /\ UNCHANGED <<working, sent, unsent, misfortunes>>
    \/ /\ o \notin sent \union unsent
       /\ IF outcome = "refused"
          THEN unsent' = unsent \union {o} /\ UNCHANGED <<working, sent>>
          ELSE working' = working \union {o} /\ sent' = sent \union {o} /\ UNCHANGED unsent
       /\ Mishap(outcome = "lost")
       /\ disturbed' = (disturbed \/ (outcome = "lost" /\ o.side = "buy"))

\* reconcileTrailingStops: a stop for a position that has none.  Its order id is of the
\* day, so that the second stop of a day is a replay of the first.
PlaceTrailingStop(a, outcome) ==
    /\ Ready /\ turn.todo = Assets /\ a \in turn.seen
    /\ Order(a, 0, "trail") \notin sent \union unsent
    /\ Submit(Order(a, 0, "trail"), outcome)
    /\ UNCHANGED <<bracketed, signal, bar, on, dailyPnl, consecutiveLosses, filled, held, log,
                   turn, counts, added, early>>

\* The signal a tick acts on: that of the last bar, or else of the bar before it.
SignalBar(a) ==
    IF signal[a][bar] # "none" THEN bar
    ELSE IF bar > 1 /\ signal[a][bar - 1] # "none" THEN bar - 1 ELSE 0

\* Mutant: the id of an order is of the bar that is last when it is sent.
OrderIdOfTick(a, side) == Order(a, bar, side)

\* clientOrderId: of the asset, the signal's bar and the side.
ClientOrderId(a, side) == Order(a, SignalBar(a), side)

\* The buy branch of the loop over the symbols; the positions are those of the snapshot.
Buy(a, outcome) ==
    /\ Ready /\ a \in turn.todo
    /\ SignalBar(a) > 0 /\ signal[a][SignalBar(a)] = "buy"
    /\ a \notin turn.seen /\ Cardinality(turn.seen) < MaxOpen
    /\ Submit(ClientOrderId(a, "buy"), outcome)
    /\ turn' = [turn EXCEPT !.todo = @ \ {a}, !.pending =
                  IF outcome # "placed" THEN {}
                  ELSE {[kind |-> "buy", order |-> ClientOrderId(a, "buy"), pnl |-> 0]}]
    /\ UNCHANGED <<bracketed, signal, bar, on, dailyPnl, consecutiveLosses, filled, held, log,
                   counts, added, early>>

JournalBuy(lost) ==
    /\ turn.at = "trading"
    /\ \E x \in turn.pending : x.kind = "buy" /\ Journal("buy", x.order, 0, lost)
    /\ turn' = [turn EXCEPT !.pending = {}]
    /\ UNCHANGED <<bracketed, signal, bar, on, dailyPnl, consecutiveLosses, brokerSide,
                   counts, added, early>>

\* The sell branch; the profit is the position's unrealized one.
Sell(a, profit, outcome) ==
    /\ Ready /\ a \in turn.todo
    /\ SignalBar(a) > 0 /\ signal[a][SignalBar(a)] = "sell" /\ a \in turn.seen
    /\ Submit(ClientOrderId(a, "sell"), outcome)
    /\ turn' = [turn EXCEPT !.todo = @ \ {a}, !.exits =
                  IF outcome # "placed" THEN {}
                  ELSE {[row |-> 0, fill |-> [kind |-> "fill", order |-> ClientOrderId(a, "sell"),
                                              pnl |-> profit]]}]
    /\ UNCHANGED <<bracketed, signal, bar, on, dailyPnl, consecutiveLosses, filled, held, log,
                   counts, added, early>>

\* No signal to act on, one against the position, or an entry a gate holds back
\* (blackout days, schedule, daily cap, protections, sizing).
Skip(a) ==
    /\ Ready /\ a \in turn.todo
    /\ turn' = [turn EXCEPT !.todo = @ \ {a}]
    /\ UNCHANGED <<bracketed, signal, bar, on, dailyPnl, consecutiveLosses, brokerSide, log,
                   counts, added, early, disturbed, misfortunes>>

EndTick ==
    /\ Ready /\ turn.todo = {}
    /\ turn' = NoTurn
    /\ UNCHANGED <<bracketed, signal, bar, on, dailyPnl, consecutiveLosses, brokerSide, log,
                   counts, added, early, disturbed, misfortunes>>

\* startAutoTrader writes the row anew, whether a tick is under way or not.
StartAnew ==
    /\ misfortunes < MisfortuneBound
    /\ misfortunes' = misfortunes + 1
    /\ on' = TRUE /\ dailyPnl' = 0 /\ consecutiveLosses' = 0
    /\ added' = 0
    /\ early' = (early \/ turn.at # "idle")
    /\ UNCHANGED <<bracketed, signal, bar, brokerSide, log, turn, counts, disturbed>>

\* The process dies; the next boot resumes a trader that is on.  A buy just sent is not
\* journalled then.
Die ==
    /\ misfortunes < MisfortuneBound /\ turn.at # "idle"
    /\ misfortunes' = misfortunes + 1
    /\ disturbed' = (disturbed \/ \E x \in turn.pending : x.kind = "buy")
    /\ turn' = NoTurn
    /\ UNCHANGED <<bracketed, signal, bar, on, dailyPnl, consecutiveLosses, brokerSide, log,
                   counts, added, early>>

BookNext ==
    \/ \E o \in working : FillBuy(o) \/ \E profit \in {-1, 1} : FillSell(o, profit)
    \/ NewBar \/ BeginTick \/ FetchPositions \/ FireKillSwitch \/ ReconcileFails
    \/ CountExit \/ EndTick \/ StartAnew \/ Die
    \/ \E b \in BOOLEAN : Reconcile(b) \/ JournalExit(b) \/ JournalBuy(b) \/ BeginFlatten(b)
    \/ \E a \in Assets :
         \/ Skip(a) \/ FlattenFails(a)
         \/ \E profit \in {-1, 1}, lost \in BOOLEAN : Flatten(a, profit, lost)
         \/ \E outcome \in {"placed", "refused", "lost"} :
              \/ PlaceTrailingStop(a, outcome) \/ Buy(a, outcome)
              \/ \E profit \in {-1, 1} : Sell(a, profit, outcome)

BookSpec == BookInit /\ [][BookNext]_bookVars

(***************************************************************************)
(* Properties                                                              *)
(***************************************************************************)

Entries == [kind : {"buy", "sell", "fill"}, order : OrderIds, pnl : {-1, 0, 1}]

Exits == [row : Nat, fill : Entries]
Turns ==
    [at : {"idle", "looking", "reconciling", "trading", "closing"}, pnl : Int, losses : Nat,
     seen : SUBSET Assets, todo : SUBSET Assets, exits : SUBSET Exits, pending : SUBSET Entries]

BookTypeOK ==
    /\ bracketed \in BOOLEAN /\ on \in BOOLEAN /\ early \in BOOLEAN /\ disturbed \in BOOLEAN
    /\ bar \in 1 .. LastBar /\ misfortunes \in 0 .. MisfortuneBound
    /\ dailyPnl \in Int /\ consecutiveLosses \in Nat /\ added \in Int
    /\ working \subseteq sent /\ filled \subseteq sent /\ sent \union unsent \subseteq OrderIds
    /\ held \in [Assets -> Nat] /\ counts \in [OrderIds -> Nat]
    /\ log \in Seq(Entries) /\ turn \in Turns

\* A signal is bought at most once: however many ticks see it, and whatever dies between
\* the order and its journal row, the broker is sent one buy per asset and bar it was given
\* at.
OneBuyPerSignal ==
    \A a \in Assets :
        Cardinality({o \in sent : o.asset = a /\ o.side = "buy"})
            <= Cardinality({b \in 1 .. LastBar : signal[a][b] = "buy"})

\* The row's dailyPnl is what was added to it since the last start, unless the trader was
\* started over a tick under way.
CountersAgree == ~early => dailyPnl = added

\* An exit moves the counters once, although a tick reads the journal and the broker's
\* fills without remembering what it counted.  This needs every market order to fill before
\* the next tick, a row in the journal for every buy the broker was sent and for no other,
\* every sell journalled, and every read of a reconciliation to succeed.
ExitCountedOnce == ~early /\ ~disturbed => \A o \in OrderIds : counts[o] <= 1
=============================================================================
