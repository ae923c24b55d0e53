----------------------------- MODULE Simulators -----------------------------
(***************************************************************************)
(* The three bar-by-bar simulators: backtest (backtester.js), backtestCombo *)
(* (comboBacktester.js) and backtestUserStrategy (strategySandbox.js).     *)
(* They keep the same book, and differ in what makes them enter and leave. *)
(* One behaviour is one run; a step is one iteration of its loop.          *)
(*                                                                         *)
(* Money is in thousandths; bars give prices in whole thousands, the cents *)
(* of the code, so that percentages of them stay whole.                    *)
(***************************************************************************)
EXTENDS Integers, Sequences, FiniteSets, Functions

CONSTANTS
    Tape,            \* bars the history may hold
    TapeBound,       \* bound: bars of a run
    Capital, PositionPct, StopPct, TargetPct, SlippagePct, Commission,
    Window,          \* combo: how far from a bar a signal may be
    Leverages,       \* what the leverage hook may answer
    NoPosition

ASSUME SimAssumption ==
    /\ TapeBound \in Nat \ {0} /\ Window \in Nat
    /\ {Capital, PositionPct, StopPct, TargetPct, SlippagePct, Commission} \subseteq Nat
    /\ Leverages \subseteq Nat \ {0}
    /\ \A b \in Tape : b \in [low : Nat \ {0}, high : Nat, close : Nat \ {0}]
    /\ NoPosition \notin [shares : Int, entry : Int, stop : Int, target : Int]

VARIABLES
    engine,          \* "strategy", "combo" or "user"
    confluence,      \* combo: the bars of the buy and of the sell signals
    tick,            \* bars simulated so far
    price,           \* the bar simulated last, for the end of the period
    book             \* cash, position and the trades closed

simVars == <<engine, confluence, tick, price, book>>

(***************************************************************************)
(* The book                                                                *)
(***************************************************************************)

\* Math.round to the cent.
Cents(amount) == 1000 * ((amount + 500) \div 1000)
Pays(p) == (p * (100 + SlippagePct)) \div 100
Gets(p) == (p * (100 - SlippagePct)) \div 100
Shares(cash, entry, leverage) == (cash * PositionPct * leverage) \div (100 * entry)

OpenAt(b, entry, shares) ==
    [b EXCEPT !.cash = @ - (shares * entry + Commission),
              !.position = [shares |-> shares, entry |-> entry,
                            stop |-> Cents((entry * (100 - StopPct)) \div 100),
                            target |-> Cents((entry * (100 + TargetPct)) \div 100)]]

\* Mutant: the commission of the exit is taken from the profit but not from the cash.
CloseUncharged(b, fill) ==
    [cash |-> b.cash + b.position.shares * fill, position |-> NoPosition,
     trades |-> Append(b.trades, (fill - b.position.entry) * b.position.shares - Commission)]

\* The profit counts the commission of the exit; the one of the entry is only in the cash.
CloseAt(b, fill) ==
    [cash |-> b.cash + b.position.shares * fill - Commission, position |-> NoPosition,
     trades |-> Append(b.trades, (fill - b.position.entry) * b.position.shares - Commission)]

(***************************************************************************)
(* Confluence of strategies                                                *)
(***************************************************************************)

\* hasFiredNear, to either side of the bar.
hasFiredNear(signals, i) == \E offset \in -Window .. Window : i + offset \in signals

\* Of a run of bars within two windows of the one kept last, only that one is kept.
Deduped(all) ==
    LET kept[i \in 0 .. TapeBound] ==
            IF i = 0 THEN {}
            ELSE IF i \in all /\ \A k \in kept[i - 1] : i - k > 2 * Window
                 THEN kept[i - 1] \union {i} ELSE kept[i - 1]
    IN  kept[TapeBound]

\* findConfluenceSignals: signals is one set of bars per strategy.
Agreed(signals) == Deduped({i \in 1 .. TapeBound : \A s \in signals : hasFiredNear(s, i)})

(***************************************************************************)
(* One bar                                                                 *)
(***************************************************************************)

Held == book.position # NoPosition
Stopped(bar, stop) == Held /\ bar.low <= stop
Reached(bar, stop) == Held /\ ~Stopped(bar, stop) /\ bar.high >= book.position.target
Stays(bar, stop) == ~Stopped(bar, stop) /\ ~Reached(bar, stop)

Bar(bar) ==
    /\ tick < TapeBound
    /\ tick' = tick + 1
    /\ price' = bar.close
    /\ UNCHANGED <<engine, confluence>>

\* The stop is looked at before the target, and either ends the bar.
HitStop(bar, stop) == Bar(bar) /\ Stopped(bar, stop) /\ book' = CloseAt(book, Gets(stop))
HitTarget(bar, stop) ==
    Bar(bar) /\ Reached(bar, stop) /\ book' = CloseAt(book, Gets(book.position.target))

Bought(b, at, leverage) ==
    LET shares == Shares(b.cash, Pays(at), leverage)
    IN  IF b.position # NoPosition \/ shares <= 0 THEN b ELSE OpenAt(b, Pays(at), shares)
Sold(b, at) == IF b.position = NoPosition THEN b ELSE CloseAt(b, Gets(at))

\* backtest: the signals of the bar in the strategy's order.
Signalled(b, at, signals) ==
    CASE signals = <<>> -> b
      [] signals = <<"buy">> -> Bought(b, at, 1)
      [] signals = <<"sell">> -> Sold(b, at)
      [] signals = <<"buy", "sell">> -> Sold(Bought(b, at, 1), at)
      [] signals = <<"sell", "buy">> -> Bought(Sold(b, at), at, 1)

StrategyBar(bar) ==
    /\ engine = "strategy"
    /\ Held => Stays(bar, book.position.stop)
    /\ Bar(bar)
    /\ \E signals \in {<<>>, <<"buy">>, <<"sell">>, <<"buy", "sell">>, <<"sell", "buy">>} :
            book' = Signalled(book, bar.close, signals)

\* backtestCombo: a buy in a weak trend (the ADX filter) also skips the sell of the bar.
ComboBar(bar) ==
    /\ engine = "combo"
    /\ Held => Stays(bar, book.position.stop)
    /\ Bar(bar)
    /\ LET buys == tick' \in confluence.buys /\ ~Held
           sells(b) == IF tick' \in confluence.sells THEN Sold(b, bar.close) ELSE b
       IN  \/ buys /\ UNCHANGED book
           \/ book' = sells(IF buys THEN Bought(book, bar.close, 1) ELSE book)

(***************************************************************************)
(* A user's hooks: each may be missing, may throw, or may answer.           *)
(***************************************************************************)

\* custom_stoploss moves the stop of the position, before anything is compared with it.
Stops(bar) == IF Held THEN {book.position.stop, Cents(bar.close), Cents(bar.low)} ELSE {0}

\* custom_exit with a reason, or populate_exit_trend confirmed.
UserExit(bar, stop) ==
    /\ engine = "user" /\ Held /\ Stays(bar, stop)
    /\ Bar(bar)
    /\ book' = CloseAt(book, Gets(bar.close))

\* No exit, or one that confirm_trade_exit refused: the position stays, with its new stop.
UserHold(bar, stop) ==
    /\ engine = "user" /\ Held /\ Stays(bar, stop)
    /\ Bar(bar)
    /\ book' = [book EXCEPT !.position.stop = stop]

\* The entry, at the close or at custom_entry_price, or none.
UserFlat(bar) ==
    /\ engine = "user" /\ ~Held
    /\ Bar(bar)
    /\ \/ UNCHANGED book
       \/ \E at \in {bar.close, bar.low}, leverage \in Leverages :
            book' = Bought(book, at, leverage)

(***************************************************************************)
(* A run                                                                   *)
(***************************************************************************)

Maps == [{"one", "other"} -> SUBSET (1 .. TapeBound)]
SmallMaps == {m \in Maps : \A s \in {"one", "other"} : Cardinality(m[s]) <= 1}
Everyone(m) == {m[s] : s \in {"one", "other"}}

SimInit ==
    /\ engine \in {"strategy", "combo", "user"}
    /\ IF engine = "combo"
       THEN confluence \in {[buys |-> Agreed(Everyone(m)), sells |-> Agreed(Everyone(n))] :
                                m \in SmallMaps, n \in SmallMaps}
       ELSE confluence = [buys |-> {}, sells |-> {}]
    /\ tick = 0 /\ price = 0
    /\ book = [cash |-> Capital, position |-> NoPosition, trades |-> <<>>]

\* The loop is over: what is open is closed at the last close.
CloseAtEnd ==
    /\ tick = TapeBound /\ Held
    /\ book' = CloseAt(book, Gets(price))
    /\ UNCHANGED <<engine, confluence, tick, price>>

SimNext ==
    \/ \E bar \in Tape :
        \/ engine # "user" /\ Held /\ \/ HitStop(bar, book.position.stop)
                                      \/ HitTarget(bar, book.position.stop)
        \/ StrategyBar(bar)
        \/ ComboBar(bar)
        \/ engine = "user" /\ \E stop \in Stops(bar) :
                \/ HitStop(bar, stop) \/ HitTarget(bar, stop)
                \/ UserExit(bar, stop) \/ UserHold(bar, stop)
        \/ UserFlat(bar)
    \/ CloseAtEnd

SimSpec == SimInit /\ [][SimNext]_simVars

(***************************************************************************)
(* Properties                                                              *)
(***************************************************************************)

SimTypeOK ==
    /\ engine \in {"strategy", "combo", "user"}
    /\ tick \in 0 .. TapeBound /\ price \in Nat
    /\ book.cash \in Int
    /\ Held => book.position \in [shares : Nat \ {0}, entry : Nat, stop : Int, target : Int]
    /\ \A n \in DOMAIN book.trades : book.trades[n] \in Int

Earned(s) == SumFunction(s)

\* The cash, with the cost of what is held, is the capital plus the profits of the trades
\* less the commission of every entry: whatever path a bar takes out of the position, the
\* shares bought are sold once.
CashConserved ==
    LET entries == Len(book.trades) + (IF Held THEN 1 ELSE 0)
        held == IF Held THEN book.position.shares * book.position.entry ELSE 0
    IN  book.cash + held = Capital + Earned(book.trades) - Commission * entries
=============================================================================
