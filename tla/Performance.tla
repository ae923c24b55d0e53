---------------------------- MODULE Performance ----------------------------
(***************************************************************************)
(* The figures of the performance page (server/routes/performance.js): the *)
(* closed trades of the user's own journal and of the auto-trader, put in  *)
(* the order of their time, and what is added up over them.                *)
(***************************************************************************)
EXTENDS Integers, Sequences, FiniteSets, FiniteSetsExt

CONSTANTS
    ClosedTrades,   \* rows of the two tables: [source, symbol, pnl, when]
    TradeBound,     \* bound: closed trades of the user
    Unbooked        \* no profit or loss in the row: an entry

ASSUME PerformanceAssumption ==
    /\ TradeBound \in Nat
    /\ \A t \in ClosedTrades : t.source \in {"journal", "auto"} /\ t.when \in Nat /\ t.pnl \in Int \union {Unbooked}

VARIABLES rows      \* TradeJournal and AutoTraderTrade, in the order of their inserts

perfVars == <<rows>>

PerfInit == rows = <<>>

\* A trade is logged, at whatever time it was made.
Log(t) ==
    /\ Len(rows) < TradeBound
    /\ rows' = Append(rows, t)

PerfNext == \E t \in ClosedTrades : Log(t)
PerfSpec == PerfInit /\ [][PerfNext]_perfVars

-----------------------------------------------------------------------------

\* The journal's rows with a result; the auto-trader's whose result is not zero.
IsClosed(t) == t.pnl # Unbooked /\ (t.source = "auto" => t.pnl # 0)

\* The journal's rows before the auto-trader's, then a stable sort by time.
Closed == {i \in DOMAIN rows : IsClosed(rows[i])}
Collected(i, j) ==
    IF rows[i].source = rows[j].source THEN i < j ELSE rows[i].source = "journal"
Earlier(i, j) ==
    rows[i].when < rows[j].when \/ (rows[i].when = rows[j].when /\ Collected(i, j))
PlaceInTime(i) == 1 + Cardinality({j \in Closed : Earlier(j, i)})
CollectClosedTrades ==
    [k \in 1 .. Cardinality(Closed) |-> rows[CHOOSE i \in Closed : PlaceInTime(i) = k]]

\* Mutant: the curve's peak is taken after the drop was measured.
PeakLate(walk, pnl) ==
    LET curve == walk.curve + pnl IN
    [curve |-> curve, peak |-> curve, drop |-> Max({walk.drop, walk.peak - curve})]

\* One trade on the curve of the results: the peak, and the deepest drop from it.
Passed(walk, pnl) ==
    LET curve == walk.curve + pnl
        peak  == Max({walk.peak, curve})
    IN  [curve |-> curve, peak |-> peak, drop |-> Max({walk.drop, peak - curve})]

Walk(trades) ==
    LET walk[n \in 0 .. Len(trades)] ==
            IF n = 0 THEN [curve |-> 0, peak |-> 0, drop |-> 0]
            ELSE Passed(walk[n - 1], trades[n].pnl)
    IN  walk

Wins(trades, at) == {i \in at : trades[i].pnl > 0}

\* computeStats: how many trades won and lost, and the deepest drop.
ComputeStats(trades) ==
    [trades      |-> Len(trades),
     wins        |-> Cardinality(Wins(trades, DOMAIN trades)),
     losses      |-> Cardinality({i \in DOMAIN trades : trades[i].pnl < 0}),
     maxDrawdown |-> Walk(trades)[Len(trades)].drop]

\* The result of some of the trades.
SumPnl(trades, at) == SumFunctionOnSet([i \in DOMAIN trades |-> trades[i].pnl], at)

\* perSymbol: the count, result and wins of every symbol traded.
PerSymbol(trades) ==
    [s \in {trades[i].symbol : i \in DOMAIN trades} |->
       LET own == {i \in DOMAIN trades : trades[i].symbol = s} IN
       [trades |-> Cardinality(own), pnl |-> SumPnl(trades, own),
        wins |-> Cardinality(Wins(trades, own))]]

\* The result since the start of a week, a month or a year.
SumSince(trades, start) == SumPnl(trades, {i \in DOMAIN trades : trades[i].when >= start})

-----------------------------------------------------------------------------

PerfTypeOK == rows \in Seq(ClosedTrades) /\ Len(rows) <= TradeBound

\* The deepest drop is the largest fall of the total between any two moments,
\* the start included; the symbols' rows add up to the whole; and a longer
\* period's result is a shorter one's and that of the time between, however
\* late the trades of either table were logged (computeStats, perSymbol and the
\* summary route).
StatsAddUp ==
    LET trades == CollectClosedTrades
        stats  == ComputeStats(trades)
        total(n) == SumPnl(trades, 1 .. n)
        whole == SumPnl(trades, DOMAIN trades)
        bySymbol == PerSymbol(trades)
    IN  /\ stats.maxDrawdown =
             Max(UNION {{total(i) - total(j) : i \in 0 .. j} : j \in 0 .. Len(trades)})
        /\ SumFunction([s \in DOMAIN bySymbol |-> bySymbol[s].pnl]) = whole
        /\ SumFunction([s \in DOMAIN bySymbol |-> bySymbol[s].wins]) = stats.wins
        /\ SumFunction([s \in DOMAIN bySymbol |-> bySymbol[s].trades]) = stats.trades
        /\ \A t \in ClosedTrades :
             whole = SumSince(trades, t.when)
               + SumPnl(trades, {i \in DOMAIN trades : trades[i].when < t.when})
=============================================================================
