----------------------------- MODULE EntryGates -----------------------------
(***************************************************************************)
(* What stands between a buy signal and the order of the auto-trader: the   *)
(* position ceiling, the protections (protections.js) and the sizing        *)
(* (positionSizing.js, edge.js and the buy path of tickInner).  A tick goes  *)
(* over the symbols with the positions it read at its start.  A bracket     *)
(* closes a position at the broker at any time, and the sale is recorded    *)
(* when a later tick reconciles (reconcileBracketFills, see TraderBook).    *)
(***************************************************************************)
EXTENDS Integers, Sequences, FiniteSets, SequencesExt

CONSTANTS
    Pairs,           \* the symbols traded
    Profits,         \* profits and losses an exit may realize
    Gates,           \* protections configured: the values the user may save
    Sizings,         \* sizing configurations
    MaxPositions,    \* scfg.maxOpenPositions
    Price, StopDistance,
    LastMinute, ExitBound, UncheckedBound   \* bounds

ASSUME GateAssumption ==
    /\ IsFiniteSet(Pairs) /\ "none" \notin Pairs
    /\ Profits \subseteq Int /\ MaxPositions \in Nat \ {0}
    /\ Price \in Nat \ {0} /\ StopDistance \in 1 .. Price
    /\ {LastMinute, ExitBound, UncheckedBound} \subseteq Nat
    /\ \A g \in Gates : g \in
            [lookback : Nat \ {0}, tradeLimit : Nat, perPair : BOOLEAN, cooldown : Nat,
             drawdownPct : Nat, minTrades : Nat \ {0}, requiredProfit : Int]
    /\ \A z \in Sizings : z \in
            [maxPositionSize : Nat, riskPerTrade : Nat, useKelly : BOOLEAN, kellyPct : Nat,
             kellyTrades : Nat \ {0}, useEdge : BOOLEAN, floorPct : Nat, useCorrelation : BOOLEAN]

VARIABLES
    gates, sizing,   \* the configuration of this trader
    minute,          \* the clock
    holding,         \* symbols with an open position
    closed,          \* positions the broker closed, whose sales are not recorded
    sells,           \* recorded sales, oldest first
    snapshot,        \* the positions the tick in progress read, {"none"} between ticks
    pending,         \* symbols the tick has not looked at
    blind,           \* the tick in progress could not reconcile
    qty,             \* the size of the last entry
    unchecked        \* entries made in a blind tick, or with the protections unreadable

gateVars == <<gates, sizing, minute, holding, closed, sells, snapshot, pending, blind, qty,
              unchecked>>

(***************************************************************************)
(* protections.js                                                          *)
(***************************************************************************)

\* Trades are named by their place among the recorded sales.
Recent(symbols) ==
    {n \in DOMAIN sells : sells[n].symbol \in symbols /\ sells[n].at >= minute - gates.lookback}
Losing(trades) == {n \in trades : sells[n].pnl < 0}
Losses(trades) == Cardinality(Losing(trades))
Profit(trades) == SumFunctionOnSet([n \in DOMAIN sells |-> sells[n].pnl], trades)

\* Mutant: the limit itself is still allowed.
GuardBeyond(s) ==
    /\ gates.tradeLimit >= 1
    /\ Losses(Recent(IF gates.perPair THEN {s} ELSE Pairs)) > gates.tradeLimit

stoplossGuard(s) ==
    /\ gates.tradeLimit >= 1
    /\ Losses(Recent(IF gates.perPair THEN {s} ELSE Pairs)) >= gates.tradeLimit

cooldownPeriod(s) ==
    /\ gates.cooldown >= 1
    /\ \E n \in DOMAIN sells : sells[n].symbol = s /\ minute - sells[n].at < gates.cooldown

\* The fall from the last peak of the profits in the window, against that peak.  The trough
\* starts again at every peak; without a profit at any moment there is no peak to fall from.
maxDrawdown ==
    LET trades == Recent(Pairs)
        moments == {0} \union trades
        curve(n) == Profit({m \in trades : m <= n})
        peak == Max({curve(n) : n \in moments})
        top == Min({n \in moments : curve(n) = peak})
        trough == Min({curve(n) : n \in {m \in moments : m >= top}})
    IN  /\ gates.drawdownPct > 0 /\ Cardinality(trades) >= gates.minTrades
        /\ peak > 0 /\ 100 * (peak - trough) >= gates.drawdownPct * peak

lowProfitPairs(s) ==
    LET trades == Recent({s})
        n == Cardinality(trades)
    IN  n >= gates.minTrades /\ Profit(trades) < gates.requiredProfit * n

Blocked(s) == stoplossGuard(s) \/ cooldownPeriod(s) \/ maxDrawdown \/ lowProfitPairs(s)

(***************************************************************************)
(* Sizing                                                                  *)
(***************************************************************************)

AtLeastOne(n) == IF n < 1 THEN 1 ELSE n
Least(m, n) == IF m < n THEN m ELSE n

\* kellyFractionForUser, in percent, over every sale: 0 stands for null, too few sales or no
\* advantage, and the size then comes from the risk or the notional.
Kelly ==
    LET wins == {n \in DOMAIN sells : sells[n].pnl > 0}
        won == Profit(wins)  lost == -Profit(Losing(DOMAIN sells))
        w == Cardinality(wins)  l == Losses(DOMAIN sells)  all == Len(sells)
        \* W - (1 - W) / R with R the average win over the average loss
        fStar == (100 * w) \div all - (100 * (all - w) * lost * w) \div (all * l * won)
    IN  IF all < sizing.kellyTrades \/ w = 0 \/ l = 0 \/ fStar <= 0 THEN 0
        ELSE (fStar * sizing.kellyPct) \div 100

\* Mutant: the risk per trade is not capped by the notional.
RiskSizedUncapped ==
    IF sizing.riskPerTrade > 0 THEN AtLeastOne(sizing.riskPerTrade \div StopDistance)
    ELSE AtLeastOne(sizing.maxPositionSize \div Price)

RiskSized ==
    IF sizing.riskPerTrade > 0
    THEN Least(AtLeastOne(sizing.riskPerTrade \div StopDistance),
               AtLeastOne(sizing.maxPositionSize \div Price))
    ELSE AtLeastOne(sizing.maxPositionSize \div Price)

BaseQty ==
    IF sizing.useKelly /\ Kelly > 0
    THEN AtLeastOne((sizing.maxPositionSize * Kelly) \div (100 * Price))
    ELSE RiskSized

\* getEdge and edgeMultiplier, in percent: 100 without enough trades, 0 at no expectancy.
Edge(s) ==
    LET trades == Recent({s})
        n == Cardinality(trades)
        wins == {m \in trades : sells[m].pnl > 0}
        won == Profit(wins)  lost == -Profit(Losing(trades))  l == Losses(trades)
        expected == IF l = 0 THEN won ELSE won - ((n - Cardinality(wins)) * lost) \div l
        ratio == IF l = 0 THEN 100 ELSE Least(100, (100 * expected * l) \div (n * lost))
    IN  IF n < gates.minTrades THEN 100
        ELSE IF expected <= 0 THEN 0
        ELSE sizing.floorPct + ((100 - sizing.floorPct) * ratio) \div 100

\* Each scale-down keeps at least one share; a multiplier of zero is no entry.
Scaled(q, percent) == IF percent >= 100 THEN q ELSE AtLeastOne((q * percent) \div 100)

\* correlationMultiplier: 100, 50 or 0 by how closely the symbol follows the positions read.
Correlations(s) ==
    IF sizing.useCorrelation /\ snapshot \ {s} # {} THEN {0, 50, 100} ELSE {100}

(***************************************************************************)
(* The trader                                                              *)
(***************************************************************************)

None == {"none"}

GateInit ==
    /\ gates \in Gates /\ sizing \in Sizings
    /\ minute = 0 /\ holding = {} /\ closed = {} /\ sells = <<>>
    /\ snapshot = None /\ pending = {} /\ blind = FALSE
    /\ qty = 0 /\ unchecked = 0

Sale(t) == [symbol |-> t[1], pnl |-> t[2], at |-> minute]

\* The positions are read, and the sales of those that are gone are recorded, if the
\* broker's orders can be read.
StartTick ==
    /\ snapshot = None
    /\ snapshot' = holding /\ pending' = Pairs
    /\ \/ /\ \E order \in SetToSeqs(closed) :
                sells' = sells \o [n \in DOMAIN order |-> Sale(order[n])]
          /\ closed' = {} /\ blind' = FALSE
       \/ closed # {} /\ blind' = TRUE /\ UNCHANGED <<closed, sells>>
    /\ UNCHANGED <<gates, sizing, minute, holding, qty, unchecked>>

EndChecks ==
    /\ snapshot # None /\ pending = {}
    /\ snapshot' = None /\ blind' = FALSE
    /\ UNCHANGED <<gates, sizing, minute, holding, closed, sells, pending, qty, unchecked>>

\* No signal, or one that a gate refuses.
PassOver(s) ==
    /\ s \in pending
    /\ pending' = pending \ {s}
    /\ UNCHANGED <<gates, sizing, minute, holding, closed, sells, snapshot, blind, qty, unchecked>>

\* A buy signal on a symbol without a position.  When the protections cannot be read the
\* entry is allowed.
Enter(s) ==
    /\ s \in pending /\ s \notin snapshot
    /\ Cardinality(snapshot) < MaxPositions
    /\ \/ ~Blocked(s) /\ ~blind /\ UNCHANGED unchecked
       \/ unchecked < UncheckedBound /\ unchecked' = unchecked + 1
    /\ \E correlation \in Correlations(s) :
        LET edge == IF sizing.useEdge THEN Edge(s) ELSE 100
        IN  /\ edge # 0 /\ correlation # 0
            /\ qty' = Scaled(Scaled(BaseQty, edge), correlation)
    /\ holding' = holding \union {s}
    /\ pending' = pending \ {s}
    /\ UNCHANGED <<gates, sizing, minute, closed, sells, snapshot, blind>>

Closures == Len(sells) + Cardinality(closed)

\* The stop or the target of a bracket fills at the broker.
BracketFill(s, pnl) ==
    /\ s \in holding /\ Closures < ExitBound
    /\ holding' = holding \ {s}
    /\ closed' = closed \union {<<s, pnl>>}
    /\ UNCHANGED <<gates, sizing, minute, sells, snapshot, pending, blind, qty, unchecked>>

\* A sell signal of the tick on a position it read: the sale is recorded at once.
SellSignal(s, pnl) ==
    /\ s \in pending /\ s \in snapshot /\ s \in holding /\ Closures < ExitBound
    /\ holding' = holding \ {s}
    /\ sells' = Append(sells, Sale(<<s, pnl>>))
    /\ pending' = pending \ {s}
    /\ UNCHANGED <<gates, sizing, minute, closed, snapshot, blind, qty, unchecked>>

Minutes ==
    /\ minute < LastMinute
    /\ minute' = minute + 1
    /\ UNCHANGED <<gates, sizing, holding, closed, sells, snapshot, pending, blind, qty, unchecked>>

GateNext ==
    \/ StartTick \/ EndChecks \/ Minutes
    \/ \E s \in Pairs :
        \/ PassOver(s) \/ Enter(s)
        \/ \E pnl \in Profits : BracketFill(s, pnl) \/ SellSignal(s, pnl)

GateSpec == GateInit /\ [][GateNext]_gateVars

(***************************************************************************)
(* Properties                                                              *)
(***************************************************************************)

\* What a position may be worth at most: no other sizing exceeds the configured notional,
\* unless more than the whole of Kelly's fraction is configured.
SizeCap ==
    LET percent == IF sizing.useKelly /\ sizing.kellyPct > 100 THEN sizing.kellyPct ELSE 100
    IN  AtLeastOne((sizing.maxPositionSize * percent) \div (100 * Price))

GateTypeOK ==
    /\ minute \in 0 .. LastMinute /\ unchecked \in 0 .. UncheckedBound
    /\ qty \in 0 .. SizeCap
    /\ holding \subseteq Pairs /\ pending \subseteq Pairs
    /\ snapshot = None \/ snapshot \subseteq Pairs
    /\ \A n \in DOMAIN sells : sells[n] \in [symbol : Pairs, pnl : Profits, at : 0 .. LastMinute]

\* Within any lookback of the stop-loss guard no more losing exits happen than its limit,
\* and one for each further position that could be open when the limit was reached: the
\* symbols a tick may enter on one snapshot.  Entries made blind come on top.
LossesBounded ==
    (gates.tradeLimit >= 1 /\ ~gates.perPair) =>
        \A n \in DOMAIN sells :
            Cardinality({m \in 1 .. n : sells[m].pnl < 0 /\ sells[m].at >= sells[n].at - gates.lookback})
                <= gates.tradeLimit + Cardinality(Pairs) - 1 + unchecked
=============================================================================
