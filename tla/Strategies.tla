----------------------------- MODULE Strategies -----------------------------
(***************************************************************************)
(* The indicators (server/services/indicators.js) and the strategies       *)
(* (strategyEngine.js, intradayStrategies.js), as functions of the bars,   *)
(* and a feed that appends bars and remembers what each strategy said of   *)
(* the bar that was last then: what the auto-trader acted on.              *)
(*                                                                         *)
(* A strategy is an operator of all bars and an index; the code's index i  *)
(* is i + 1 here.  Prices are whole numbers, averages are in hundredths.   *)
(* The periods of the code go through P, which an instance makes short.    *)
(***************************************************************************)
EXTENDS Integers, Sequences, FiniteSets, FiniteSetsExt, Functions

CONSTANTS
    P(_),            \* bars the instance takes for a period of the code
    Shapes,          \* the bars the feed may append
    FeedBound        \* bound: bars of the feed

ASSUME FeedAssumption ==
    /\ FeedBound \in Nat
    /\ \A n \in 1 .. 40 \union {50, 200} : P(n) \in Nat \ {0}
    /\ \A m, n \in 1 .. 40 : m <= n => P(m) <= P(n)
    /\ \A b \in Shapes : b \in [open : Nat, high : Nat, low : Nat, close : Nat, volume : Nat,
                                opens : BOOLEAN]

VARIABLES
    bars,            \* the bars so far
    said             \* history: each strategy's signals, as given when their bar was last

feedVars == <<bars, said>>

SumOver(f(_), from, to) == SumFunctionOnSet([j \in from .. to |-> f(j)], from .. to)
Highest(f(_), from, to) == Max({f(j) : j \in from .. to})
Lowest(f(_), from, to) == Min({f(j) : j \in from .. to})
Distance(x, y) == IF x > y THEN x - y ELSE y - x

\* Of the bars of a window: the extremes of their prices, and what they close at and trade.
HighestHigh(b, from, to) == Highest(LAMBDA j : b[j].high, from, to)
LowestHigh(b, from, to) == Lowest(LAMBDA j : b[j].high, from, to)
LowestLow(b, from, to) == Lowest(LAMBDA j : b[j].low, from, to)
HighestClose(b, from, to) == Highest(LAMBDA j : b[j].close, from, to)
LowestClose(b, from, to) == Lowest(LAMBDA j : b[j].close, from, to)
SumOfCloses(b, from, to) == SumOver(LAMBDA j : b[j].close, from, to)
VolumeOver(b, from, to) == SumOver(LAMBDA j : b[j].volume, from, to)

(***************************************************************************)
(* Indicators: functions whose domain is the bars they are not null at.    *)
(***************************************************************************)

Closes(b) == [i \in DOMAIN b |-> 100 * b[i].close]

SMA(s, p) ==
    LET value(j) == s[j]
    IN  [i \in p .. Len(s) |-> SumOver(value, i - p + 1, i) \div p]

\* Seeded with the mean of the first p values.
EMA(s, p) ==
    LET value(j) == s[j]
        ema[i \in p .. Len(s)] ==
            IF i = p THEN SumOver(value, 1, p) \div p
            ELSE (2 * s[i] + (p - 1) * ema[i - 1]) \div (p + 1)
    IN  ema

Gains(s) == [i \in 2 .. Len(s) |-> IF s[i] > s[i - 1] THEN s[i] - s[i - 1] ELSE 0]
Losses(s) == [i \in 2 .. Len(s) |-> IF s[i] < s[i - 1] THEN s[i - 1] - s[i] ELSE 0]

\* Wilder's average of the changes that lead to the values 2 to n.
Wilder(change, n, p) ==
    LET value(j) == change[j]
        avg[i \in p + 1 .. n] ==
            IF i = p + 1 THEN SumOver(value, 2, p + 1) \div p
            ELSE (avg[i - 1] * (p - 1) + change[i]) \div p
    IN  avg

\* Without losses 100, without changes 50.
RSI(s, p) ==
    LET up == Wilder(Gains(s), Len(s), p)
        down == Wilder(Losses(s), Len(s), p)
    IN  [i \in p + 1 .. Len(s) |->
            IF down[i] = 0 THEN IF up[i] = 0 THEN 50 ELSE 100
            ELSE 100 - (100 * down[i]) \div (up[i] + down[i])]

\* The line and its signal, the EMA of the line's values.
MACD(s) ==
    LET fast == EMA(s, P(12))
        slow == EMA(s, P(26))
        first == P(26)
        values == [n \in 1 .. Len(s) - first + 1 |-> fast[n + first - 1] - slow[n + first - 1]]
        avg == EMA(values, P(9))
    IN  [line |-> [i \in first .. Len(s) |-> values[i - first + 1]],
         signal |-> [i \in first + P(9) - 1 .. Len(s) |-> avg[i - first + 1]]]

\* The band around the mean: c is beyond k standard deviations, compared in squares.
BandSquare(b, p, i) ==
    LET sum == SumOfCloses(b, i - p + 1, i)
        square(j) == (p * b[j].close - sum) * (p * b[j].close - sum)
    IN  SumOver(square, i - p + 1, i)

AtOrBelowLower(b, c, i) ==
    LET p == P(20)
        below == SumOfCloses(b, i - p + 1, i) - p * c
    IN  below >= 0 /\ below * below * p >= 4 * BandSquare(b, p, i)

AtOrAboveUpper(b, c, i) ==
    LET p == P(20)
        above == p * c - SumOfCloses(b, i - p + 1, i)
    IN  above >= 0 /\ above * above * p >= 4 * BandSquare(b, p, i)

\* The bandwidth, four deviations over the mean, is under 4%.
Squeezed(b, i) ==
    LET p == P(20)
        sum == SumOfCloses(b, i - p + 1, i)
    IN  10000 * BandSquare(b, p, i) < p * sum * sum

Stochastic(b) ==
    LET p == P(14)
        k == [i \in p .. Len(b) |->
                LET top == HighestHigh(b, i - p + 1, i)
                    bottom == LowestLow(b, i - p + 1, i)
                IN  IF top = bottom THEN 50 ELSE (100 * (b[i].close - bottom)) \div (top - bottom)]
        d == SMA([n \in 1 .. Len(b) - p + 1 |-> k[n + p - 1]], P(3))
    IN  [k |-> k, d |-> [i \in p + P(3) - 1 .. Len(b) |-> d[i - p + 1]]]

\* Cumulative over all bars, in hundredths.
VWAP(b) ==
    LET weight(j) == IF b[j].volume = 0 THEN 1 ELSE b[j].volume
        traded(j) == weight(j) * ((100 * (b[j].high + b[j].low + b[j].close)) \div 3)
    IN  [i \in DOMAIN b |-> SumOver(traded, 1, i) \div SumOver(weight, 1, i)]

(***************************************************************************)
(* Daily strategies                                                        *)
(***************************************************************************)

Says(buy, sell) == (IF buy THEN {"buy"} ELSE {}) \union (IF sell THEN {"sell"} ELSE {})

CrossesUp(f, g, i) == f[i - 1] <= g[i - 1] /\ f[i] > g[i]
CrossesDown(f, g, i) == f[i - 1] >= g[i - 1] /\ f[i] < g[i]
BothAt(f, g, i) == {i - 1, i} \subseteq DOMAIN f \intersect DOMAIN g

macdCrossover(b, i) ==
    LET m == MACD(Closes(b))
    IN  IF ~BothAt(m.line, m.signal, i) THEN {}
        ELSE Says(CrossesUp(m.line, m.signal, i), CrossesDown(m.line, m.signal, i))

rsiOversoldOverbought(b, i) ==
    LET rsi == RSI(Closes(b), P(14))
    IN  IF ~BothAt(rsi, rsi, i) THEN {}
        ELSE Says(rsi[i - 1] < 30 /\ rsi[i] >= 30, rsi[i - 1] > 70 /\ rsi[i] <= 70)

goldenDeathCross(b, i) ==
    LET fast == SMA(Closes(b), P(50))
        slow == SMA(Closes(b), P(200))
    IN  IF ~BothAt(fast, slow, i) THEN {}
        ELSE Says(CrossesUp(fast, slow, i), CrossesDown(fast, slow, i))

\* A null average of the bar before counts as zero, which no price is near.
emaBounce(b, i) ==
    LET c == Closes(b)
        ema21 == EMA(c, P(21))
        near == 1000 * c[i - 1] <= 1005 * ema21[i - 1] /\ 1000 * c[i - 1] >= 995 * ema21[i - 1]
    IN  IF i < 3 \/ ~BothAt(ema21, ema21, i) THEN {}
        ELSE Says(near /\ c[i] > ema21[i], near /\ c[i] < ema21[i])

bollingerBounce(b, i) ==
    IF i - 1 < P(20) THEN {}
    ELSE Says(AtOrBelowLower(b, b[i - 1].close, i - 1) /\ ~AtOrBelowLower(b, b[i].close, i),
              AtOrAboveUpper(b, b[i - 1].close, i - 1) /\ ~AtOrAboveUpper(b, b[i].close, i))

bollingerSqueeze(b, i) ==
    LET widens == Squeezed(b, i - 1) /\ ~Squeezed(b, i)
    IN  IF i - 1 < P(20) THEN {}
        ELSE Says(widens /\ AtOrAboveUpper(b, b[i].close, i - 1),
                  widens /\ AtOrBelowLower(b, b[i].close, i - 1))

stochasticCrossover(b, i) ==
    LET s == Stochastic(b)
    IN  IF ~BothAt(s.k, s.d, i) THEN {}
        ELSE Says(CrossesUp(s.k, s.d, i) /\ s.k[i] < 30, CrossesDown(s.k, s.d, i) /\ s.k[i] > 70)

AverageVolume(b, i) == VolumeOver(b, i - P(20), i - 1)
Ratio(b, i, tenths) == 10 * P(20) * b[i].volume > tenths * AverageVolume(b, i)

volumeBreakout(b, i) ==
    LET c == Closes(b)
        sma20 == SMA(c, P(20))
        loud == AverageVolume(b, i) # 0 /\ Ratio(b, i, 20)
    IN  IF i <= P(20) THEN {}
        ELSE Says(loud /\ c[i] > c[i - 1] /\ c[i] > sma20[i],
                  loud /\ c[i] < c[i - 1] /\ c[i] < sma20[i])

meanReversion(b, i) ==
    LET c == Closes(b)
        sma20 == SMA(c, P(20))
        rsi == RSI(c, P(14))
    IN  IF i \notin DOMAIN sma20 \intersect DOMAIN rsi THEN {}
        ELSE Says(100 * c[i] < 95 * sma20[i] /\ rsi[i] < 35, 100 * c[i] > 105 * sma20[i] /\ rsi[i] > 65)

trendFollowing(b, i) ==
    LET c == Closes(b)
        ema9 == EMA(c, P(9))
        ema21 == EMA(c, P(21))
        sma50 == SMA(c, P(50))
    IN  IF ~BothAt(ema9, ema21, i) \/ i \notin DOMAIN sma50 THEN {}
        ELSE Says(CrossesUp(ema9, ema21, i) /\ c[i] > sma50[i],
                  CrossesDown(ema9, ema21, i) /\ c[i] < sma50[i])

Support(b, i, n) == LowestLow(b, i - n, i - 1)
Resistance(b, i, n) == HighestHigh(b, i - n, i - 1)

supportBounce(b, i) ==
    LET rsi == RSI(Closes(b), P(14))
        support == Support(b, i, P(20))
    IN  IF i <= P(20) \/ i \notin DOMAIN rsi THEN {}
        ELSE Says(1000 * b[i].low <= 1005 * support /\ b[i].close > support /\ rsi[i] < 40, FALSE)

resistanceRejection(b, i) ==
    LET rsi == RSI(Closes(b), P(14))
        resistance == Resistance(b, i, P(20))
    IN  IF i <= P(20) \/ i \notin DOMAIN rsi THEN {}
        ELSE Says(FALSE, 1000 * b[i].high >= 995 * resistance /\ b[i].close < resistance /\ rsi[i] > 60)

breakout(b, i) ==
    IF i <= P(20) THEN {}
    ELSE Says(b[i].close > Resistance(b, i, P(20)) /\ AverageVolume(b, i) > 0 /\ Ratio(b, i, 15), FALSE)

breakdown(b, i) ==
    IF i <= P(20) THEN {}
    ELSE Says(FALSE, b[i].close < Support(b, i, P(20)) /\ AverageVolume(b, i) > 0 /\ Ratio(b, i, 15))

\* Two lows, or highs, within 2% of each other, a gap of P(10) to P(30) bars apart.
Gaps(i) == {gap \in P(10) .. P(30) : i - 1 - gap >= P(10)}

doubleBottom(b, i) ==
    IF i <= P(40) THEN {}
    ELSE Says(\E gap \in Gaps(i) :
                /\ 100 * Distance(b[i - gap].low, b[i].low) < 2 * b[i - gap].low
                /\ b[i].close > b[i - 1].close /\ 100 * b[i].close > 102 * b[i].low, FALSE)

doubleTop(b, i) ==
    IF i <= P(40) THEN {}
    ELSE Says(FALSE, \E gap \in Gaps(i) :
                /\ 100 * Distance(b[i - gap].high, b[i].high) < 2 * b[i - gap].high
                /\ b[i].close < b[i - 1].close /\ 100 * b[i].close < 98 * b[i].high)

FlagHigh(b, i) == HighestClose(b, i - P(5), i - 1)
FlagLow(b, i) == LowestClose(b, i - P(5), i - 1)
TightFlag(b, i) == 100 * (FlagHigh(b, i) - FlagLow(b, i)) < 3 * FlagLow(b, i)

bullFlag(b, i) ==
    IF i <= P(15) THEN {}
    ELSE Says(/\ 100 * b[i - P(5)].close >= 105 * b[i - P(15)].close
              /\ TightFlag(b, i) /\ b[i].close > FlagHigh(b, i), FALSE)

bearFlag(b, i) ==
    IF i <= P(15) THEN {}
    ELSE Says(FALSE, /\ 100 * b[i - P(5)].close <= 95 * b[i - P(15)].close
                     /\ TightFlag(b, i) /\ b[i].close < FlagLow(b, i))

ascendingTriangle(b, i) ==
    LET top == HighestHigh(b, i - P(15), i - 1)
        bottom == LowestHigh(b, i - P(15), i - 1)
        firstLow == LowestLow(b, i - P(15), i - P(13))
        lastLow == LowestLow(b, i - P(2), i)
    IN  IF i <= P(30) THEN {}
        ELSE Says(1000 * (top - bottom) <= 15 * bottom /\ lastLow > firstLow /\ b[i].close > top, FALSE)

\* The low is within 1% of a retracement, given in thousandths of the swing, and the
\* price closes above it and above the bar before.
Bounces(b, i, top, range, thousandths) ==
    LET level == 1000 * top - thousandths * range
    IN  /\ 100000 * b[i].low <= 101 * level /\ 100000 * b[i].low >= 99 * level
        /\ 1000 * b[i].close > level /\ b[i].close > b[i - 1].close

fibonacciRetracement(b, i) ==
    LET top == HighestHigh(b, i - P(30), i - P(5) - 1)
        range == top - LowestLow(b, i - P(30), i - P(5) - 1)
    IN  IF i <= P(30) THEN {}
        ELSE Says(range > 0 /\ \E t \in {618, 500} : Bounces(b, i, top, range, t), FALSE)

\* Mutant: the bounce is announced at the bar that touches the average, before the bar
\* that confirms it.
vwapBounceEarly(b, i) ==
    LET c == Closes(b)
        v == VWAP(b)
        touches == 1000 * c[i] <= 1003 * v[i] /\ 1000 * c[i] >= 997 * v[i]
    IN  IF i < 2 \/ i = Len(b) THEN {}
        ELSE Says(touches /\ c[i - 1] > v[i - 1] /\ c[i + 1] > v[i + 1],
                  touches /\ c[i - 1] < v[i - 1] /\ c[i + 1] < v[i + 1])

\* The price touches the average within 0.3%; the bar after confirms and has the signal.
vwapBounce(b, i) ==
    LET c == Closes(b)
        v == VWAP(b)
        touches == 1000 * c[i - 1] <= 1003 * v[i - 1] /\ 1000 * c[i - 1] >= 997 * v[i - 1]
    IN  IF i < 3 THEN {}
        ELSE Says(touches /\ c[i - 2] > v[i - 2] /\ c[i] > v[i],
                  touches /\ c[i - 2] < v[i - 2] /\ c[i] < v[i])

ichimokuCloud(b, i) ==
    LET c == Closes(b)
        ema9 == EMA(c, P(9))
        ema21 == EMA(c, P(21))
        sma50 == SMA(c, P(50))
        bullish(j) == ema9[j] > ema21[j] /\ ema21[j] > sma50[j] /\ c[j] > ema9[j]
        bearish(j) == ema9[j] < ema21[j] /\ ema21[j] < sma50[j] /\ c[j] < ema9[j]
    IN  IF ~BothAt(ema9, ema21, i) \/ ~BothAt(sma50, sma50, i) THEN {}
        ELSE Says(bullish(i) /\ ~bullish(i - 1), bearish(i) /\ ~bearish(i - 1))

rangeBound(b, i) ==
    LET rsi == RSI(Closes(b), P(14))
        high == Resistance(b, i, P(30))
        low == Support(b, i, P(30))
        defined == 100 * (high - low) <= 15 * low /\ 100 * (high - low) >= 3 * low
    IN  IF i <= P(30) \/ i \notin DOMAIN rsi THEN {}
        ELSE Says(defined /\ 100 * (b[i].close - low) < 15 * (high - low) /\ rsi[i] < 35,
                  defined /\ 100 * (b[i].close - low) > 85 * (high - low) /\ rsi[i] > 65)

cupAndHandle(b, i) ==
    LET start == b[i - P(35)].close
        bottom == LowestClose(b, i - P(30), i - P(10) - 1)
        lip == b[i - P(5)].close
        high == HighestClose(b, i - P(5), i - 1)
        low == LowestClose(b, i - P(5), i - 1)
    IN  IF i <= P(40) THEN {}
        ELSE Says(/\ 100 * (start - bottom) >= 5 * start /\ 100 * (start - bottom) <= 30 * start
                  /\ 100 * Distance(lip, start) <= 3 * start
                  /\ 100 * (high - low) > high /\ 100 * (high - low) < 5 * high
                  /\ b[i].close > high, FALSE)

headAndShoulders(b, i) ==
    LET left == HighestHigh(b, i - P(35), i - P(25) - 1)
        head == HighestHigh(b, i - P(25), i - P(10) - 1)
        right == HighestHigh(b, i - P(10), i - 1)
        neckline == LowestClose(b, i - P(30), i - P(5) - 1)
    IN  IF i <= P(40) THEN {}
        ELSE Says(FALSE, /\ head > left /\ head > right /\ 100 * Distance(left, right) <= 5 * left
                         /\ b[i].close < neckline /\ b[i - 1].close >= neckline)

(***************************************************************************)
(* Intraday strategies                                                     *)
(***************************************************************************)

\* sessionSegments: where the session of bar i starts and ends among the bars.
SessionStart(b, i) == Max({1} \union {j \in 1 .. i : b[j].opens})
SessionEnd(b, i) == Min({Len(b)} \union {j - 1 : j \in {k \in i + 1 .. Len(b) : b[k].opens}})

\* The opening range is of the first six bars of the session, or of all but its last when
\* there are not that many yet.  Only the first breakout of the session counts.
openingRangeBreakout(b, i) ==
    LET start == SessionStart(b, i)
        length == Min({P(6), SessionEnd(b, i) - start})
        inRange == start + length - 1
        high == HighestHigh(b, start, inRange)
        low == LowestLow(b, start, inRange)
        loud(k) == length * b[k].volume > VolumeOver(b, start, inRange)
        breaks(k) == loud(k) /\ (b[k].close > high \/ b[k].close < low)
    IN  IF length < P(2) \/ i <= inRange \/ \E k \in inRange + 1 .. i - 1 : breaks(k) THEN {}
        ELSE Says(loud(i) /\ b[i].close > high, loud(i) /\ b[i].close < low)

vwapReclaim(b, i) ==
    LET c == Closes(b)
        v == VWAP(b)
        loud == AverageVolume(b, i) > 0 /\ Ratio(b, i, 10)
    IN  IF i <= P(21) THEN {}
        ELSE Says(loud /\ c[i - 1] < v[i - 1] /\ c[i] > v[i], loud /\ c[i - 1] > v[i - 1] /\ c[i] < v[i])

\* The gap of a session that is not the first, against the close before it.
Gapped(b, i) == SessionStart(b, i) > 1
PriorClose(b, i) == b[SessionStart(b, i) - 1].close
GapOf(b, i) == b[SessionStart(b, i)].open - PriorClose(b, i)

gapAndGo(b, i) ==
    LET start == SessionStart(b, i)
        prior == SessionStart(b, start - 1) .. start - 1
        priorVolume == VolumeOver(b, SessionStart(b, start - 1), start - 1)
        holds(j) == Closes(b)[j] > VWAP(b)[j]
    IN  IF ~Gapped(b, i) \/ i # start + 2 THEN {}
        ELSE Says(/\ 100 * GapOf(b, i) >= PriorClose(b, i)
                  /\ holds(i - 1) /\ holds(i)
                  /\ ~(priorVolume > 0 /\ 10 * Cardinality(prior) * VolumeOver(b, start, i)
                                            < 12 * 3 * priorVolume), FALSE)

gapFillFade(b, i) ==
    LET start == SessionStart(b, i)
        gap == GapOf(b, i)
        close == PriorClose(b, i)
        wide == 1000 * Distance(gap, 0) >= 15 * close
        fills(k) == gap > 0 /\ b[k].close < close /\ b[k - 1].close >= close
        reverses(k) == gap < 0 /\ b[k].close > close /\ b[k - 1].close <= close
    IN  IF ~Gapped(b, i) \/ i = start \/ i > start + P(6)
           \/ \E k \in start + 1 .. i - 1 : fills(k) \/ reverses(k)
        THEN {}
        ELSE Says(wide /\ reverses(i), wide /\ fills(i))

momentumBurst(b, i) ==
    LET c == Closes(b)
        strong(k) == b[k].close > b[k].open /\ c[k] > VWAP(b)[k]
        loud(k) == 10 * P(20) * b[k].volume > 15 * AverageVolume(b, i)
    IN  IF i <= P(22) \/ SessionStart(b, i) > i - 2 THEN {}
        ELSE Says(AverageVolume(b, i) > 0 /\ \A k \in i - 2 .. i : strong(k) /\ (k > i - 2 => loud(k)),
                  FALSE)

rsiDivergence(b, i) ==
    LET rsi == RSI(Closes(b), P(14))
        back == i - P(10)
    IN  IF i <= P(10) + 2 \/ {back, i} \ DOMAIN rsi # {} \/ SessionStart(b, i) > back THEN {}
        ELSE Says(b[i].low < b[back].low /\ rsi[i] > rsi[back] /\ rsi[i] < 40,
                  b[i].high > b[back].high /\ rsi[i] < rsi[back] /\ rsi[i] > 60)

(***************************************************************************)
(* The registry and the feed                                               *)
(***************************************************************************)

Daily == {"macd_crossover", "rsi_oversold", "golden_cross", "ema_bounce", "bollinger_bounce",
          "bollinger_squeeze", "stochastic_crossover", "volume_breakout", "mean_reversion",
          "trend_following", "support_bounce", "resistance_rejection", "breakout", "breakdown",
          "double_bottom", "double_top", "bull_flag", "bear_flag", "ascending_triangle",
          "fibonacci_retracement", "vwap_bounce", "ichimoku_cloud", "range_bound",
          "cup_and_handle", "head_and_shoulders"}
Intraday == {"opening_range_breakout", "vwap_reclaim", "gap_and_go", "gap_fill_fade",
             "momentum_burst", "rsi_divergence_5m"}
STRATEGIES == Daily \union Intraday

\* runStrategy: what strategy s says of bar i of b.
SignalsAt(s, b, i) ==
    CASE s = "macd_crossover" -> macdCrossover(b, i)
      [] s = "rsi_oversold" -> rsiOversoldOverbought(b, i)
      [] s = "golden_cross" -> goldenDeathCross(b, i)
      [] s = "ema_bounce" -> emaBounce(b, i)
      [] s = "bollinger_bounce" -> bollingerBounce(b, i)
      [] s = "bollinger_squeeze" -> bollingerSqueeze(b, i)
      [] s = "stochastic_crossover" -> stochasticCrossover(b, i)
      [] s = "volume_breakout" -> volumeBreakout(b, i)
      [] s = "mean_reversion" -> meanReversion(b, i)
      [] s = "trend_following" -> trendFollowing(b, i)
      [] s = "support_bounce" -> supportBounce(b, i)
      [] s = "resistance_rejection" -> resistanceRejection(b, i)
      [] s = "breakout" -> breakout(b, i)
      [] s = "breakdown" -> breakdown(b, i)
      [] s = "double_bottom" -> doubleBottom(b, i)
      [] s = "double_top" -> doubleTop(b, i)
      [] s = "bull_flag" -> bullFlag(b, i)
      [] s = "bear_flag" -> bearFlag(b, i)
      [] s = "ascending_triangle" -> ascendingTriangle(b, i)
      [] s = "fibonacci_retracement" -> fibonacciRetracement(b, i)
      [] s = "vwap_bounce" -> vwapBounce(b, i)
      [] s = "ichimoku_cloud" -> ichimokuCloud(b, i)
      [] s = "range_bound" -> rangeBound(b, i)
      [] s = "cup_and_handle" -> cupAndHandle(b, i)
      [] s = "head_and_shoulders" -> headAndShoulders(b, i)
      [] s = "opening_range_breakout" -> openingRangeBreakout(b, i)
      [] s = "vwap_reclaim" -> vwapReclaim(b, i)
      [] s = "gap_and_go" -> gapAndGo(b, i)
      [] s = "gap_fill_fade" -> gapFillFade(b, i)
      [] s = "momentum_burst" -> momentumBurst(b, i)
      [] s = "rsi_divergence_5m" -> rsiDivergence(b, i)

FeedInit == bars = <<>> /\ said = [s \in STRATEGIES |-> <<>>]

AppendBar(shape) ==
    /\ Len(bars) < FeedBound
    /\ bars' = Append(bars, shape)
    /\ said' = [s \in STRATEGIES |-> Append(said[s], SignalsAt(s, bars', Len(bars')))]

FeedNext == \E shape \in Shapes : AppendBar(shape)
FeedSpec == FeedInit /\ [][FeedNext]_feedVars

(***************************************************************************)
(* Properties                                                              *)
(***************************************************************************)

FeedTypeOK ==
    /\ bars \in Seq(Shapes) /\ Len(bars) <= FeedBound
    /\ said \in [STRATEGIES -> Seq(SUBSET {"buy", "sell"})]

\* A strategy run over a longer history says of each earlier bar what it said when that
\* bar was the last: a backtest sees the signals the auto-trader would have acted on.
\* The opening-range breakout is the exception: its range grows with the session.
NoRepaint ==
    \A s \in STRATEGIES \ {"opening_range_breakout"} :
        \A i \in DOMAIN bars : SignalsAt(s, bars, i) = said[s][i]
=============================================================================
