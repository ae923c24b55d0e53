-------------------------- MODULE TraderBookProofs ----------------------------
(***************************************************************************)
(* What the auto-trader may enter, what the risk gate lets through, what   *)
(* it buys and what the A/B harness books, for any assets, bars, orders,   *)
(* policies, accounts, pairs, gates, sizings, loops, ticks and restarts.   *)
(* The four share no variable; each has a section and an inductive         *)
(* invariant of its own.                                                   *)
(***************************************************************************)
EXTENDS MCTraderBook, SumTheorems, SequenceTheorems

(***************************************************************************)
(* The types of the book                                                   *)
(***************************************************************************)

Sides == {"buy", "sell", "exit", "trail", "close"}

\* An order of a known asset and bar has a legal id.
LEMMA OrderTyped ==
    ASSUME NEW a \in Assets, NEW b \in 0 .. LastBar, NEW side \in Sides
    PROVE  /\ Order(a, b, side) \in OrderIds
           /\ Order(a, b, side).asset = a /\ Order(a, b, side).bar = b /\ Order(a, b, side).side = side
BY DEF Order, OrderIds, Sides

\* The legs of a bracket have the id of its buy, but for the side.
LEMMA LegTyped ==
    ASSUME NEW o \in OrderIds, NEW side \in Sides
    PROVE  /\ [o EXCEPT !.side = side] \in OrderIds
           /\ [o EXCEPT !.side = side].asset = o.asset /\ [o EXCEPT !.side = side].bar = o.bar
           /\ [o EXCEPT !.side = side].side = side
           /\ o.asset \in Assets /\ o.bar \in 0 .. LastBar /\ o.side \in Sides
BY DEF OrderIds, Sides

LEMMA OrdersEqual ==
    ASSUME NEW o \in OrderIds, NEW p \in OrderIds, o.asset = p.asset, o.bar = p.bar, o.side = p.side
    PROVE  o = p
BY DEF OrderIds

\* The bar a signal is acted on is one there was: the last bar, or the one before it if the
\* last gave none.
LEMMA SignalBarTyped ==
    ASSUME bar \in 1 .. LastBar, NEW a \in Assets, SignalBar(a) > 0
    PROVE  /\ SignalBar(a) \in 1 .. LastBar /\ SignalBar(a) <= bar
           /\ signal[a][SignalBar(a)] # "none"
           /\ \A b \in 1 .. bar : b > SignalBar(a) => signal[a][b] = "none"
BY BookAssumption DEF SignalBar

LEMMA AppendedIs ==
    ASSUME NEW l \in Seq(Entries), NEW e \in Entries, NEW m, m = Append(l, e)
    PROVE  /\ m \in Seq(Entries) /\ Len(m) = Len(l) + 1
           /\ DOMAIN l = 1 .. Len(l) /\ DOMAIN m = 1 .. Len(l) + 1 /\ Len(l) \in Nat
           /\ \A i \in 1 .. Len(l) : m[i] = l[i]
           /\ m[Len(l) + 1] = e
BY AppendProperties

-----------------------------------------------------------------------------

\* The latest of some places in the log is the greatest of them.
LEMMA LatestIs ==
    ASSUME NEW n \in Nat, NEW S, S \subseteq 1 .. n
    PROVE  /\ Latest(S) \in 0 .. n /\ (Latest(S) > 0 <=> S # {})
           /\ S # {} => Latest(S) \in S
           /\ \A i \in S : i <= Latest(S)
<1>1. CASE S = {}
  BY <1>1 DEF Latest
<1>2. CASE S # {}
  <2>1. IsFiniteSet(1 .. n)
    BY FS_Interval
  <2>2. IsFiniteSet(S)
    BY <2>1, FS_Subset
  <2> DEFINE f == [x \in S |-> x]
  <2>3. \A x \in S : f[x] \in Nat
    OBVIOUS
  <2>4. \E x \in S : \A y \in S : f[y] <= f[x]
    <3> HIDE DEF f
    <3> QED
      BY <1>2, <2>2, <2>3, GreatestOfFinite
  <2>5. \E x \in S : \A y \in S : x >= y
    BY <2>4
  <2>6. Max(S) \in S /\ \A y \in S : Max(S) >= y
    BY <2>5 DEF Max
  <2>7. Latest(S) = Max(S) /\ Max(S) \in 1 .. n
    BY <1>2, <2>6 DEF Latest
  <2> HIDE DEF Latest
  <2> QED
    BY <1>2, <2>6, <2>7
<1> QED
  BY <1>1, <1>2

LEMMA MishapTyped ==
    ASSUME misfortunes \in 0 .. MisfortuneBound, NEW happens \in BOOLEAN, Mishap(happens)
    PROVE  misfortunes' \in 0 .. MisfortuneBound
BY BookAssumption DEF Mishap

\* Journal writes at most one row, and none for an order that has one.
LEMMA JournalWrites ==
    ASSUME NEW kind, NEW o, NEW profit, NEW lost \in BOOLEAN, Journal(kind, o, profit, lost)
    PROVE  /\ Mishap(lost) /\ disturbed' = (disturbed \/ lost)
           /\ \/ lost /\ log' = log
              \/ log' = log /\ \E i \in DOMAIN log : log[i].kind \in {"buy", "sell"} /\ log[i].order = o
              \/ /\ ~lost /\ log' = Append(log, [kind |-> kind, order |-> o, pnl |-> profit])
                 /\ ~ \E i \in DOMAIN log : log[i].kind \in {"buy", "sell"} /\ log[i].order = o
BY DEF Journal

LEMMA JournalTyped ==
    ASSUME BookTypeOK, NEW kind \in {"buy", "sell"}, NEW o \in OrderIds, NEW profit \in {-1, 0, 1},
           NEW lost \in BOOLEAN, Journal(kind, o, profit, lost)
    PROVE  /\ log' \in Seq(Entries) /\ misfortunes' \in 0 .. MisfortuneBound /\ disturbed' \in BOOLEAN
<1>1. [kind |-> kind, order |-> o, pnl |-> profit] \in Entries
  BY DEF Entries
<1>2. log' = log \/ log' = Append(log, [kind |-> kind, order |-> o, pnl |-> profit])
  BY JournalWrites
<1>3. log' \in Seq(Entries)
  <2>1. log \in Seq(Entries)
    BY DEF BookTypeOK
  <2> QED
    BY ONLY <1>1, <1>2, <2>1, AppendProperties
<1>4. misfortunes' \in 0 .. MisfortuneBound
  BY JournalWrites, MishapTyped DEF BookTypeOK
<1>5. disturbed' \in BOOLEAN
  BY JournalWrites DEF BookTypeOK
<1> QED
  BY <1>3, <1>4, <1>5

LEMMA SubmitTyped ==
    ASSUME BookTypeOK, NEW o \in OrderIds, NEW outcome, Submit(o, outcome)
    PROVE  /\ working' \subseteq sent' /\ filled \subseteq sent' /\ sent' \union unsent' \subseteq OrderIds
           /\ misfortunes' \in 0 .. MisfortuneBound /\ disturbed' \in BOOLEAN
<1>1. misfortunes' = misfortunes \/ Mishap(outcome = "lost")
  BY DEF Submit
<1>2. misfortunes' \in 0 .. MisfortuneBound
  <2> DEFINE lost == outcome = "lost"
  <2>1. lost \in BOOLEAN
    OBVIOUS
  <2> QED
    BY <1>1, <2>1, MishapTyped DEF BookTypeOK
<1>3. disturbed' \in BOOLEAN
  BY DEF Submit, BookTypeOK
<1>4. /\ working' \subseteq working \union {o} /\ working' \subseteq sent' \union working
      /\ sent' \in {sent, sent \union {o}} /\ unsent' \subseteq unsent \union {o}
      /\ o \in working' => o \in working \/ o \in sent'
  BY DEF Submit
<1> QED
  BY <1>2, <1>3, <1>4 DEF BookTypeOK

LEMMA InitTypes == BookInit => BookTypeOK
<1> SUFFICES ASSUME BookInit PROVE BookTypeOK
  OBVIOUS
<1>1. turn \in Turns
  BY DEF BookInit, NoTurn, Turns
<1>2. bar \in 1 .. LastBar /\ misfortunes \in 0 .. MisfortuneBound
  BY BookAssumption DEF BookInit
<1>3. log \in Seq(Entries) /\ counts \in [OrderIds -> Nat] /\ held \in [Assets -> Nat]
  BY DEF BookInit
<1>4. /\ bracketed \in BOOLEAN /\ on \in BOOLEAN /\ early \in BOOLEAN /\ disturbed \in BOOLEAN
  BY DEF BookInit
<1>5. dailyPnl \in Int /\ consecutiveLosses \in Nat /\ added \in Int
  BY DEF BookInit
<1>6. working \subseteq sent /\ filled \subseteq sent /\ sent \union unsent \subseteq OrderIds
  BY DEF BookInit
<1> QED
  BY <1>1, <1>2, <1>3, <1>4, <1>5, <1>6 DEF BookTypeOK

LEMMA NoTurnTyped == NoTurn \in Turns
BY DEF NoTurn, Turns

LEMMA TypesStep == BookTypeOK /\ [BookNext]_bookVars => BookTypeOK'
<1> SUFFICES ASSUME BookTypeOK, [BookNext]_bookVars
             PROVE  BookTypeOK'
  OBVIOUS
<1>0. /\ turn \in Turns /\ log \in Seq(Entries) /\ bar \in 1 .. LastBar /\ bar \in 0 .. LastBar
      /\ working \subseteq sent /\ filled \subseteq sent /\ sent \subseteq OrderIds
      /\ held \in [Assets -> Nat]
  BY DEF BookTypeOK
<1>1. ASSUME NEW o \in working, FillBuy(o)
      PROVE  BookTypeOK'
  <2> DEFINE legs == IF bracketed THEN {[o EXCEPT !.side = "exit"]} ELSE {}
  <2>1. legs \subseteq OrderIds
    <3>1. o \in OrderIds /\ "exit" \in Sides
      BY <1>0 DEF Sides
    <3> QED
      BY <3>1, LegTyped
  <2>2. held' \in [Assets -> Nat]
    BY <1>0, <1>1 DEF FillBuy, OrderIds
  <2>3. working' = (working \ {o}) \union legs /\ sent' = sent \union legs
    BY <1>1 DEF FillBuy
  <2> HIDE DEF legs
  <2> QED
    BY <1>1, <2>1, <2>2, <2>3 DEF FillBuy, BookTypeOK
<1>2. ASSUME NEW o \in working, NEW profit \in {-1, 1}, FillSell(o, profit)
      PROVE  BookTypeOK'
  <2>1. held' \in [Assets -> Nat]
    BY <1>0, <1>2 DEF FillSell, OrderIds
  <2>2. [kind |-> "fill", order |-> o, pnl |-> profit] \in Entries
    BY <1>0 DEF Entries
  <2>3. log' \in Seq(Entries)
    BY <1>0, <1>2, <2>2, AppendProperties DEF FillSell
  <2>4. working' \subseteq working
    BY <1>2 DEF FillSell
  <2> QED
    BY <1>2, <2>1, <2>3, <2>4 DEF FillSell, BookTypeOK
<1>3. CASE NewBar
  BY <1>3, BookAssumption DEF NewBar, brokerSide, BookTypeOK
<1>4. CASE BeginTick
  <2>1. [NoTurn EXCEPT !.at = "looking", !.pnl = dailyPnl, !.losses = consecutiveLosses] \in Turns
    BY DEF NoTurn, Turns, BookTypeOK
  <2>2. turn' \in Turns
    BY <1>4, <2>1, NoTurnTyped DEF BeginTick
  <2>3. early' \in BOOLEAN /\ on' \in BOOLEAN
    BY <1>4 DEF BeginTick
  <2> QED
    BY <1>4, <2>2, <2>3 DEF BeginTick, brokerSide, BookTypeOK
<1>5. CASE FetchPositions
  <2>1. turn' \in Turns
    BY <1>0, <1>5 DEF FetchPositions, Turns
  <2> QED
    BY <1>5, <2>1 DEF FetchPositions, brokerSide, BookTypeOK
<1>6. CASE FireKillSwitch
  BY <1>6, NoTurnTyped DEF FireKillSwitch, brokerSide, BookTypeOK
<1>7. ASSUME NEW read \in BOOLEAN, Reconcile(read)
      PROVE  BookTypeOK'
  <2> DEFINE lastSell(a) == IF read THEN Latest(Rows("sell", a)) ELSE 0
             fill(a) == Latest({i \in Rows("fill", a) : i > lastSell(a)})
             open == UNION {{i \in Rows("buy", a) : i > lastSell(a)} :
                            a \in {b \in Assets \ turn.seen : fill(b) > 0}}
             matched == {[row |-> i, fill |-> log[fill(log[i].order.asset)]] : i \in open}
  <2>1. turn' = [turn EXCEPT !.at = "trading", !.exits = matched]
    BY <1>7 DEF Reconcile
  <2>a. /\ DOMAIN log \subseteq Nat /\ \A i \in DOMAIN log : log[i] \in Entries
    BY <1>0
  <2>2. ASSUME NEW i \in open
        PROVE  [row |-> i, fill |-> log[fill(log[i].order.asset)]] \in Exits
    <3>1. PICK b \in Assets : fill(b) > 0 /\ i \in Rows("buy", b)
      BY <2>2
    <3>2. log[i].order.asset = b /\ i \in DOMAIN log
      BY <3>1 DEF Rows
    <3> DEFINE fills == {j \in Rows("fill", b) : j > lastSell(b)}
    <3>3. fills \subseteq DOMAIN log
      BY DEF Rows
    <3>4. fill(b) \in DOMAIN log
      <4> HIDE DEF lastSell
      <4>1. fill(b) = Latest(fills)
        OBVIOUS
      <4> HIDE DEF fills, fill
      <4>2. fills # {}
        BY <3>1, <4>1 DEF Latest
      <4>3. fills \subseteq 1 .. Len(log) /\ Len(log) \in Nat
        BY <1>0, <3>3
      <4>4. Latest(fills) \in fills
        BY <4>2, <4>3, LatestIs
      <4> QED
        BY <3>3, <4>1, <4>2, <4>4
    <3> HIDE DEF fill, fills
    <3> QED
      BY <2>a, <3>2, <3>4 DEF Exits
  <2> HIDE DEF open, fill, lastSell
  <2>3. matched \subseteq Exits
    BY <2>2
  <2> HIDE DEF matched
  <2>4. turn' \in Turns
    BY <1>0, <2>1, <2>3 DEF Turns
  <2>5. misfortunes' \in 0 .. MisfortuneBound /\ disturbed' \in BOOLEAN
    BY <1>7, BookAssumption DEF Reconcile, Mishap, BookTypeOK
  <2> QED
    BY <1>7, <2>4, <2>5 DEF Reconcile, brokerSide, BookTypeOK
<1>8. CASE ReconcileFails
  <2>1. turn' \in Turns
    BY <1>0, <1>8 DEF ReconcileFails, Turns
  <2>2. misfortunes' \in 0 .. MisfortuneBound
    BY <1>8, BookAssumption DEF ReconcileFails, Mishap, BookTypeOK
  <2> QED
    BY <1>8, <2>1, <2>2 DEF ReconcileFails, brokerSide, BookTypeOK
<1>9. ASSUME NEW lost \in BOOLEAN, JournalExit(lost)
      PROVE  BookTypeOK'
  <2>1. PICK x \in turn.exits :
          /\ Journal("sell", x.fill.order, x.fill.pnl, lost)
          /\ turn' = [turn EXCEPT !.exits = @ \ {x}, !.pending = {[x.fill EXCEPT !.kind = "sell"]}]
    BY <1>9 DEF JournalExit
  <2>2. x.fill \in Entries /\ x.fill.order \in OrderIds /\ x.fill.pnl \in {-1, 0, 1}
    BY <1>0 DEF Turns, Exits, Entries
  <2>3. [x.fill EXCEPT !.kind = "sell"] \in Entries
    BY <2>2 DEF Entries
  <2>4. turn' \in Turns
    BY <1>0, <2>1, <2>3 DEF Turns
  <2>5. /\ log' \in Seq(Entries) /\ misfortunes' \in 0 .. MisfortuneBound /\ disturbed' \in BOOLEAN
    BY <2>1, <2>2, JournalTyped
  <2> QED
    BY <1>9, <2>4, <2>5 DEF JournalExit, brokerSide, BookTypeOK
<1>10. CASE CountExit
  <2>1. PICK x \in turn.pending :
          /\ Count(x.pnl) /\ counts' = [counts EXCEPT ![x.order] = @ + 1] /\ added' = added + x.pnl
    BY <1>10 DEF CountExit
  <2>2. x.order \in OrderIds /\ x.pnl \in Int
    BY <1>0 DEF Turns, Entries
  <2>3. dailyPnl' \in Int /\ consecutiveLosses' \in Nat
    BY <1>0, <2>1, <2>2 DEF Count, Turns
  <2>4. turn' \in Turns
    BY <1>0, <2>1, <2>3 DEF Count, Turns
  <2>5. added' \in Int /\ counts' \in [OrderIds -> Nat]
    BY <2>1, <2>2 DEF BookTypeOK
  <2> QED
    BY <1>10, <2>3, <2>4, <2>5 DEF CountExit, brokerSide, BookTypeOK
<1>11. ASSUME NEW cancelled \in BOOLEAN, BeginFlatten(cancelled)
       PROVE  BookTypeOK'
  <2>1. turn' \in Turns /\ working' \subseteq working
    BY <1>0, <1>11 DEF BeginFlatten, Turns
  <2> QED
    BY <1>11, <2>1 DEF BeginFlatten, BookTypeOK
<1>c. ASSUME NEW a \in Assets, Closed(a)
      PROVE  turn' \in Turns
  <2>1. [turn EXCEPT !.seen = @ \ {a}] \in Turns
    BY <1>0 DEF Turns
  <2> QED
    BY <1>c, <2>1, NoTurnTyped DEF Closed
<1>12. ASSUME NEW a \in Assets, NEW profit \in {-1, 1}, NEW lost \in BOOLEAN, Flatten(a, profit, lost)
       PROVE  BookTypeOK'
  <2> DEFINE o == Order(a, bar, "close")
  <2>1. o \in OrderIds
    BY <1>0, OrderTyped DEF Sides
  <2>2. /\ working' = working \union {o} /\ sent' = sent \union {o}
        /\ Journal("sell", o, profit, lost) /\ turn' \in Turns
    BY <1>12, <1>c DEF Flatten
  <2> HIDE DEF o
  <2>3. /\ log' \in Seq(Entries) /\ misfortunes' \in 0 .. MisfortuneBound /\ disturbed' \in BOOLEAN
    BY <2>1, <2>2, JournalTyped
  <2> QED
    BY <1>12, <2>1, <2>2, <2>3 DEF Flatten, BookTypeOK
<1>13. ASSUME NEW a \in Assets, FlattenFails(a)
       PROVE  BookTypeOK'
  BY <1>13, <1>c DEF FlattenFails, brokerSide, BookTypeOK
<1>14. ASSUME NEW a \in Assets, NEW outcome, PlaceTrailingStop(a, outcome)
       PROVE  BookTypeOK'
  <2> DEFINE o == Order(a, 0, "trail")
  <2>1. o \in OrderIds
    BY OrderTyped, BookAssumption DEF Sides
  <2>2. Submit(o, outcome)
    BY <1>14 DEF PlaceTrailingStop
  <2> HIDE DEF o
  <2>3. /\ working' \subseteq sent' /\ filled \subseteq sent' /\ sent' \union unsent' \subseteq OrderIds
        /\ misfortunes' \in 0 .. MisfortuneBound /\ disturbed' \in BOOLEAN
    BY <2>1, <2>2, SubmitTyped
  <2> QED
    BY <1>14, <2>3 DEF PlaceTrailingStop, BookTypeOK
<1>15. ASSUME NEW a \in Assets, NEW outcome, Buy(a, outcome)
       PROVE  BookTypeOK'
  <2> DEFINE o == ClientOrderId(a, "buy")
             await == [kind |-> "buy", order |-> o, pnl |-> 0]
  <2>1. o \in OrderIds
    BY <1>0, <1>15, OrderTyped, SignalBarTyped DEF Buy, ClientOrderId, Sides
  <2>2. Submit(o, outcome) /\ turn' = [turn EXCEPT !.todo = @ \ {a}, !.pending = IF outcome # "placed" THEN {} ELSE {await}]
    BY <1>15 DEF Buy
  <2> HIDE DEF o
  <2>3. /\ working' \subseteq sent' /\ filled \subseteq sent' /\ sent' \union unsent' \subseteq OrderIds
        /\ misfortunes' \in 0 .. MisfortuneBound /\ disturbed' \in BOOLEAN
    BY <2>1, <2>2, SubmitTyped
  <2>4. await \in Entries
    BY <2>1 DEF Entries
  <2> HIDE DEF await
  <2>5. turn' \in Turns
    BY <1>0, <2>2, <2>4 DEF Turns
  <2> QED
    BY <1>15, <2>3, <2>5 DEF Buy, BookTypeOK
<1>16. ASSUME NEW lost \in BOOLEAN, JournalBuy(lost)
       PROVE  BookTypeOK'
  <2>1. PICK x \in turn.pending : Journal("buy", x.order, 0, lost)
    BY <1>16 DEF JournalBuy
  <2>2. x.order \in OrderIds
    BY <1>0 DEF Turns, Entries
  <2>3. turn' \in Turns
    BY <1>0, <1>16 DEF JournalBuy, Turns
  <2>4. /\ log' \in Seq(Entries) /\ misfortunes' \in 0 .. MisfortuneBound /\ disturbed' \in BOOLEAN
    BY <2>1, <2>2, JournalTyped
  <2> QED
    BY <1>16, <2>3, <2>4 DEF JournalBuy, brokerSide, BookTypeOK
<1>17. ASSUME NEW a \in Assets, NEW profit \in {-1, 1}, NEW outcome, Sell(a, profit, outcome)
       PROVE  BookTypeOK'
  <2> DEFINE o == ClientOrderId(a, "sell")
             exit == [row |-> 0, fill |-> [kind |-> "fill", order |-> o, pnl |-> profit]]
  <2>1. o \in OrderIds
    BY <1>0, <1>17, OrderTyped, SignalBarTyped DEF Sell, ClientOrderId, Sides
  <2>2. Submit(o, outcome) /\ turn' = [turn EXCEPT !.todo = @ \ {a}, !.exits = IF outcome # "placed" THEN {} ELSE {exit}]
    BY <1>17 DEF Sell
  <2> HIDE DEF o
  <2>3. /\ working' \subseteq sent' /\ filled \subseteq sent' /\ sent' \union unsent' \subseteq OrderIds
        /\ misfortunes' \in 0 .. MisfortuneBound /\ disturbed' \in BOOLEAN
    BY <2>1, <2>2, SubmitTyped
  <2>4. exit \in Exits
    BY <2>1 DEF Entries, Exits
  <2> HIDE DEF exit
  <2>5. turn' \in Turns
    BY <1>0, <2>2, <2>4 DEF Turns
  <2> QED
    BY <1>17, <2>3, <2>5 DEF Sell, BookTypeOK
<1>18. ASSUME NEW a \in Assets, Skip(a)
       PROVE  BookTypeOK'
  <2>1. turn' \in Turns
    BY <1>0, <1>18 DEF Skip, Turns
  <2> QED
    BY <1>18, <2>1 DEF Skip, brokerSide, BookTypeOK
<1>19. CASE EndTick
  BY <1>19, NoTurnTyped DEF EndTick, brokerSide, BookTypeOK
<1>20. CASE StartAnew
  <2>1. misfortunes' \in 0 .. MisfortuneBound
    BY <1>20, BookAssumption DEF StartAnew, BookTypeOK
  <2> QED
    BY <1>20, <2>1 DEF StartAnew, brokerSide, BookTypeOK
<1>21. CASE Die
  <2>1. misfortunes' \in 0 .. MisfortuneBound /\ disturbed' \in BOOLEAN
    BY <1>21, BookAssumption DEF Die, BookTypeOK
  <2> QED
    BY <1>21, <2>1, NoTurnTyped DEF Die, brokerSide, BookTypeOK
<1>22. CASE UNCHANGED bookVars
  BY <1>22 DEF bookVars, brokerSide, BookTypeOK
<1> QED
  BY <1>1, <1>2, <1>3, <1>4, <1>5, <1>6, <1>7, <1>8, <1>9, <1>10, <1>11, <1>12, <1>13, <1>14,
     <1>15, <1>16, <1>17, <1>18, <1>19, <1>20, <1>21, <1>22 DEF BookNext

\* Rows, orders, units and counters stay what the tables and the broker make of them,
\* whatever a tick of autoTrader.js, the broker and a death do to them.
THEOREM BookTypes == BookSpec => []BookTypeOK
BY InitTypes, TypesStep, PTL DEF BookSpec

(***************************************************************************)
(* One buy per signal                                                      *)
(* The id of a buy is of the bar its signal was given at, so that ticks    *)
(* which forgot the buy send the same id again.                            *)
(***************************************************************************)

\* A buy or sell the broker was sent answers a signal: its id names the asset and the bar.
AnswersSignal(o) ==
    o.side \in {"buy", "sell"} => o.bar \in 1 .. bar /\ signal[o.asset][o.bar] = o.side

\* The inductive invariant.
BuysInv == BookTypeOK /\ \A o \in sent : AnswersSignal(o)

-----------------------------------------------------------------------------

\* A step preserves it that sends at most an order which answers a signal if it is a buy
\* or a sell.
LEMMA SentAnswers ==
    ASSUME BuysInv, BookTypeOK', signal' = signal, bar' \in {bar, bar + 1},
           NEW x, x \in sent \/ AnswersSignal(x), sent' \subseteq sent \union {x}
    PROVE  BuysInv'
<1>1. bar \in Nat /\ bar' \in Nat
  BY BookAssumption DEF BuysInv, BookTypeOK
<1>2. \A o \in sent' : AnswersSignal(o)
  BY DEF BuysInv
<1>3. \A o \in sent' : AnswersSignal(o)'
  BY <1>1, <1>2 DEF AnswersSignal
<1> QED
  BY <1>3 DEF BuysInv

LEMMA SentKept ==
    ASSUME BuysInv, BookTypeOK', signal' = signal, bar' \in {bar, bar + 1}, sent' = sent
    PROVE  BuysInv'
<1>1. bar \in Nat /\ bar' \in Nat
  BY BookAssumption DEF BuysInv, BookTypeOK
<1>3. \A o \in sent' : AnswersSignal(o)'
  BY <1>1 DEF AnswersSignal, BuysInv
<1> QED
  BY <1>3 DEF BuysInv

LEMMA SubmitSends ==
    ASSUME NEW o, NEW outcome, Submit(o, outcome)
    PROVE  /\ sent' \subseteq sent \union {o} /\ sent \subseteq sent' /\ working \subseteq working'
           /\ working' \subseteq working \union {o}
           /\ o \in sent \union unsent => working' = working /\ sent' = sent
           /\ outcome = "placed" /\ o \notin unsent => o \in sent'
           /\ disturbed => disturbed'
           /\ o \in unsent => disturbed'
           /\ outcome = "lost" /\ o.side = "buy" => disturbed'
BY DEF Submit

LEMMA InitBuysInv == BookInit => BuysInv
BY InitTypes DEF BookInit, BuysInv

LEMMA BuysStep == BuysInv /\ [BookNext]_bookVars => BuysInv'
<1> SUFFICES ASSUME BuysInv, [BookNext]_bookVars
             PROVE  BuysInv'
  OBVIOUS
<1>t. BookTypeOK'
  BY TypesStep DEF BuysInv
<1>0. bar \in 1 .. LastBar /\ bar \in 0 .. LastBar /\ sent \subseteq OrderIds /\ working \subseteq sent
  BY DEF BuysInv, BookTypeOK
<1>1. ASSUME NEW o \in working, FillBuy(o)
      PROVE  BuysInv'
  <2> DEFINE x == [o EXCEPT !.side = "exit"]
  <2>1. AnswersSignal(x)
    <3>1. o \in OrderIds /\ "exit" \in Sides
      BY <1>0 DEF Sides
    <3> QED
      BY <3>1, LegTyped DEF AnswersSignal
  <2>2. sent' \subseteq sent \union {x} /\ signal' = signal /\ bar' = bar
    BY <1>1 DEF FillBuy
  <2> HIDE DEF x
  <2> QED
    BY <1>t, <2>1, <2>2, SentAnswers
<1>2. ASSUME NEW a \in Assets, NEW outcome, Buy(a, outcome)
      PROVE  BuysInv'
  <2> DEFINE o == ClientOrderId(a, "buy")
  <2>1. SignalBar(a) \in 1 .. bar /\ signal[a][SignalBar(a)] = "buy"
    BY <1>0, <1>2, SignalBarTyped DEF Buy
  <2>2. AnswersSignal(o)
    BY <2>1 DEF ClientOrderId, Order, AnswersSignal
  <2>3. Submit(o, outcome) /\ signal' = signal /\ bar' = bar
    BY <1>2 DEF Buy
  <2> HIDE DEF o
  <2>4. sent' \subseteq sent \union {o}
    BY <2>3, SubmitSends
  <2> QED
    BY <1>t, <2>2, <2>3, <2>4, SentAnswers
<1>3. ASSUME NEW a \in Assets, NEW profit \in {-1, 1}, NEW outcome, Sell(a, profit, outcome)
      PROVE  BuysInv'
  <2> DEFINE o == ClientOrderId(a, "sell")
  <2>1. SignalBar(a) \in 1 .. bar /\ signal[a][SignalBar(a)] = "sell"
    BY <1>0, <1>3, SignalBarTyped DEF Sell
  <2>2. AnswersSignal(o)
    BY <2>1 DEF ClientOrderId, Order, AnswersSignal
  <2>3. Submit(o, outcome) /\ signal' = signal /\ bar' = bar
    BY <1>3 DEF Sell
  <2> HIDE DEF o
  <2>4. sent' \subseteq sent \union {o}
    BY <2>3, SubmitSends
  <2> QED
    BY <1>t, <2>2, <2>3, <2>4, SentAnswers
<1>4. ASSUME NEW a \in Assets, NEW profit \in {-1, 1}, NEW lost \in BOOLEAN, Flatten(a, profit, lost)
      PROVE  BuysInv'
  <2> DEFINE o == Order(a, bar, "close")
  <2>1. AnswersSignal(o)
    BY DEF Order, AnswersSignal
  <2>2. sent' \subseteq sent \union {o} /\ signal' = signal /\ bar' = bar
    BY <1>4 DEF Flatten
  <2> HIDE DEF o
  <2> QED
    BY <1>t, <2>1, <2>2, SentAnswers
<1>5. ASSUME NEW a \in Assets, NEW outcome, PlaceTrailingStop(a, outcome)
      PROVE  BuysInv'
  <2> DEFINE o == Order(a, 0, "trail")
  <2>1. AnswersSignal(o)
    BY DEF Order, AnswersSignal
  <2>2. Submit(o, outcome) /\ signal' = signal /\ bar' = bar
    BY <1>5 DEF PlaceTrailingStop
  <2> HIDE DEF o
  <2>3. sent' \subseteq sent \union {o}
    BY <2>2, SubmitSends
  <2> QED
    BY <1>t, <2>1, <2>2, <2>3, SentAnswers
<1>6. CASE signal' = signal /\ bar' \in {bar, bar + 1} /\ sent' = sent
  BY <1>6, <1>t, SentKept
<1>7. CASE \/ NewBar \/ BeginTick \/ FetchPositions \/ FireKillSwitch \/ ReconcileFails
           \/ CountExit \/ EndTick \/ StartAnew \/ Die \/ UNCHANGED bookVars
  BY <1>6, <1>7 DEF NewBar, BeginTick, FetchPositions, FireKillSwitch, ReconcileFails, CountExit,
     EndTick, StartAnew, Die, bookVars, brokerSide
<1>8. CASE \/ \E b \in BOOLEAN : Reconcile(b) \/ JournalExit(b) \/ JournalBuy(b) \/ BeginFlatten(b)
           \/ \E a \in Assets : Skip(a) \/ FlattenFails(a)
           \/ \E o \in working, profit \in {-1, 1} : FillSell(o, profit)
  <2>1. signal' = signal /\ bar' = bar /\ sent' = sent
    BY <1>8 DEF Reconcile, JournalExit, JournalBuy, BeginFlatten, Skip, FlattenFails, FillSell, brokerSide
  <2> QED
    BY <1>6, <2>1
<1> QED
  BY <1>1, <1>2, <1>3, <1>4, <1>5, <1>7, <1>8 DEF BookNext

\* Every buy and sell the broker was sent answers a signal, whatever the journal lost.
THEOREM BuysAnswerSignals == BookSpec => []BuysInv
BY InitBuysInv, BuysStep, PTL DEF BookSpec

\* The buys of an asset inject into the bars that said buy.
LEMMA BuysInject == BuysInv => OneBuyPerSignal
<1> SUFFICES ASSUME BuysInv, NEW a \in Assets
             PROVE  Cardinality({o \in sent : o.asset = a /\ o.side = "buy"})
                      <= Cardinality({b \in 1 .. LastBar : signal[a][b] = "buy"})
  BY DEF OneBuyPerSignal
<1> DEFINE buys == {o \in sent : o.asset = a /\ o.side = "buy"}
           bars == {b \in 1 .. LastBar : signal[a][b] = "buy"}
           barOf == [o \in buys |-> o.bar]
<1>1. IsFiniteSet(bars)
  <2>1. IsFiniteSet(1 .. LastBar)
    BY FS_Interval, BookAssumption
  <2> QED
    BY <2>1, FS_Subset
<1>2. barOf \in [buys -> bars]
  <2>1. \A b \in 1 .. bar : b \in 1 .. LastBar
    BY BookAssumption DEF BuysInv, BookTypeOK
  <2> QED
    BY <2>1 DEF BuysInv, AnswersSignal
<1>3. \A o, p \in buys : o.bar = p.bar => o = p
  BY OrdersEqual DEF BuysInv, BookTypeOK
<1>4. barOf \in Injection(buys, bars)
  <2> HIDE DEF bars
  <2>1. \A o, p \in buys : barOf[o] = barOf[p] => o = p
    BY <1>3
  <2> HIDE DEF barOf, buys
  <2> QED
    BY <1>2, <2>1 DEF Injection, IsInjective
<1> HIDE DEF barOf, buys, bars
<1>5. Cardinality(buys) <= Cardinality(bars)
  BY <1>1, <1>4, FS_Injection
<1> QED
  BY <1>5 DEF buys, bars

\* A signal is bought at most once, whatever dies between the order and its journal row
\* (runSymbol of autoTrader.js, with the id it derives).
THEOREM SignalBoughtOnce == BookSpec => []OneBuyPerSignal
BY BuysAnswerSignals, BuysInject, PTL

(***************************************************************************)
(* The counters of the row                                                 *)
(***************************************************************************)

\* The inductive invariant: a tick under way has the row's own result in its copy.
CountersInv ==
    ~early => dailyPnl = added /\ (turn.at # "idle" => turn.pnl = dailyPnl)

LEMMA CountersStep == BookTypeOK /\ CountersInv /\ [BookNext]_bookVars => CountersInv'
<1> SUFFICES ASSUME BookTypeOK, CountersInv, [BookNext]_bookVars, ~early'
             PROVE  dailyPnl' = added' /\ (turn'.at # "idle" => turn'.pnl = dailyPnl')
  BY DEF CountersInv
<1>0. turn \in Turns /\ dailyPnl \in Int /\ added \in Int
  BY DEF BookTypeOK
<1>n. NoTurn.at = "idle"
  BY DEF NoTurn
<1>1. CASE BeginTick
  <2>1. [NoTurn EXCEPT !.at = "looking", !.pnl = dailyPnl, !.losses = consecutiveLosses].pnl = dailyPnl
    BY DEF NoTurn
  <2>2. ~early /\ dailyPnl' = dailyPnl /\ added' = added
    BY <1>1 DEF BeginTick
  <2> QED
    BY <1>1, <1>n, <2>1, <2>2 DEF BeginTick, CountersInv
<1>2. CASE CountExit
  <2>1. PICK x \in turn.pending : Count(x.pnl) /\ added' = added + x.pnl
    BY <1>2 DEF CountExit
  <2>2. turn.at = "trading" /\ early' = early
    BY <1>2 DEF CountExit
  <2>3. dailyPnl' = turn.pnl + x.pnl
    BY <2>1 DEF Count
  <2>4. turn'.pnl = dailyPnl'
    BY <1>0, <2>1 DEF Count, Turns
  <2> QED
    BY <2>1, <2>2, <2>3, <2>4 DEF CountersInv
<1>3. CASE StartAnew
  <2>1. turn.at = "idle" /\ turn' = turn
    BY <1>3 DEF StartAnew
  <2> QED
    BY <1>3, <2>1 DEF StartAnew
<1>4. CASE FireKillSwitch \/ EndTick \/ Die
  BY <1>4, <1>n DEF FireKillSwitch, EndTick, Die, CountersInv
<1>5. CASE /\ UNCHANGED <<dailyPnl, added, early>>
           /\ turn'.at # "idle" => turn.at # "idle" /\ turn'.pnl = turn.pnl
  BY <1>5 DEF CountersInv
<1>6. CASE \/ UNCHANGED bookVars \/ NewBar \/ \E o \in working : FillBuy(o)
           \/ \E o \in working, profit \in {-1, 1} : FillSell(o, profit)
           \/ \E a \in Assets, outcome \in {"placed", "refused", "lost"} : PlaceTrailingStop(a, outcome)
  BY <1>5, <1>6 DEF bookVars, NewBar, FillBuy, FillSell, PlaceTrailingStop
<1>7. CASE FetchPositions \/ ReconcileFails \/ \E b \in BOOLEAN : Reconcile(b)
  <2>1. turn.at # "idle" /\ turn'.pnl = turn.pnl
    BY <1>0, <1>7 DEF FetchPositions, ReconcileFails, Reconcile, Turns
  <2> QED
    BY <1>5, <1>7, <2>1 DEF FetchPositions, ReconcileFails, Reconcile
<1>8. CASE \E b \in BOOLEAN : JournalExit(b) \/ JournalBuy(b) \/ BeginFlatten(b)
  <2>1. turn.at # "idle" /\ turn'.pnl = turn.pnl
    BY <1>0, <1>8 DEF JournalExit, JournalBuy, BeginFlatten, Ready, Turns
  <2> QED
    BY <1>5, <1>8, <2>1 DEF JournalExit, JournalBuy, BeginFlatten
<1>9. ASSUME NEW a \in Assets, FlattenFails(a) \/ \E profit \in {-1, 1}, lost \in BOOLEAN : Flatten(a, profit, lost)
      PROVE  dailyPnl' = added' /\ (turn'.at # "idle" => turn'.pnl = dailyPnl')
  <2>1. turn.at = "closing" /\ Closed(a) /\ UNCHANGED <<dailyPnl, added, early>>
    BY <1>9 DEF FlattenFails, Flatten
  <2>2. turn' = NoTurn \/ turn'.pnl = turn.pnl
    BY <1>0, <2>1 DEF Closed, Turns
  <2> QED
    BY <1>5, <1>n, <2>1, <2>2
<1>10. ASSUME NEW a \in Assets, Skip(a)
       PROVE  dailyPnl' = added' /\ (turn'.at # "idle" => turn'.pnl = dailyPnl')
  <2>1. turn.at # "idle" /\ turn'.pnl = turn.pnl
    BY <1>0, <1>10 DEF Skip, Ready, Turns
  <2> QED
    BY <1>5, <1>10, <2>1 DEF Skip
<1>11. ASSUME NEW a \in Assets, NEW outcome, Buy(a, outcome) \/ \E profit \in {-1, 1} : Sell(a, profit, outcome)
       PROVE  dailyPnl' = added' /\ (turn'.at # "idle" => turn'.pnl = dailyPnl')
  <2>1. turn.at # "idle" /\ turn'.pnl = turn.pnl
    BY <1>0, <1>11 DEF Buy, Sell, Ready, Turns
  <2> QED
    BY <1>5, <1>11, <2>1 DEF Buy, Sell
<1> QED
  BY <1>1, <1>2, <1>3, <1>4, <1>6, <1>7, <1>8, <1>9, <1>10, <1>11 DEF BookNext

\* The counters of the row are those the ticks added to, unless a start came between
\* (tickInner, reconcileBracketFills and startAutoTrader).
THEOREM CountersStayRight == BookSpec => []CountersAgree
<1>1. BookInit => CountersInv
  BY DEF BookInit, CountersInv, NoTurn
<1>2. CountersInv => CountersAgree
  BY DEF CountersInv, CountersAgree
<1> QED
  BY <1>1, <1>2, CountersStep, BookTypes, PTL DEF BookSpec

(***************************************************************************)
(* Exits are counted once                                                  *)
(* While every market order fills before the next tick and the journal has *)
(* a row for each buy sent, an asset has at most one open row; when its    *)
(* units are sold, the newest fill is the one that no row tells of yet.    *)
(***************************************************************************)

Calm == ~early /\ ~disturbed

\* What a log l says of an asset a or an order o; p holds what is still to be journalled.
IsRow(l, i, kind, a) == i \in DOMAIN l /\ l[i].kind = kind /\ l[i].order.asset = a
SoldIn(l, o) == \E i \in DOMAIN l : l[i].kind = "sell" /\ l[i].order = o
BoughtIn(l, o) == \E i \in DOMAIN l : l[i].kind = "buy" /\ l[i].order = o
OpenRow(l, i, a) == IsRow(l, i, "buy", a) /\ \A j \in DOMAIN l : IsRow(l, j, "sell", a) => j < i
Awaited(l, p, a) == \E x \in p : x.kind = "buy" /\ x.order.asset = a /\ ~BoughtIn(l, x.order)
OpenBuy(l, p, a) == (\E i \in DOMAIN l : OpenRow(l, i, a)) \/ Awaited(l, p, a)

\* The newest fill of the asset came after its last sell row, and no row tells of it.
ExitAt(l, n, a) ==
    /\ IsRow(l, n, "fill", a) /\ ~SoldIn(l, l[n].order)
    /\ \A j \in DOMAIN l : IsRow(l, j, "fill", a) => j <= n
    /\ \A j \in DOMAIN l : IsRow(l, j, "sell", a) => j < n

\* The tick t has still to decide on the asset.
Unserved(t, a) ==
    \/ t.at \in {"looking", "reconciling"}
    \/ t.at = "trading" /\ a \in t.todo
    \/ t.at = "closing" /\ a \in t.seen

\* Only a tick that trades has something to journal or count, only one with brackets
\* reconciles; at most one thing at a time waits for its row or its count.
TurnWell ==
    /\ turn.at # "trading" => turn.exits = {} /\ turn.pending = {}
    /\ turn.at = "reconciling" => bracketed
    /\ \A x, y \in turn.pending : x = y
    /\ \A x \in turn.pending : x.kind \in {"buy", "sell"} /\ (x.kind = "buy" <=> x.order.side = "buy")
    /\ \A e \in turn.exits : e.fill.order.side # "buy"

\* A row says buy exactly if its order does, and an exit or stop that is told of has filled.
LogWell ==
    /\ \A i \in DOMAIN log : log[i].kind = "buy" <=> log[i].order.side = "buy"
    /\ \A i \in DOMAIN log : log[i].kind = "fill" => log[i].order \in filled
    /\ \A i \in DOMAIN log : log[i].order.side \in {"exit", "trail"} => log[i].order \in filled
    /\ \A e \in turn.exits : e.fill.order.side \in {"exit", "trail"} => e.fill.order \in filled

\* A filled order does not work, and the exit of a bracket comes from a buy that filled.
OrdersWell ==
    /\ working \intersect filled = {}
    /\ \A o \in sent : o.side = "exit" => [o EXCEPT !.side = "buy"] \in filled

NoneUnderWay ==
    \A a \in Assets : Unserved(turn, a) =>
        \A o \in working : o.asset = a => o.side \notin {"buy", "sell", "close"}

\* At most one unit is held or bought, and a tick that saw no position was right.
OneUnit ==
    /\ \A a \in Assets : held[a] <= 1
    /\ \A o \in working : o.side = "buy" => held[o.asset] = 0
    /\ \A o, q \in working : o.side = "buy" /\ q.side = "buy" /\ o.asset = q.asset => o = q
    /\ \A a \in Assets :
         turn.at \in {"reconciling", "trading"} /\ Unserved(turn, a) /\ a \notin turn.seen => held[a] = 0

\* The journal knows only orders that were sent, and every buy that was.
AllSent ==
    /\ \A i \in DOMAIN log : log[i].order \in sent
    /\ \A x \in turn.pending : x.order \in sent
    /\ \A e \in turn.exits : e.fill.order \in sent
    /\ \A o \in sent : o.side = "buy" => BoughtIn(log, o) \/ \E x \in turn.pending : x.order = o

\* A position, or one the tick saw and has still to decide on, was bought at a later bar
\* than those of the sells that no longer work.
Live(a) ==
    \/ held[a] > 0 \/ \E o \in working : o.side = "buy" /\ o.asset = a
    \/ turn.at \in {"reconciling", "trading"} /\ a \in turn.todo /\ a \in turn.seen
BoughtAfterSells(a, b) ==
    /\ signal[a][b] = "buy"
    /\ \A o \in sent \ working : o.asset = a /\ o.side = "sell" => o.bar < b
NewerThanSales == \A a \in Assets : Live(a) => \E b \in 1 .. bar : BoughtAfterSells(a, b)

\* What is counted has its row, once; what waits to be counted has its row and was not
\* counted; an exit that waits for its row has none, and there is one for an asset.
Booked ==
    /\ \A o \in OrderIds : counts[o] <= 1 /\ (counts[o] > 0 => SoldIn(log, o))
    /\ \A x \in turn.pending : x.kind = "sell" => SoldIn(log, x.order) /\ counts[x.order] = 0
    /\ \A e \in turn.exits : ~SoldIn(log, e.fill.order)
    /\ \A e, f \in turn.exits : e.fill.order.asset = f.fill.order.asset => e = f

OpenOne ==
    \A a \in Assets :
        /\ \A i, j \in DOMAIN log : OpenRow(log, i, a) /\ OpenRow(log, j, a) => i = j
        /\ Awaited(log, turn.pending, a) => \A i \in DOMAIN log : ~OpenRow(log, i, a)

\* The units of an open buy are held, or on their way, or were sold by the newest fill.
Unsold(a) == held[a] > 0 \/ \E o \in working : o.asset = a /\ o.side = "buy"
ExitIsDue ==
    \A a \in Assets :
        OpenBuy(log, turn.pending, a) => Unsold(a) \/ \E n \in DOMAIN log : ExitAt(log, n, a)

\* A tick that trades has matched the open buys of the assets without a position.
ExitIsTaken ==
    \A a \in Assets :
        turn.at = "trading" /\ a \in turn.todo /\ a \notin turn.seen /\ OpenBuy(log, turn.pending, a)
          => \E e \in turn.exits : e.fill.order.asset = a

\* A sale that is journalled before it fills leaves no open buy.
SaleCloses ==
    \A o \in working :
        o.side \in {"sell", "close"} /\ SoldIn(log, o) => ~OpenBuy(log, turn.pending, o.asset)

\* The inductive invariant.
BookInv ==
    /\ BuysInv /\ TurnWell /\ LogWell /\ OrdersWell
    /\ Calm => NoneUnderWay /\ OneUnit /\ AllSent /\ NewerThanSales /\ Booked
    /\ Calm /\ bracketed => OpenOne /\ ExitIsDue /\ ExitIsTaken /\ SaleCloses

-----------------------------------------------------------------------------

\* What an entry e adds to a log l.
Adds(l, e, m) ==
    /\ \A i, k, a : IsRow(m, i, k, a) <=>
         IsRow(l, i, k, a) \/ (i = Len(l) + 1 /\ e.kind = k /\ e.order.asset = a)
    /\ \A i, k, a : IsRow(l, i, k, a) => i \in Nat /\ i < Len(l) + 1 /\ m[i] = l[i]
    /\ \A o : SoldIn(m, o) <=> SoldIn(l, o) \/ (e.kind = "sell" /\ e.order = o)
    /\ \A o : BoughtIn(m, o) <=> BoughtIn(l, o) \/ (e.kind = "buy" /\ e.order = o)

LEMMA EntryAdded ==
    ASSUME NEW l \in Seq(Entries), NEW e \in Entries, NEW m, m = Append(l, e)
    PROVE  Adds(l, e, m)
<1>1. /\ DOMAIN l = 1 .. Len(l) /\ DOMAIN m = 1 .. Len(l) + 1 /\ Len(l) \in Nat
      /\ \A i \in 1 .. Len(l) : m[i] = l[i]
      /\ m[Len(l) + 1] = e
  BY AppendedIs
<1>2. \A i : i \in DOMAIN m <=> i \in DOMAIN l \/ i = Len(l) + 1
  BY <1>1
<1>3. \A i \in DOMAIN l : i \in Nat /\ i < Len(l) + 1 /\ m[i] = l[i]
  BY <1>1
<1> QED
  BY ONLY <1>1, <1>2, <1>3 DEF Adds, IsRow, SoldIn, BoughtIn

\* A fill opens and closes nothing, and is the newest of its asset.
LEMMA FillAdded ==
    ASSUME NEW l \in Seq(Entries), NEW e \in Entries, NEW m, m = Append(l, e), e.kind = "fill"
    PROVE  /\ \A i, a : OpenRow(m, i, a) <=> OpenRow(l, i, a)
           /\ \A p, a : Awaited(m, p, a) <=> Awaited(l, p, a)
           /\ \A p, a : OpenBuy(m, p, a) <=> OpenBuy(l, p, a)
           /\ ~SoldIn(l, e.order) => ExitAt(m, Len(l) + 1, e.order.asset)
           /\ \A n, a : a # e.order.asset /\ ExitAt(l, n, a) => ExitAt(m, n, a)
<1>1. /\ DOMAIN l = 1 .. Len(l) /\ DOMAIN m = 1 .. Len(l) + 1 /\ Len(l) \in Nat
      /\ m[Len(l) + 1] = e
  BY AppendedIs
<1>a. Adds(l, e, m)
  BY EntryAdded
<1>2. /\ \A i, k, a : IsRow(m, i, k, a) <=>
                 IsRow(l, i, k, a) \/ (i = Len(l) + 1 /\ e.kind = k /\ e.order.asset = a)
      /\ \A i, k, a : IsRow(l, i, k, a) => i \in Nat /\ i < Len(l) + 1 /\ m[i] = l[i]
      /\ \A o : SoldIn(m, o) <=> SoldIn(l, o)
      /\ \A o : BoughtIn(m, o) <=> BoughtIn(l, o)
  <2>1. e.kind = "fill"
    OBVIOUS
  <2> QED
    BY ONLY <1>a, <2>1 DEF Adds
<1>3. \A i, a : OpenRow(m, i, a) <=> OpenRow(l, i, a)
  <2>1. \A i, a : IsRow(m, i, "buy", a) <=> IsRow(l, i, "buy", a)
    BY <1>2
  <2>2. \A i, a : IsRow(m, i, "sell", a) <=> IsRow(l, i, "sell", a)
    BY <1>2
  <2>3. \A i, k, a : IsRow(l, i, k, a) => i \in DOMAIN l
    BY DEF IsRow
  <2>4. \A i, k, a : IsRow(m, i, k, a) => i \in DOMAIN m
    BY DEF IsRow
  <2> QED
    BY ONLY <2>1, <2>2, <2>3, <2>4 DEF OpenRow
<1>4. \A p, a : Awaited(m, p, a) <=> Awaited(l, p, a)
  BY <1>2 DEF Awaited
<1>5. \A p, a : OpenBuy(m, p, a) <=> OpenBuy(l, p, a)
  <2>1. \A i, a : OpenRow(l, i, a) => i \in DOMAIN l
    BY DEF OpenRow, IsRow
  <2>2. \A i, a : OpenRow(m, i, a) => i \in DOMAIN m
    BY DEF OpenRow, IsRow
  <2> QED
    BY ONLY <1>3, <1>4, <2>1, <2>2 DEF OpenBuy
<1>6. ASSUME ~SoldIn(l, e.order) PROVE ExitAt(m, Len(l) + 1, e.order.asset)
  <2>1. IsRow(m, Len(l) + 1, "fill", e.order.asset)
    BY <1>2
  <2>2. ~SoldIn(m, m[Len(l) + 1].order)
    BY <1>1, <1>2, <1>6
  <2>3. \A j \in DOMAIN m : j <= Len(l) + 1
    BY <1>1
  <2>4. \A j \in DOMAIN m : IsRow(m, j, "sell", e.order.asset) => j < Len(l) + 1
    BY <1>2
  <2> QED
    BY <2>1, <2>2, <2>3, <2>4 DEF ExitAt
<1>7. ASSUME NEW n, NEW a, a # e.order.asset, ExitAt(l, n, a) PROVE ExitAt(m, n, a)
  <2>1. IsRow(l, n, "fill", a) /\ ~SoldIn(l, l[n].order)
    BY <1>7 DEF ExitAt
  <2>2. IsRow(m, n, "fill", a) /\ ~SoldIn(m, m[n].order)
    BY <1>2, <2>1
  <2>3. \A j, k : IsRow(m, j, k, a) => IsRow(l, j, k, a)
    BY <1>2, <1>7
  <2>4. \A j, k : IsRow(l, j, k, a) => j \in DOMAIN l
    BY DEF IsRow
  <2> QED
    BY <1>7, <2>2, <2>3, <2>4 DEF ExitAt
<1> QED
  BY <1>3, <1>4, <1>5, <1>6, <1>7

\* A sell row closes what was open of its asset.
LEMMA SellAdded ==
    ASSUME NEW l \in Seq(Entries), NEW e \in Entries, NEW m, m = Append(l, e), e.kind = "sell"
    PROVE  /\ \A i, a : OpenRow(m, i, a) <=> OpenRow(l, i, a) /\ a # e.order.asset
           /\ \A p, a : Awaited(m, p, a) <=> Awaited(l, p, a)
           /\ \A n, a : a # e.order.asset /\ ExitAt(l, n, a) => ExitAt(m, n, a)
<1>1. /\ DOMAIN l = 1 .. Len(l) /\ DOMAIN m = 1 .. Len(l) + 1 /\ Len(l) \in Nat
      /\ m[Len(l) + 1] = e
  BY AppendedIs
<1>a. Adds(l, e, m)
  BY EntryAdded
<1>2. /\ \A i, k, a : IsRow(m, i, k, a) <=>
                 IsRow(l, i, k, a) \/ (i = Len(l) + 1 /\ e.kind = k /\ e.order.asset = a)
      /\ \A i, k, a : IsRow(l, i, k, a) => i \in Nat /\ i < Len(l) + 1 /\ m[i] = l[i]
      /\ \A o : SoldIn(m, o) <=> SoldIn(l, o) \/ e.order = o
      /\ \A o : BoughtIn(m, o) <=> BoughtIn(l, o)
  <2>1. e.kind = "sell"
    OBVIOUS
  <2> QED
    BY ONLY <1>a, <2>1 DEF Adds
<1>3. /\ \A i, k, a : IsRow(l, i, k, a) => i \in DOMAIN l
      /\ \A i, k, a : IsRow(m, i, k, a) => i \in DOMAIN m
  BY DEF IsRow
<1>4. ASSUME NEW i, NEW a PROVE OpenRow(m, i, a) <=> OpenRow(l, i, a) /\ a # e.order.asset
  <2>1. IsRow(m, i, "buy", a) <=> IsRow(l, i, "buy", a)
    BY <1>2
  <2>2. CASE a = e.order.asset
    <3>1. IsRow(m, Len(l) + 1, "sell", a) /\ Len(l) + 1 \in DOMAIN m
      BY <1>2, <1>3, <2>2
    <3>2. IsRow(l, i, "buy", a) => ~ (Len(l) + 1 < i)
      BY <1>1, <1>2
    <3> QED
      BY <2>1, <2>2, <3>1, <3>2 DEF OpenRow
  <2>3. CASE a # e.order.asset
    <3>1. \A j : IsRow(m, j, "sell", a) <=> IsRow(l, j, "sell", a)
      BY <1>2, <2>3
    <3> QED
      BY ONLY <1>3, <2>1, <2>3, <3>1 DEF OpenRow
  <2> QED
    BY <2>2, <2>3
<1>5. \A p, a : Awaited(m, p, a) <=> Awaited(l, p, a)
  BY <1>2 DEF Awaited
<1>6. ASSUME NEW n, NEW a, a # e.order.asset, ExitAt(l, n, a) PROVE ExitAt(m, n, a)
  <2>1. IsRow(l, n, "fill", a) /\ ~SoldIn(l, l[n].order)
    BY <1>6 DEF ExitAt
  <2>2. l[n].order.asset = a
    BY <2>1 DEF IsRow
  <2>3. IsRow(m, n, "fill", a) /\ ~SoldIn(m, m[n].order)
    BY <1>2, <1>6, <2>1, <2>2
  <2>4. \A j, k : IsRow(m, j, k, a) => IsRow(l, j, k, a)
    BY <1>2, <1>6
  <2> QED
    BY <1>3, <1>6, <2>3, <2>4 DEF ExitAt
<1> QED
  BY <1>4, <1>5, <1>6

\* A buy row is open.
LEMMA BuyAdded ==
    ASSUME NEW l \in Seq(Entries), NEW e \in Entries, NEW m, m = Append(l, e), e.kind = "buy"
    PROVE  /\ \A i, a : OpenRow(m, i, a) <=> OpenRow(l, i, a) \/ (i = Len(l) + 1 /\ a = e.order.asset)
           /\ \A n, a : ExitAt(l, n, a) => ExitAt(m, n, a)
<1>1. /\ DOMAIN l = 1 .. Len(l) /\ DOMAIN m = 1 .. Len(l) + 1 /\ Len(l) \in Nat
  BY AppendedIs
<1>a. Adds(l, e, m)
  BY EntryAdded
<1>2. /\ \A i, k, a : IsRow(m, i, k, a) <=>
                 IsRow(l, i, k, a) \/ (i = Len(l) + 1 /\ e.kind = k /\ e.order.asset = a)
      /\ \A i, k, a : IsRow(l, i, k, a) => i \in Nat /\ i < Len(l) + 1 /\ m[i] = l[i]
      /\ \A o : SoldIn(m, o) <=> SoldIn(l, o)
  <2>1. e.kind = "buy"
    OBVIOUS
  <2> QED
    BY ONLY <1>a, <2>1 DEF Adds
<1>3. /\ \A i, k, a : IsRow(l, i, k, a) => i \in DOMAIN l
      /\ \A i, k, a : IsRow(m, i, k, a) => i \in DOMAIN m
  BY DEF IsRow
<1>4. \A j, a : IsRow(m, j, "sell", a) <=> IsRow(l, j, "sell", a)
  BY <1>2
<1>5. ASSUME NEW i, NEW a
      PROVE  OpenRow(m, i, a) <=> OpenRow(l, i, a) \/ (i = Len(l) + 1 /\ a = e.order.asset)
  <2>1. IsRow(m, i, "buy", a) <=> IsRow(l, i, "buy", a) \/ (i = Len(l) + 1 /\ a = e.order.asset)
    BY <1>2
  <2>2. \A j : IsRow(l, j, "sell", a) => j < Len(l) + 1
    BY <1>2
  <2> QED
    BY ONLY <1>3, <1>4, <2>1, <2>2 DEF OpenRow
<1>6. ASSUME NEW n, NEW a, ExitAt(l, n, a) PROVE ExitAt(m, n, a)
  <2>1. IsRow(l, n, "fill", a) /\ ~SoldIn(l, l[n].order)
    BY <1>6 DEF ExitAt
  <2>2. IsRow(m, n, "fill", a) /\ ~SoldIn(m, m[n].order)
    BY <1>2, <2>1
  <2>3. \A j : IsRow(m, j, "fill", a) => IsRow(l, j, "fill", a)
    BY <1>2
  <2> QED
    BY <1>3, <1>4, <1>6, <2>2, <2>3 DEF ExitAt
<1> QED
  BY <1>5, <1>6

\* What the types say of the book's parts.
LEMMA BookFacts ==
    ASSUME BookTypeOK
    PROVE  /\ bar \in Nat /\ bar \in 1 .. LastBar /\ bar \in 0 .. LastBar
           /\ working \subseteq sent /\ filled \subseteq sent /\ sent \subseteq OrderIds
           /\ working \subseteq OrderIds
           /\ \A o \in OrderIds : o.asset \in Assets /\ o.side \in Sides /\ counts[o] \in Nat
           /\ \A a \in Assets : held[a] \in Nat
           /\ log \in Seq(Entries)
           /\ \A i \in DOMAIN log : log[i] \in Entries /\ log[i].order \in OrderIds
           /\ turn.seen \subseteq Assets /\ turn.todo \subseteq Assets
           /\ \A x \in turn.pending : x \in Entries /\ x.order \in OrderIds
           /\ \A e \in turn.exits : e.fill \in Entries /\ e.fill.order \in OrderIds
<1>1. /\ bar \in Nat /\ bar \in 1 .. LastBar /\ bar \in 0 .. LastBar
      /\ working \subseteq sent /\ filled \subseteq sent /\ sent \subseteq OrderIds
  BY BookAssumption DEF BookTypeOK
<1>2. \A o \in OrderIds : o.asset \in Assets /\ o.side \in Sides /\ counts[o] \in Nat
  BY DEF BookTypeOK, OrderIds, Sides
<1>3. (\A a \in Assets : held[a] \in Nat) /\ log \in Seq(Entries) /\ turn \in Turns
  BY DEF BookTypeOK
<1>4. \A x \in Entries : x.order \in OrderIds
  BY DEF Entries
<1>5. /\ turn.seen \subseteq Assets /\ turn.todo \subseteq Assets
      /\ \A x \in turn.pending : x \in Entries
      /\ \A e \in turn.exits : e.fill \in Entries
  BY <1>3 DEF Turns, Exits
<1>6. \A i \in DOMAIN log : log[i] \in Entries
  BY <1>3
<1> QED
  BY <1>1, <1>2, <1>3, <1>4, <1>5, <1>6

\* What is awaited depends only on the buys that wait for their row.
LEMMA AwaitedDepends ==
    ASSUME NEW l, NEW p, NEW q, \A x : x.kind = "buy" => (x \in p <=> x \in q)
    PROVE  \A a : (Awaited(l, p, a) <=> Awaited(l, q, a)) /\ (OpenBuy(l, p, a) <=> OpenBuy(l, q, a))
<1>1. \A a : Awaited(l, p, a) <=> Awaited(l, q, a)
  BY DEF Awaited
<1> QED
  BY <1>1 DEF OpenBuy

\* The invariant is preserved by a step that moves only the tick, if the tick forgets no
\* buy, knows the positions right, and matches the open buys before it trades.
LEMMA TurnMoves ==
    ASSUME BookInv, BuysInv', TurnWell', Calm' => Calm,
           UNCHANGED <<log, working, filled, sent, held, bar, signal, bracketed>>,
           \A e \in turn'.exits : e.fill.order.side \in {"exit", "trail"} => e.fill.order \in filled,
           Calm' => /\ NoneUnderWay' /\ AllSent' /\ Booked'
                    /\ \A a \in Assets : turn'.at \in {"reconciling", "trading"} /\ Unserved(turn', a) /\ a \notin turn'.seen
                                           => held[a] = 0
                    /\ \A a \in Assets : turn'.at \in {"reconciling", "trading"} /\ a \in turn'.todo /\ a \in turn'.seen => Live(a)
                    /\ \A x : x.kind = "buy" => (x \in turn'.pending <=> x \in turn.pending)
                    /\ bracketed => ExitIsTaken'
    PROVE  BookInv'
<1>1. LogWell' /\ OrdersWell'
  BY DEF BookInv, LogWell, OrdersWell
<1>2. ASSUME Calm' PROVE OneUnit' /\ NewerThanSales'
  <2>1. OneUnit /\ NewerThanSales
    BY <1>2 DEF BookInv
  <2>2. OneUnit'
    BY <1>2, <2>1 DEF OneUnit
  <2>3. \A a \in Assets : Live(a)' => Live(a)
    BY <1>2 DEF Live
  <2>4. \A a, b : BoughtAfterSells(a, b)' <=> BoughtAfterSells(a, b)
    BY DEF BoughtAfterSells
  <2>5. NewerThanSales'
    BY <2>1, <2>3, <2>4 DEF NewerThanSales
  <2> QED
    BY <2>2, <2>5
<1>3. ASSUME Calm', bracketed PROVE OpenOne' /\ ExitIsDue' /\ SaleCloses'
  <2>1. OpenOne /\ ExitIsDue /\ SaleCloses
    BY <1>3 DEF BookInv
  <2>2. \A a : /\ Awaited(log, turn.pending, a) <=> Awaited(log, turn'.pending, a)
               /\ OpenBuy(log, turn.pending, a) <=> OpenBuy(log, turn'.pending, a)
    BY <1>3, AwaitedDepends
  <2>3. OpenOne'
    BY <2>1, <2>2 DEF OpenOne
  <2>4. \A a : Unsold(a)' <=> Unsold(a)
    BY DEF Unsold
  <2>5. ExitIsDue'
    BY <2>1, <2>2, <2>4 DEF ExitIsDue
  <2>6. SaleCloses'
    BY <2>1, <2>2 DEF SaleCloses
  <2> QED
    BY <2>3, <2>5, <2>6
<1> QED
  BY <1>1, <1>2, <1>3 DEF BookInv

-----------------------------------------------------------------------------

\* A tick begins without an order under way, or the state is no longer calm.
LEMMA BeginTickKeeps == ASSUME BookInv, BuysInv', BeginTick PROVE BookInv'
<1>1. /\ UNCHANGED <<log, working, filled, sent, held, bar, signal, bracketed, counts, disturbed>>
      /\ turn.at = "idle" /\ (early => early')
      /\ ~early' => \A o \in working : o.side \notin {"buy", "sell", "close"}
  BY DEF BeginTick, brokerSide
<1>2. /\ turn'.at \in {"idle", "looking"} /\ turn'.exits = {} /\ turn'.pending = {}
      /\ turn'.todo = {} /\ turn'.seen = {}
  BY DEF BeginTick, NoTurn
<1>3. turn.pending = {} /\ turn.exits = {}
  BY <1>1 DEF BookInv, TurnWell
<1>4. TurnWell'
  BY <1>2 DEF TurnWell
<1>5. ASSUME Calm' PROVE Calm /\ NoneUnderWay' /\ AllSent' /\ Booked' /\ ExitIsTaken'
  <2>1. Calm /\ AllSent /\ Booked
    BY <1>1, <1>5 DEF Calm, BookInv
  <2>2. NoneUnderWay'
    BY <1>1, <1>5 DEF Calm, NoneUnderWay
  <2>3. AllSent' /\ Booked'
    BY <1>1, <1>2, <1>3, <2>1 DEF AllSent, Booked
  <2>4. ExitIsTaken'
    BY <1>2 DEF ExitIsTaken
  <2> QED
    BY <2>1, <2>2, <2>3, <2>4
<1> QED
  BY <1>1, <1>2, <1>3, <1>4, <1>5, TurnMoves

\* The positions are those the broker has.
LEMMA FetchPositionsKeeps == ASSUME BookInv, BuysInv', FetchPositions PROVE BookInv'
<1>1. /\ UNCHANGED <<log, working, filled, sent, held, bar, signal, bracketed, counts, disturbed, early>>
      /\ turn.at = "looking"
  BY DEF FetchPositions, brokerSide
<1>2. /\ turn'.at = IF bracketed THEN "reconciling" ELSE "trading"
      /\ turn'.exits = turn.exits /\ turn'.pending = turn.pending
      /\ turn'.seen = {a \in Assets : held[a] > 0}
  BY DEF FetchPositions, BookInv, BuysInv, BookTypeOK, Turns
<1>3. turn.pending = {} /\ turn.exits = {}
  BY <1>1 DEF BookInv, TurnWell
<1>4. TurnWell'
  BY <1>1, <1>2, <1>3 DEF TurnWell
<1>5. \A a \in Assets : held[a] \in Nat
  BY BookFacts DEF BookInv, BuysInv
<1>6. ASSUME Calm' PROVE Calm /\ NoneUnderWay' /\ AllSent' /\ Booked' /\ (bracketed => ExitIsTaken')
  <2>1. Calm /\ AllSent /\ Booked /\ NoneUnderWay
    BY <1>1, <1>6 DEF Calm, BookInv
  <2>2. NoneUnderWay'
    BY <1>1, <2>1 DEF NoneUnderWay, Unserved
  <2>3. AllSent' /\ Booked'
    BY <1>1, <1>2, <1>3, <2>1 DEF AllSent, Booked
  <2>4. bracketed => ExitIsTaken'
    BY <1>2 DEF ExitIsTaken
  <2> QED
    BY <2>1, <2>2, <2>3, <2>4
<1>7. /\ \A a \in Assets : a \notin turn'.seen => held[a] = 0
      /\ \A a \in Assets : a \in turn'.seen => Live(a)
  BY <1>2, <1>5 DEF Live
<1> QED
  BY <1>1, <1>2, <1>3, <1>4, <1>6, <1>7, TurnMoves

\* A tick that ends, fails or is decided on an asset.
LEMMA TickShrinks ==
    ASSUME BookInv, BuysInv',
           UNCHANGED <<log, working, filled, sent, held, bar, signal, bracketed, counts>>,
           early => early', disturbed => disturbed',
           turn' = NoTurn \/ \E S, T \in SUBSET Assets : turn' = [turn EXCEPT !.seen = S, !.todo = T]
                           /\ T \subseteq turn.todo /\ S \subseteq turn.seen /\ (turn.at = "closing" \/ S = turn.seen),
           Calm' => \A x \in turn.pending : turn' = NoTurn => x.kind # "buy"
    PROVE  BookInv'
<1>t. turn \in Turns
  BY DEF BookInv, BuysInv, BookTypeOK
<1>1. CASE turn' = NoTurn
  <2>1. turn'.at = "idle" /\ turn'.exits = {} /\ turn'.pending = {}
    BY <1>1 DEF NoTurn
  <2>2. TurnWell' /\ NoneUnderWay' /\ ExitIsTaken'
    BY <2>1 DEF TurnWell, NoneUnderWay, Unserved, ExitIsTaken
  <2>3. ASSUME Calm' PROVE Calm /\ AllSent' /\ Booked'
    <3>1. Calm /\ AllSent /\ Booked /\ TurnWell /\ BookTypeOK
      BY <2>3 DEF Calm, BookInv, BuysInv
    <3>2. \A x \in turn.pending : x.order.side # "buy"
      BY <1>1, <2>3, <3>1 DEF TurnWell
    <3>3. AllSent'
      BY <2>1, <3>1, <3>2 DEF AllSent
    <3>4. Booked'
      BY <2>1, <3>1 DEF Booked
    <3> QED
      BY <3>1, <3>3, <3>4
  <2>4. Calm' => \A x : x.kind = "buy" => (x \in turn'.pending <=> x \in turn.pending)
    BY <1>1, <2>1
  <2>5. \A e \in turn'.exits : FALSE
    BY <2>1
  <2>6. \A a \in Assets : ~Unserved(turn', a) /\ turn'.at # "trading"
    BY <2>1 DEF Unserved
  <2> QED
    BY <2>1, <2>2, <2>3, <2>4, <2>5, <2>6, TurnMoves
<1>2. CASE turn' # NoTurn
  <2>1. PICK S, T \in SUBSET Assets : turn' = [turn EXCEPT !.seen = S, !.todo = T]
           /\ T \subseteq turn.todo /\ S \subseteq turn.seen /\ (turn.at = "closing" \/ S = turn.seen)
    BY <1>2
  <2>2. /\ turn'.at = turn.at /\ turn'.exits = turn.exits /\ turn'.pending = turn.pending
        /\ turn'.seen = S /\ turn'.todo = T
    BY <1>t, <2>1 DEF Turns
  <2>3. TurnWell'
    BY <2>2 DEF TurnWell, BookInv
  <2>4. \A a : Unserved(turn', a) => Unserved(turn, a)
    BY <2>1, <2>2 DEF Unserved
  <2>5. ASSUME Calm' PROVE Calm /\ NoneUnderWay' /\ AllSent' /\ Booked' /\ (bracketed => ExitIsTaken')
    <3>1. Calm /\ AllSent /\ Booked /\ NoneUnderWay /\ (bracketed => ExitIsTaken)
      BY <2>5 DEF Calm, BookInv
    <3>2. NoneUnderWay'
      BY <2>4, <3>1 DEF NoneUnderWay
    <3>3. AllSent' /\ Booked'
      BY <2>2, <3>1 DEF AllSent, Booked
    <3>4. bracketed => ExitIsTaken'
      BY <2>1, <2>2, <3>1 DEF ExitIsTaken
    <3> QED
      BY <3>1, <3>2, <3>3, <3>4
  <2>6. ASSUME Calm, NEW a \in Assets
        PROVE  /\ turn'.at \in {"reconciling", "trading"} /\ Unserved(turn', a) /\ a \notin turn'.seen => held[a] = 0
               /\ turn'.at \in {"reconciling", "trading"} /\ a \in turn'.todo /\ a \in turn'.seen => Live(a)
    <3>1. OneUnit
      BY <2>6 DEF BookInv
    <3> QED
      BY <2>1, <2>2, <2>4, <3>1 DEF OneUnit, Live
  <2>7. \A e \in turn'.exits : e.fill.order.side \in {"exit", "trail"} => e.fill.order \in filled
    BY <2>2 DEF BookInv, LogWell
  <2> QED
    BY <2>2, <2>3, <2>5, <2>6, <2>7, TurnMoves
<1> QED
  BY <1>1, <1>2

\* The steps that only shorten the tick.
LEMMA ShortensTick ==
    ASSUME BookInv, BuysInv',
           \/ FireKillSwitch \/ EndTick \/ StartAnew \/ Die \/ UNCHANGED bookVars
           \/ \E a \in Assets : Skip(a) \/ FlattenFails(a)
    PROVE  BookInv'
<1>t. turn \in Turns
  BY DEF BookInv, BuysInv, BookTypeOK
<1>0. UNCHANGED <<log, working, filled, sent, held, bar, signal, bracketed, counts>>
      /\ (early => early') /\ (disturbed => disturbed')
  <2>1. UNCHANGED <<log, working, filled, sent, held, bar, signal, bracketed, counts>>
    BY DEF FireKillSwitch, EndTick, StartAnew, Die, bookVars, Skip, FlattenFails, brokerSide
  <2>2. early' = early \/ StartAnew
    BY DEF FireKillSwitch, EndTick, Die, bookVars, Skip, FlattenFails
  <2>3. disturbed' = disturbed \/ Die
    BY DEF FireKillSwitch, EndTick, StartAnew, bookVars, Skip, FlattenFails
  <2>4. StartAnew => (early => early')
    BY DEF StartAnew
  <2>5. Die => (disturbed => disturbed')
    BY DEF Die
  <2> QED
    BY <2>1, <2>2, <2>3, <2>4, <2>5
<1>1. CASE FireKillSwitch \/ EndTick
  <2>1. turn.pending = {} /\ turn' = NoTurn
    BY <1>1 DEF FireKillSwitch, EndTick, Ready, BookInv, TurnWell
  <2> QED
    BY <1>0, <2>1, TickShrinks
<1>2. CASE StartAnew \/ UNCHANGED bookVars
  <2>1. turn' = turn
    BY <1>2 DEF StartAnew, bookVars
  <2> DEFINE S == turn.seen
             T == turn.todo
  <2>2. turn' = [turn EXCEPT !.seen = S, !.todo = T] /\ S \in SUBSET Assets /\ T \in SUBSET Assets
    BY <1>t, <2>1 DEF Turns
  <2>3. CASE turn = NoTurn
    BY <1>0, <2>1, <2>3, TickShrinks DEF NoTurn
  <2>4. CASE turn # NoTurn
    BY <1>0, <2>1, <2>2, <2>4, TickShrinks
  <2> QED
    BY <2>3, <2>4
<1>3. CASE Die
  <2>1. turn' = NoTurn /\ (Calm' => \A x \in turn.pending : x.kind # "buy")
    BY <1>3 DEF Die, Calm
  <2> QED
    BY <1>0, <2>1, TickShrinks
<1>4. ASSUME NEW a \in Assets, Skip(a) PROVE BookInv'
  <2> DEFINE S == turn.seen
             T == turn.todo \ {a}
  <2>1. turn' = [turn EXCEPT !.seen = S, !.todo = T] /\ S \in SUBSET Assets /\ T \in SUBSET Assets
    BY <1>t, <1>4 DEF Turns, Skip
  <2>2. turn.pending = {}
    BY <1>4 DEF Skip, Ready
  <2> QED
    BY <1>0, <2>1, <2>2, TickShrinks
<1>5. ASSUME NEW a \in Assets, FlattenFails(a) PROVE BookInv'
  <2> DEFINE S == turn.seen \ {a}
             T == turn.todo
  <2>1. turn.at = "closing" /\ turn.pending = {}
    BY <1>5 DEF FlattenFails, BookInv, TurnWell
  <2>2. S \in SUBSET Assets /\ T \in SUBSET Assets
    BY <1>t DEF Turns
  <2>3. turn' = NoTurn \/ turn' = [turn EXCEPT !.seen = S, !.todo = T]
    BY <1>t, <1>5 DEF Turns, FlattenFails, Closed
  <2> QED
    BY <1>0, <2>1, <2>2, <2>3, TickShrinks
<1> QED
  BY <1>1, <1>2, <1>3, <1>4, <1>5

\* A reconciliation that fails disturbs the book.
LEMMA ReconcileFailsKeeps == ASSUME BookInv, BuysInv', ReconcileFails PROVE BookInv'
<1>t. turn \in Turns
  BY DEF BookInv, BuysInv, BookTypeOK
<1>1. /\ UNCHANGED <<log, working, filled, sent, held, bar, signal, bracketed, counts>> /\ disturbed'
      /\ turn.at = "reconciling" /\ turn' = [turn EXCEPT !.at = "trading"]
  BY DEF ReconcileFails, brokerSide
<1>2. /\ turn.exits = {} /\ turn.pending = {} /\ turn'.exits = {} /\ turn'.pending = {} /\ turn'.at = "trading"
  BY <1>t, <1>1 DEF BookInv, TurnWell, Turns
<1>3. TurnWell'
  BY <1>2 DEF TurnWell
<1> QED
  BY <1>1, <1>2, <1>3, TurnMoves DEF Calm

\* What reconcileBracketFills matches: the row of each open buy of an asset without a
\* position, and the newest fill of the asset.
LEMMA Matches ==
    ASSUME BookInv, Calm, Reconcile(TRUE)
    PROVE  /\ turn.exits = {} /\ turn.pending = {} /\ bracketed
           /\ turn'.pending = {} /\ turn'.at = "trading" /\ turn'.seen = turn.seen /\ turn'.todo = turn.todo
           /\ \A e \in turn'.exits : \E a \in Assets \ turn.seen, i \in DOMAIN log, n \in DOMAIN log :
                 OpenRow(log, i, a) /\ ExitAt(log, n, a) /\ e = [row |-> i, fill |-> log[n]]
           /\ \A a \in Assets \ turn.seen, i \in DOMAIN log :
                 OpenRow(log, i, a) => \E n \in DOMAIN log :
                   ExitAt(log, n, a) /\ [row |-> i, fill |-> log[n]] \in turn'.exits
<1> DEFINE lastSell(a) == IF TRUE THEN Latest(Rows("sell", a)) ELSE 0
           fill(a) == Latest({i \in Rows("fill", a) : i > lastSell(a)})
           open == UNION {{i \in Rows("buy", a) : i > lastSell(a)} :
                            a \in {b \in Assets \ turn.seen : fill(b) > 0}}
           matched == {[row |-> i, fill |-> log[fill(log[i].order.asset)]] : i \in open}
<1>t. turn \in Turns /\ log \in Seq(Entries)
  BY DEF BookInv, BuysInv, BookTypeOK
<1>1. turn.at = "reconciling" /\ turn' = [turn EXCEPT !.at = "trading", !.exits = matched]
  BY DEF Reconcile
<1>2. turn.exits = {} /\ turn.pending = {} /\ bracketed
  BY <1>1 DEF BookInv, TurnWell
<1>n. DOMAIN log = 1 .. Len(log) /\ Len(log) \in Nat
  BY <1>t
<1>3. ASSUME NEW a, NEW i
      PROVE  i \in Rows("buy", a) /\ i > lastSell(a) <=> OpenRow(log, i, a)
  <2>1. /\ Latest(Rows("sell", a)) \in 0 .. Len(log)
        /\ Rows("sell", a) # {} => Latest(Rows("sell", a)) \in Rows("sell", a)
        /\ \A j \in Rows("sell", a) : j <= Latest(Rows("sell", a))
        /\ Latest(Rows("sell", a)) > 0 <=> Rows("sell", a) # {}
    <3>1. Rows("sell", a) \subseteq 1 .. Len(log)
      BY <1>n DEF Rows
    <3> QED
      BY ONLY <3>1, <1>n, LatestIs
  <2>2. \A j, k : j \in Rows(k, a) <=> IsRow(log, j, k, a)
    BY DEF Rows, IsRow
  <2>3. \A j, k : IsRow(log, j, k, a) => j \in 1 .. Len(log)
    BY <1>n DEF IsRow
  <2>4. lastSell(a) = Latest(Rows("sell", a))
    OBVIOUS
  <2> HIDE DEF lastSell
  <2>5. i \in 1 .. Len(log) => (i > lastSell(a) <=> \A j \in Rows("sell", a) : j < i)
    BY <1>n, <2>1, <2>2, <2>3, <2>4
  <2>6. OpenRow(log, i, a) <=> i \in Rows("buy", a) /\ \A j \in Rows("sell", a) : j < i
    BY <1>n, <2>2, <2>3 DEF OpenRow
  <2> QED
    BY <2>2, <2>3, <2>5, <2>6
<1>4. ASSUME NEW a \in Assets \ turn.seen, NEW i, OpenRow(log, i, a)
      PROVE  fill(a) \in DOMAIN log /\ ExitAt(log, fill(a), a) /\ fill(a) > 0
  <2>1. NoneUnderWay /\ OneUnit /\ ExitIsDue
    BY <1>2 DEF BookInv
  <2>2. Unserved(turn, a)
    BY <1>1 DEF Unserved
  <2>3. held[a] = 0 /\ \A o \in working : o.asset = a => o.side # "buy"
    BY <1>1, <2>1, <2>2 DEF NoneUnderWay, OneUnit
  <2>4. ~Unsold(a)
    BY <2>3 DEF Unsold
  <2>5. OpenBuy(log, turn.pending, a)
    BY <1>4 DEF OpenBuy, OpenRow, IsRow
  <2>6. PICK n \in DOMAIN log : ExitAt(log, n, a)
    BY <2>1, <2>4, <2>5 DEF ExitIsDue
  <2> DEFINE fills == {j \in Rows("fill", a) : j > lastSell(a)}
  <2>7. fills \subseteq 1 .. Len(log)
    BY <1>n DEF Rows
  <2>8. n > lastSell(a)
    <3>1. Rows("sell", a) \subseteq 1 .. Len(log) /\ \A j \in Rows("sell", a) : j < n
      BY <1>n, <2>6 DEF Rows, ExitAt, IsRow
    <3>2. lastSell(a) = Latest(Rows("sell", a)) /\ n \in 1 .. Len(log)
      BY <1>n
    <3> HIDE DEF lastSell
    <3>3. Latest(Rows("sell", a)) \in 0 .. Len(log) /\
          (Latest(Rows("sell", a)) > 0 => Latest(Rows("sell", a)) \in Rows("sell", a))
      BY ONLY <3>1, <1>n, LatestIs
    <3> QED
      BY <1>n, <3>1, <3>2, <3>3
  <2>9. n \in fills /\ \A j \in fills : j <= n
    BY <2>6, <2>8 DEF ExitAt, IsRow, Rows
  <2>10. fill(a) = Latest(fills)
    OBVIOUS
  <2> HIDE DEF fill, fills, lastSell
  <2>11. Latest(fills) \in fills /\ n <= Latest(fills)
    BY <1>n, <2>7, <2>9, LatestIs
  <2>12. Latest(fills) = n
    BY <1>n, <2>7, <2>9, <2>11
  <2> QED
    BY <1>n, <2>6, <2>10, <2>12
<1>5. ASSUME NEW e \in matched
      PROVE  \E a \in Assets \ turn.seen, i \in DOMAIN log, n \in DOMAIN log :
                 OpenRow(log, i, a) /\ ExitAt(log, n, a) /\ e = [row |-> i, fill |-> log[n]]
  <2>1. PICK i \in open : e = [row |-> i, fill |-> log[fill(log[i].order.asset)]]
    OBVIOUS
  <2>2. PICK a \in Assets \ turn.seen : i \in Rows("buy", a) /\ i > lastSell(a)
    OBVIOUS
  <2> HIDE DEF fill, lastSell, open, matched
  <2>3. OpenRow(log, i, a)
    BY <1>3, <2>2
  <2>4. i \in DOMAIN log /\ log[i].order.asset = a
    BY <2>2 DEF Rows
  <2>5. fill(a) \in DOMAIN log /\ ExitAt(log, fill(a), a)
    BY <1>4, <2>3
  <2> QED
    BY <2>1, <2>3, <2>4, <2>5
<1>6. ASSUME NEW a \in Assets \ turn.seen, NEW i \in DOMAIN log, OpenRow(log, i, a)
      PROVE  \E n \in DOMAIN log : ExitAt(log, n, a) /\ [row |-> i, fill |-> log[n]] \in matched
  <2>1. fill(a) \in DOMAIN log /\ ExitAt(log, fill(a), a) /\ fill(a) > 0
    BY <1>4, <1>6
  <2>2. i \in Rows("buy", a) /\ i > lastSell(a)
    BY <1>3, <1>6
  <2>3. log[i].order.asset = a
    BY <2>2 DEF Rows
  <2>4. i \in open
    <3> HIDE DEF fill, lastSell
    <3> QED
      BY <2>1, <2>2
  <2> HIDE DEF fill, lastSell, open
  <2>5. [row |-> i, fill |-> log[fill(a)]] \in matched
    BY <2>3, <2>4
  <2> HIDE DEF matched
  <2> QED
    BY <2>1, <2>5
<1> HIDE DEF fill, lastSell, open, matched
<1>7. /\ turn'.at = "trading" /\ turn'.exits = matched /\ turn'.pending = {}
      /\ turn'.seen = turn.seen /\ turn'.todo = turn.todo
  BY <1>t, <1>1, <1>2 DEF Turns
<1> QED
  BY <1>2, <1>5, <1>6, <1>7

\* Whatever was read, an exit is a fill of the log.
LEMMA MatchesFills ==
    ASSUME BookInv, NEW read \in BOOLEAN, Reconcile(read)
    PROVE  /\ turn'.pending = {} /\ turn'.at = "trading"
           /\ \A e \in turn'.exits : \E n \in DOMAIN log : log[n].kind = "fill" /\ e.fill = log[n]
<1> DEFINE lastSell(a) == IF read THEN Latest(Rows("sell", a)) ELSE 0
           fill(a) == Latest({i \in Rows("fill", a) : i > lastSell(a)})
           open == UNION {{i \in Rows("buy", a) : i > lastSell(a)} :
                            a \in {b \in Assets \ turn.seen : fill(b) > 0}}
           matched == {[row |-> i, fill |-> log[fill(log[i].order.asset)]] : i \in open}
<1>t. turn \in Turns /\ log \in Seq(Entries)
  BY DEF BookInv, BuysInv, BookTypeOK
<1>1. turn.at = "reconciling" /\ turn' = [turn EXCEPT !.at = "trading", !.exits = matched]
  BY DEF Reconcile
<1>2. turn.pending = {}
  BY <1>1 DEF BookInv, TurnWell
<1>3. ASSUME NEW e \in matched PROVE \E n \in DOMAIN log : log[n].kind = "fill" /\ e.fill = log[n]
  <2>1. PICK i \in open : e = [row |-> i, fill |-> log[fill(log[i].order.asset)]]
    OBVIOUS
  <2>2. PICK b \in Assets : fill(b) > 0 /\ i \in Rows("buy", b)
    OBVIOUS
  <2>3. log[i].order.asset = b
    BY <2>2 DEF Rows
  <2> DEFINE fills == {j \in Rows("fill", b) : j > lastSell(b)}
  <2>4. fills \subseteq DOMAIN log /\ \A j \in fills : log[j].kind = "fill"
    BY DEF Rows
  <2>5. fill(b) = Latest(fills)
    OBVIOUS
  <2> HIDE DEF fills, fill, lastSell, open, matched
  <2>6. fills # {}
    BY <2>2, <2>5 DEF Latest
  <2>7. fills \subseteq 1 .. Len(log) /\ Len(log) \in Nat
    BY <1>t, <2>4
  <2>8. Latest(fills) \in fills
    BY <2>6, <2>7, LatestIs
  <2> QED
    BY <2>1, <2>3, <2>4, <2>5, <2>8
<1> HIDE DEF matched
<1>4. turn'.at = "trading" /\ turn'.exits = matched /\ turn'.pending = {}
  BY <1>t, <1>1, <1>2 DEF Turns
<1> QED
  BY <1>3, <1>4

LEMMA ReconcileKeeps == ASSUME BookInv, BuysInv', NEW read \in BOOLEAN, Reconcile(read) PROVE BookInv'
<1>1. /\ UNCHANGED <<log, working, filled, sent, held, bar, signal, bracketed, counts, early>>
      /\ (disturbed => disturbed') /\ (~read => disturbed') /\ turn.at = "reconciling"
  BY DEF Reconcile, brokerSide
<1>2. /\ turn'.pending = {} /\ turn'.at = "trading"
      /\ \A e \in turn'.exits : \E n \in DOMAIN log : log[n].kind = "fill" /\ e.fill = log[n]
  BY MatchesFills
<1>3. /\ \A e \in turn'.exits : e.fill.order.side # "buy"
      /\ \A e \in turn'.exits : e.fill.order \in filled
  BY <1>2 DEF BookInv, LogWell
<1>4. TurnWell'
  BY <1>2, <1>3 DEF TurnWell
<1>5. turn.pending = {}
  BY <1>1 DEF BookInv, TurnWell
<1>6. ASSUME Calm' PROVE Calm /\ NoneUnderWay' /\ AllSent' /\ Booked' /\ ExitIsTaken'
  <2>1. Calm /\ read = TRUE
    BY <1>1, <1>6 DEF Calm
  <2>2. NoneUnderWay /\ AllSent /\ Booked /\ OpenOne /\ bracketed
    BY <1>1, <2>1 DEF BookInv, TurnWell
  <2>3. NoneUnderWay'
    BY <1>1, <2>2 DEF NoneUnderWay, Unserved
  <2>4. AllSent'
    BY <1>1, <1>2, <1>5, <2>2 DEF AllSent
  <2>m. Reconcile(TRUE)
    BY <2>1
  <2>5. ASSUME NEW e \in turn'.exits
        PROVE  \E i \in DOMAIN log, n \in DOMAIN log :
                 OpenRow(log, i, e.fill.order.asset) /\ ExitAt(log, n, e.fill.order.asset) /\ e = [row |-> i, fill |-> log[n]]
    <3>1. PICK a \in Assets \ turn.seen, i \in DOMAIN log, n \in DOMAIN log :
                 OpenRow(log, i, a) /\ ExitAt(log, n, a) /\ e = [row |-> i, fill |-> log[n]]
      BY <2>1, <2>m, Matches
    <3>2. e.fill.order.asset = a
      BY <3>1 DEF ExitAt, IsRow
    <3> QED
      BY <3>1, <3>2
  <2>6. \A e \in turn'.exits : ~SoldIn(log, e.fill.order)
    BY <2>5 DEF ExitAt
  <2>7. ASSUME NEW e \in turn'.exits, NEW f \in turn'.exits, e.fill.order.asset = f.fill.order.asset
        PROVE  e = f
    <3> DEFINE a == e.fill.order.asset
    <3>1. PICK i \in DOMAIN log, n \in DOMAIN log :
                 OpenRow(log, i, a) /\ ExitAt(log, n, a) /\ e = [row |-> i, fill |-> log[n]]
      BY <2>5
    <3>2. PICK j \in DOMAIN log, m \in DOMAIN log :
                 OpenRow(log, j, a) /\ ExitAt(log, m, a) /\ f = [row |-> j, fill |-> log[m]]
      BY <2>5, <2>7
    <3>3. a \in Assets /\ DOMAIN log \subseteq Nat
      <4>1. a = log[n].order.asset
        BY <3>1
      <4> QED
        BY <4>1, BookFacts DEF BookInv, BuysInv
    <3> HIDE DEF a
    <3>4. i = j
      BY <2>2, <3>1, <3>2, <3>3 DEF OpenOne
    <3>5. n <= m /\ m <= n
      BY <3>1, <3>2 DEF ExitAt
    <3>6. n = m
      BY <3>3, <3>5
    <3> QED
      BY <3>1, <3>2, <3>4, <3>6
  <2>8. Booked'
    BY <1>1, <1>2, <2>2, <2>6, <2>7 DEF Booked
  <2>9. ASSUME NEW a \in Assets, a \notin turn'.seen, OpenBuy(log, turn'.pending, a)
        PROVE  \E e \in turn'.exits : e.fill.order.asset = a
    <3>1. PICK i \in DOMAIN log : OpenRow(log, i, a)
      BY <1>2, <2>9 DEF OpenBuy, Awaited
    <3>2. a \notin turn.seen
      BY <2>1, <2>9, <2>m, Matches
    <3>3. PICK n \in DOMAIN log : ExitAt(log, n, a) /\ [row |-> i, fill |-> log[n]] \in turn'.exits
      BY <2>1, <2>m, <3>1, <3>2, Matches
    <3>4. log[n].order.asset = a
      BY <3>3 DEF ExitAt, IsRow
    <3> QED
      BY <3>3, <3>4
  <2>10. ExitIsTaken'
    BY <1>1, <2>9 DEF ExitIsTaken
  <2> QED
    BY <2>1, <2>3, <2>4, <2>8, <2>10
<1>7. ASSUME Calm'
      PROVE  /\ \A a \in Assets : a \notin turn'.seen => held[a] = 0
             /\ \A a \in Assets : a \in turn'.todo /\ a \in turn'.seen => Live(a)
             /\ \A x : x.kind = "buy" => (x \in turn'.pending <=> x \in turn.pending)
  <2>1. Calm /\ read = TRUE
    BY <1>1, <1>7 DEF Calm
  <2>2. Reconcile(TRUE) /\ OneUnit
    BY <2>1 DEF BookInv
  <2>3. turn'.seen = turn.seen /\ turn'.todo = turn.todo
    BY <2>1, <2>2, Matches
  <2>4. \A a \in Assets : Unserved(turn, a)
    BY <1>1 DEF Unserved
  <2>5. \A a \in Assets : a \notin turn'.seen => held[a] = 0
    BY <1>1, <2>2, <2>3, <2>4 DEF OneUnit
  <2>6. \A a \in Assets : a \in turn'.todo /\ a \in turn'.seen => Live(a)
    BY <1>1, <2>3 DEF Live
  <2> QED
    BY <1>2, <1>5, <2>5, <2>6
<1> QED
  BY <1>1, <1>2, <1>3, <1>4, <1>6, <1>7, TurnMoves

\* What waits to be counted has its row and was not counted before.
LEMMA CountExitKeeps == ASSUME BookInv, BuysInv', CountExit PROVE BookInv'
<1>t. turn \in Turns /\ counts \in [OrderIds -> Nat]
  BY DEF BookInv, BuysInv, BookTypeOK
<1>1. PICK x \in turn.pending :
        x.kind = "sell" /\ Count(x.pnl) /\ counts' = [counts EXCEPT ![x.order] = @ + 1]
  BY DEF CountExit
<1>2. /\ UNCHANGED <<log, working, filled, sent, held, bar, signal, bracketed, early, disturbed>>
      /\ turn.at = "trading"
  BY DEF CountExit, brokerSide
<1>3. /\ turn'.at = "trading" /\ turn'.exits = turn.exits /\ turn'.pending = {}
      /\ turn'.seen = turn.seen /\ turn'.todo = turn.todo
  BY <1>t, <1>1, <1>2 DEF Count, Turns
<1>4. TurnWell
  BY DEF BookInv
<1>5. TurnWell'
  BY <1>3, <1>4 DEF TurnWell
<1>6. \A y \in turn.pending : y = x
  BY <1>4 DEF TurnWell
<1>7. x.order \in OrderIds /\ x.order.side # "buy"
  BY <1>1, <1>4, BookFacts DEF TurnWell, BookInv, BuysInv
<1>8. \A y : y.kind = "buy" => (y \in turn'.pending <=> y \in turn.pending)
  BY <1>1, <1>3, <1>6
<1>9. ASSUME Calm' PROVE Calm /\ NoneUnderWay' /\ AllSent' /\ Booked' /\ (bracketed => ExitIsTaken')
  <2>1. Calm
    BY <1>2, <1>9 DEF Calm
  <2>2. NoneUnderWay /\ AllSent /\ Booked /\ (bracketed => ExitIsTaken)
    BY <2>1 DEF BookInv
  <2>3. NoneUnderWay'
    BY <1>2, <1>3, <2>2 DEF NoneUnderWay, Unserved
  <2>4. AllSent'
    BY <1>2, <1>3, <1>6, <1>7, <2>2 DEF AllSent
  <2>5. Booked'
    <3>1. SoldIn(log, x.order) /\ counts[x.order] = 0
      BY <1>1, <2>2 DEF Booked
    <3>2. \A o \in OrderIds : counts'[o] = IF o = x.order THEN 1 ELSE counts[o]
      BY <1>t, <1>1, <3>1
    <3>3. \A o \in OrderIds : counts'[o] <= 1 /\ (counts'[o] > 0 => SoldIn(log, o))
      BY <2>2, <3>1, <3>2 DEF Booked
    <3> QED
      BY <1>2, <1>3, <2>2, <3>3 DEF Booked
  <2>6. bracketed => ExitIsTaken'
    <3>1. \A a : OpenBuy(log, turn.pending, a) <=> OpenBuy(log, turn'.pending, a)
      BY <1>8, AwaitedDepends
    <3> QED
      BY <1>2, <1>3, <2>2, <3>1 DEF ExitIsTaken
  <2> QED
    BY <2>1, <2>3, <2>4, <2>5, <2>6
<1>10. ASSUME Calm, NEW a \in Assets
       PROVE  /\ turn'.at \in {"reconciling", "trading"} /\ Unserved(turn', a) /\ a \notin turn'.seen => held[a] = 0
              /\ turn'.at \in {"reconciling", "trading"} /\ a \in turn'.todo /\ a \in turn'.seen => Live(a)
  <2>1. OneUnit
    BY <1>10 DEF BookInv
  <2>2. Unserved(turn', a) <=> Unserved(turn, a)
    BY <1>2, <1>3 DEF Unserved
  <2> QED
    BY <1>2, <1>3, <2>1, <2>2 DEF OneUnit, Live
<1>11. \A e \in turn'.exits : e.fill.order.side \in {"exit", "trail"} => e.fill.order \in filled
  BY <1>3 DEF BookInv, LogWell
<1> QED
  BY <1>2, <1>3, <1>5, <1>8, <1>9, <1>10, <1>11, TurnMoves

LEMMA NewBarKeeps == ASSUME BookInv, BuysInv', NewBar PROVE BookInv'
<1>1. /\ UNCHANGED <<log, working, filled, sent, held, signal, bracketed, turn, counts, early, disturbed>>
      /\ bar' = bar + 1
  BY DEF NewBar, brokerSide
<1>2. bar \in Nat
  BY BookFacts DEF BookInv, BuysInv
<1>3. TurnWell' /\ LogWell' /\ OrdersWell'
  BY <1>1 DEF BookInv, TurnWell, LogWell, OrdersWell
<1>4. Calm' => Calm
  BY <1>1 DEF Calm
<1>5. ASSUME Calm PROVE NoneUnderWay' /\ OneUnit' /\ AllSent' /\ Booked'
  BY <1>1, <1>5 DEF BookInv, NoneUnderWay, OneUnit, AllSent, Booked
<1>6. ASSUME Calm PROVE NewerThanSales'
  <2>1. NewerThanSales
    BY <1>6 DEF BookInv
  <2>2. \A a : Live(a)' <=> Live(a)
    BY <1>1 DEF Live
  <2>3. \A a, b : BoughtAfterSells(a, b)' <=> BoughtAfterSells(a, b)
    BY <1>1 DEF BoughtAfterSells
  <2>4. 1 .. bar \subseteq 1 .. bar'
    BY <1>1, <1>2
  <2> QED
    BY <2>1, <2>2, <2>3, <2>4 DEF NewerThanSales
<1>7. ASSUME Calm, bracketed PROVE OpenOne' /\ ExitIsDue' /\ ExitIsTaken' /\ SaleCloses'
  <2>1. OpenOne /\ ExitIsDue /\ ExitIsTaken /\ SaleCloses
    BY <1>7 DEF BookInv
  <2>2. \A a : Unsold(a)' <=> Unsold(a)
    BY <1>1 DEF Unsold
  <2> QED
    BY <1>1, <2>1, <2>2 DEF OpenOne, ExitIsDue, ExitIsTaken, SaleCloses
<1> QED
  BY <1>1, <1>3, <1>4, <1>5, <1>6, <1>7 DEF BookInv

\* A buy that fills is of an asset that nothing is held of.
LEMMA FillBuyKeeps == ASSUME BookInv, BuysInv', NEW o \in working, FillBuy(o) PROVE BookInv'
<1> DEFINE x == [o EXCEPT !.side = "exit"]
<1>0. /\ BookTypeOK /\ o \in OrderIds /\ o.asset \in Assets
      /\ working \subseteq OrderIds /\ sent \subseteq OrderIds
      /\ held \in [Assets -> Nat] /\ filled \subseteq sent
  BY BookFacts DEF BookInv, BuysInv, BookTypeOK
<1>1. /\ UNCHANGED <<log, signal, bar, bracketed, turn, counts, early, disturbed>>
      /\ o.side = "buy" /\ filled' = filled \union {o} /\ held' = [held EXCEPT ![o.asset] = @ + 1]
      /\ \A w : w \in working' <=> (w \in working /\ w # o) \/ (bracketed /\ w = x)
      /\ \A w : w \in sent' <=> w \in sent \/ (bracketed /\ w = x)
  BY DEF FillBuy
<1>2. /\ x \in OrderIds /\ x.asset = o.asset /\ x.bar = o.bar /\ x.side = "exit"
      /\ [x EXCEPT !.side = "buy"] = o
  BY <1>0, <1>1 DEF OrderIds
<1> HIDE DEF x
<1>3. TurnWell' /\ LogWell'
  BY <1>1 DEF BookInv, TurnWell, LogWell
<1>4. OrdersWell'
  <2>1. OrdersWell
    BY DEF BookInv
  <2>2. x \notin filled
    BY <1>0, <1>2, <2>1 DEF OrdersWell
  <2>3. x # o
    BY <1>1, <1>2
  <2>4. working' \intersect filled' = {}
    BY <1>1, <2>1, <2>2, <2>3 DEF OrdersWell
  <2> QED
    BY <1>1, <1>2, <2>1, <2>4 DEF OrdersWell
<1>5. Calm' => Calm
  BY <1>1 DEF Calm
<1>6. ASSUME Calm PROVE NoneUnderWay' /\ OneUnit' /\ AllSent' /\ NewerThanSales' /\ Booked'
  <2>1. NoneUnderWay /\ OneUnit /\ AllSent /\ NewerThanSales /\ Booked
    BY <1>6 DEF BookInv
  <2>2. NoneUnderWay'
    BY <1>1, <1>2, <2>1 DEF NoneUnderWay
  <2>3. OneUnit'
    <3>1. held[o.asset] = 0 /\ \A w \in working : w.side = "buy" /\ w.asset = o.asset => w = o
      BY <1>1, <2>1 DEF OneUnit
    <3>2. \A a \in Assets : held'[a] = IF a = o.asset THEN 1 ELSE held[a]
      BY <1>0, <1>1, <3>1
    <3>3. \A a \in Assets : held'[a] <= 1
      BY <2>1, <3>2 DEF OneUnit
    <3>4. \A w \in working' : w.side = "buy" => w \in working /\ w.asset # o.asset /\ w.asset \in Assets
      <4>1. \A w \in working : w \in OrderIds /\ w.asset \in Assets
        BY <1>0, BookFacts
      <4> QED
        BY <1>1, <1>2, <3>1, <4>1
    <3>5. \A w \in working' : w.side = "buy" => held'[w.asset] = 0
      BY <2>1, <3>2, <3>4 DEF OneUnit
    <3>6. \A w, q \in working' : w.side = "buy" /\ q.side = "buy" /\ w.asset = q.asset => w = q
      BY <2>1, <3>4 DEF OneUnit
    <3>7. ASSUME NEW a \in Assets, turn'.at \in {"reconciling", "trading"}, Unserved(turn', a), a \notin turn'.seen
          PROVE  held'[a] = 0
      <4>1. Unserved(turn, a) /\ turn.at \in {"reconciling", "trading"} /\ a \notin turn.seen
        BY <1>1, <3>7
      <4>2. a # o.asset
        BY <1>1, <2>1, <4>1 DEF NoneUnderWay
      <4> QED
        BY <2>1, <3>2, <4>1, <4>2 DEF OneUnit
    <3> QED
      BY <3>3, <3>5, <3>6, <3>7 DEF OneUnit
  <2>4. AllSent'
    BY <1>1, <1>2, <2>1 DEF AllSent
  <2>5. NewerThanSales'
    <3>1. \A a \in Assets : Live(a)' => Live(a)
      BY <1>0, <1>1, <1>2 DEF Live
    <3>2. \A w : w \in sent' \ working' /\ w.side = "sell" => w \in sent \ working
      BY <1>1, <1>2
    <3>3. \A a, b : BoughtAfterSells(a, b) => BoughtAfterSells(a, b)'
      BY <1>1, <3>2 DEF BoughtAfterSells
    <3> QED
      BY <1>1, <2>1, <3>1, <3>3 DEF NewerThanSales
  <2>6. Booked'
    BY <1>1, <2>1 DEF Booked
  <2> QED
    BY <2>2, <2>3, <2>4, <2>5, <2>6
<1>7. ASSUME Calm, bracketed PROVE OpenOne' /\ ExitIsDue' /\ ExitIsTaken' /\ SaleCloses'
  <2>1. OpenOne /\ ExitIsDue /\ ExitIsTaken /\ SaleCloses
    BY <1>7 DEF BookInv
  <2>2. \A a \in Assets : Unsold(a) => Unsold(a)'
    BY <1>0, <1>1 DEF Unsold
  <2>3. OpenOne' /\ ExitIsTaken'
    BY <1>1, <2>1 DEF OpenOne, ExitIsTaken
  <2>4. ExitIsDue'
    BY <1>1, <2>1, <2>2 DEF ExitIsDue
  <2>5. SaleCloses'
    BY <1>1, <1>2, <2>1 DEF SaleCloses
  <2> QED
    BY <2>3, <2>4, <2>5
<1> QED
  BY <1>1, <1>3, <1>4, <1>5, <1>6, <1>7 DEF BookInv

\* A sell that fills is the newest fill, and no row told of it while a buy was open.
LEMMA FillSellKeeps ==
    ASSUME BookInv, BuysInv', NEW o \in working, NEW profit \in {-1, 1}, FillSell(o, profit)
    PROVE  BookInv'
<1> DEFINE e == [kind |-> "fill", order |-> o, pnl |-> profit]
<1>0. /\ BookTypeOK /\ o \in OrderIds /\ o.asset \in Assets /\ o.side \in Sides
      /\ working \subseteq OrderIds /\ sent \subseteq OrderIds /\ o \in sent
      /\ held \in [Assets -> Nat] /\ held[o.asset] \in Nat /\ log \in Seq(Entries)
  BY BookFacts DEF BookInv, BuysInv, BookTypeOK
<1>1. /\ UNCHANGED <<sent, signal, bar, bracketed, turn, counts, early, disturbed>>
      /\ o.side # "buy" /\ held[o.asset] > 0
      /\ filled' = filled \union {o} /\ held' = [held EXCEPT ![o.asset] = @ - 1]
      /\ log' = Append(log, e)
  BY DEF FillSell
<1>2. /\ \A w \in working' : w \in working /\ w # o
      /\ \A w \in working : w.side = "buy" => w \in working'
      /\ \A w \in working : w.asset # o.asset => w \in working'
  BY <1>1 DEF FillSell
<1>3. e \in Entries /\ e.kind = "fill" /\ e.order = o
  BY <1>0 DEF Entries
<1> HIDE DEF e
<1>4. Adds(log, e, log')
  BY <1>0, <1>1, <1>3, EntryAdded
<1>5. /\ DOMAIN log = 1 .. Len(log) /\ DOMAIN log' = 1 .. Len(log) + 1 /\ Len(log) \in Nat
      /\ \A i \in 1 .. Len(log) : log'[i] = log[i]
      /\ log'[Len(log) + 1] = e
  BY <1>0, <1>1, <1>3, AppendedIs
<1>6. \A i \in DOMAIN log' : (i \in DOMAIN log /\ log'[i] = log[i]) \/ log'[i] = e
  BY <1>5
<1>7. /\ \A i, a : OpenRow(log', i, a) <=> OpenRow(log, i, a)
      /\ \A p, a : Awaited(log', p, a) <=> Awaited(log, p, a)
      /\ \A p, a : OpenBuy(log', p, a) <=> OpenBuy(log, p, a)
      /\ ~SoldIn(log, o) => ExitAt(log', Len(log) + 1, o.asset)
      /\ \A n, a : a # o.asset /\ ExitAt(log, n, a) => ExitAt(log', n, a)
  BY <1>0, <1>1, <1>3, FillAdded
<1>8. /\ \A q : SoldIn(log', q) <=> SoldIn(log, q)
      /\ \A q : BoughtIn(log', q) <=> BoughtIn(log, q)
  BY <1>3, <1>4 DEF Adds
<1>9. TurnWell' /\ LogWell' /\ OrdersWell'
  <2>1. TurnWell /\ LogWell /\ OrdersWell
    BY DEF BookInv
  <2>2. TurnWell'
    BY <1>1, <2>1 DEF TurnWell
  <2>3. OrdersWell'
    BY <1>1, <1>2, <2>1 DEF OrdersWell
  <2>4. \A i \in DOMAIN log' : log'[i].kind = "buy" <=> log'[i].order.side = "buy"
    BY <1>1, <1>3, <1>6, <2>1 DEF LogWell
  <2>5. \A i \in DOMAIN log' : log'[i].kind = "fill" => log'[i].order \in filled'
    BY <1>1, <1>3, <1>6, <2>1 DEF LogWell
  <2>6. \A i \in DOMAIN log' : log'[i].order.side \in {"exit", "trail"} => log'[i].order \in filled'
    BY <1>1, <1>3, <1>6, <2>1 DEF LogWell
  <2>7. \A x \in turn'.exits : x.fill.order.side \in {"exit", "trail"} => x.fill.order \in filled'
    BY <1>1, <2>1 DEF LogWell
  <2>8. LogWell'
    BY <2>4, <2>5, <2>6, <2>7 DEF LogWell
  <2> QED
    BY <2>2, <2>3, <2>8
<1>10. Calm' => Calm
  BY <1>1 DEF Calm
<1>11. ASSUME Calm PROVE NoneUnderWay' /\ OneUnit' /\ AllSent' /\ NewerThanSales' /\ Booked'
  <2>1. NoneUnderWay /\ OneUnit /\ AllSent /\ NewerThanSales /\ Booked
    BY <1>11 DEF BookInv
  <2>2. NoneUnderWay'
    BY <1>1, <1>2, <2>1 DEF NoneUnderWay
  <2>h. \A a \in Assets : held'[a] = IF a = o.asset THEN 0 ELSE held[a]
    <3>1. held[o.asset] = 1
      BY <1>0, <1>1, <2>1 DEF OneUnit
    <3> QED
      BY <1>0, <1>1, <3>1
  <2>3. OneUnit'
    <3>1. \A w \in working' : w \in working /\ w.asset \in Assets
      BY <1>0, <1>2, BookFacts
    <3>2. \A a \in Assets : held[a] = 0 => held'[a] = 0
      BY <2>h
    <3>3. \A a \in Assets : held'[a] <= 1
      BY <2>1, <2>h DEF OneUnit
    <3>4. \A w \in working' : w.side = "buy" => held'[w.asset] = 0
      BY <2>1, <3>1, <3>2 DEF OneUnit
    <3>5. \A w, q \in working' : w.side = "buy" /\ q.side = "buy" /\ w.asset = q.asset => w = q
      BY <2>1, <3>1 DEF OneUnit
    <3>6. \A a \in Assets : turn'.at \in {"reconciling", "trading"} /\ Unserved(turn', a) /\ a \notin turn'.seen
             => held'[a] = 0
      BY <1>1, <2>1, <3>2 DEF OneUnit
    <3> QED
      BY <3>3, <3>4, <3>5, <3>6 DEF OneUnit
  <2>4. AllSent'
    <3>1. \A i \in DOMAIN log' : log'[i].order \in sent
      BY <1>0, <1>3, <1>6, <2>1 DEF AllSent
    <3> QED
      BY <1>1, <1>8, <2>1, <3>1 DEF AllSent
  <2>5. NewerThanSales'
    <3>1. \A w \in working : w.side = "buy" => w.asset # o.asset
      BY <1>1, <2>1 DEF OneUnit
    <3>2. ASSUME NEW a \in Assets, Live(a)'
          PROVE  Live(a) /\ \A w : w.asset = a /\ w.side = "sell" => (w \in working' <=> w \in working)
      <4>1. CASE a # o.asset
        <5>1. Live(a)
          BY <1>1, <1>2, <2>h, <3>2, <4>1 DEF Live
        <5> QED
          BY <1>2, <4>1, <5>1
      <4>2. CASE a = o.asset
        <5>1. held'[a] = 0 /\ \A w \in working' : w.side = "buy" => w.asset # a
          BY <1>2, <2>h, <3>1, <4>2
        <5>2. turn.at \in {"reconciling", "trading"} /\ a \in turn.todo /\ a \in turn.seen
          BY <1>1, <3>2, <5>1 DEF Live
        <5>3. Unserved(turn, a) /\ Live(a)
          BY <5>2 DEF Unserved, Live
        <5>4. \A w \in working : w.asset = a => w.side # "sell"
          BY <2>1, <5>3 DEF NoneUnderWay
        <5> QED
          BY <1>2, <5>3, <5>4
      <4> QED
        BY <4>1, <4>2
    <3>3. ASSUME NEW a \in Assets, Live(a)'
          PROVE  \E b \in 1 .. bar' : BoughtAfterSells(a, b)'
      <4>1. PICK b \in 1 .. bar : BoughtAfterSells(a, b)
        BY <2>1, <3>2, <3>3 DEF NewerThanSales
      <4>2. \A w : w \in sent' \ working' /\ w.asset = a /\ w.side = "sell" => w \in sent \ working
        BY <1>1, <3>2, <3>3
      <4>3. BoughtAfterSells(a, b)'
        BY <1>1, <4>1, <4>2 DEF BoughtAfterSells
      <4> QED
        BY <1>1, <4>3
    <3> QED
      BY <3>3 DEF NewerThanSales
  <2>6. Booked'
    BY <1>1, <1>8, <2>1 DEF Booked
  <2> QED
    BY <2>2, <2>3, <2>4, <2>5, <2>6
<1>12. ASSUME Calm, bracketed PROVE OpenOne' /\ ExitIsDue' /\ ExitIsTaken' /\ SaleCloses'
  <2>1. OpenOne /\ ExitIsDue /\ ExitIsTaken /\ SaleCloses
    BY <1>12 DEF BookInv
  <2>2. OpenOne'
    <3>1. \A i, a : OpenRow(log, i, a) => i \in DOMAIN log
      BY DEF OpenRow, IsRow
    <3> QED
      BY <1>1, <1>7, <2>1, <3>1 DEF OpenOne
  <2>3. ExitIsTaken'
    BY <1>1, <1>7, <2>1 DEF ExitIsTaken
  <2>4. SaleCloses'
    BY <1>1, <1>2, <1>7, <1>8, <2>1 DEF SaleCloses
  <2>5. ASSUME NEW a \in Assets, OpenBuy(log, turn.pending, a)
        PROVE  Unsold(a)' \/ \E n \in DOMAIN log' : ExitAt(log', n, a)
    <3>1. CASE a = o.asset
      <4>1. ~SoldIn(log, o)
        <5>1. SoldIn(log, o) /\ o.side \in {"exit", "trail"} => o \in filled
          BY DEF SoldIn, LogWell, BookInv
        <5>2. o \notin filled
          BY DEF OrdersWell, BookInv
        <5>3. SoldIn(log, o) => o.side \notin {"sell", "close"}
          BY <2>1, <2>5, <3>1 DEF SaleCloses
        <5> QED
          BY <1>0, <1>1, <5>1, <5>2, <5>3 DEF Sides
      <4>2. Len(log) + 1 \in DOMAIN log'
        BY <1>5
      <4> QED
        BY <1>7, <3>1, <4>1, <4>2
    <3>2. CASE a # o.asset
      <4>1. Unsold(a) \/ \E n \in DOMAIN log : ExitAt(log, n, a)
        BY <2>1, <2>5 DEF ExitIsDue
      <4>2. Unsold(a) => Unsold(a)'
        BY <1>0, <1>1, <1>2, <3>2 DEF Unsold
      <4>3. DOMAIN log \subseteq DOMAIN log'
        BY <1>5
      <4> QED
        BY <1>7, <3>2, <4>1, <4>2, <4>3
    <3> QED
      BY <3>1, <3>2
  <2>6. ExitIsDue'
    BY <1>1, <1>7, <2>5 DEF ExitIsDue
  <2> QED
    BY <2>2, <2>3, <2>4, <2>6
<1> QED
  BY <1>1, <1>9, <1>10, <1>11, <1>12 DEF BookInv

\* A row written of an order: what is left of the log's shape.
LEMMA RowKeepsLog ==
    ASSUME LogWell, log \in Seq(Entries), NEW e \in Entries, log' = log \/ log' = Append(log, e),
           e.kind \in {"buy", "sell"}, e.kind = "buy" <=> e.order.side = "buy",
           e.order.side \in {"exit", "trail"} => e.order \in filled,
           filled' = filled, turn'.exits \subseteq turn.exits
    PROVE  LogWell'
<1>1. \A i \in DOMAIN log' : (i \in DOMAIN log /\ log'[i] = log[i]) \/ log'[i] = e
  <2>1. CASE log' = log
    BY <2>1
  <2>2. CASE log' = Append(log, e)
    <3>1. /\ DOMAIN log = 1 .. Len(log) /\ DOMAIN log' = 1 .. Len(log) + 1 /\ Len(log) \in Nat
          /\ \A i \in 1 .. Len(log) : log'[i] = log[i]
          /\ log'[Len(log) + 1] = e
      BY <2>2, AppendedIs
    <3> QED
      BY <3>1
  <2> QED
    BY <2>1, <2>2
<1>2. \A i \in DOMAIN log' : log'[i].kind = "buy" <=> log'[i].order.side = "buy"
  BY <1>1 DEF LogWell
<1>3. \A i \in DOMAIN log' : log'[i].kind = "fill" => log'[i].order \in filled
  BY <1>1 DEF LogWell
<1>4. \A i \in DOMAIN log' : log'[i].order.side \in {"exit", "trail"} => log'[i].order \in filled
  BY <1>1 DEF LogWell
<1>5. \A x \in turn'.exits : x.fill.order.side \in {"exit", "trail"} => x.fill.order \in filled
  BY DEF LogWell
<1> QED
  BY <1>2, <1>3, <1>4, <1>5 DEF LogWell

\* What a sell row e changes of a log l.
Sells(l, e, m) ==
    /\ \A i \in DOMAIN m : (i \in DOMAIN l /\ m[i] = l[i]) \/ m[i] = e
    /\ DOMAIN l \subseteq DOMAIN m
    /\ \A o : SoldIn(m, o) <=> SoldIn(l, o) \/ o = e.order
    /\ \A o : BoughtIn(m, o) <=> BoughtIn(l, o)
    /\ \A i, a : OpenRow(m, i, a) => i \in DOMAIN m /\ i \in DOMAIN l /\ OpenRow(l, i, a) /\ a # e.order.asset

LEMMA SellRowKeeps ==
    ASSUME NEW l \in Seq(Entries), NEW e \in Entries, NEW m, m = Append(l, e), e.kind = "sell"
    PROVE  Sells(l, e, m)
<1>1. /\ DOMAIN l = 1 .. Len(l) /\ DOMAIN m = 1 .. Len(l) + 1 /\ Len(l) \in Nat
      /\ \A i \in 1 .. Len(l) : m[i] = l[i]
      /\ m[Len(l) + 1] = e
  BY AppendedIs
<1>2. \A i \in DOMAIN m : (i \in DOMAIN l /\ m[i] = l[i]) \/ m[i] = e
  BY <1>1
<1>3. DOMAIN l \subseteq DOMAIN m
  BY <1>1
<1>4. Adds(l, e, m)
  BY EntryAdded
<1>5. /\ \A o : SoldIn(m, o) <=> SoldIn(l, o) \/ o = e.order
      /\ \A o : BoughtIn(m, o) <=> BoughtIn(l, o)
  BY <1>4 DEF Adds
<1>6. \A i, a : OpenRow(m, i, a) => OpenRow(l, i, a) /\ a # e.order.asset
  BY SellAdded
<1>7. /\ \A i, a : OpenRow(l, i, a) => i \in DOMAIN l
      /\ \A i, a : OpenRow(m, i, a) => i \in DOMAIN m
  BY DEF OpenRow, IsRow
<1> QED
  BY <1>2, <1>3, <1>5, <1>6, <1>7 DEF Sells

\* An exit is journalled once, and closes what was open of its asset.
LEMMA JournalExitKeeps == ASSUME BookInv, BuysInv', NEW lost \in BOOLEAN, JournalExit(lost) PROVE BookInv'
<1>0. /\ BookTypeOK /\ turn \in Turns /\ log \in Seq(Entries)
      /\ \A o \in OrderIds : counts[o] \in Nat
  BY BookFacts DEF BookInv, BuysInv, BookTypeOK
<1>1. PICK x \in turn.exits :
        /\ Journal("sell", x.fill.order, x.fill.pnl, lost)
        /\ turn' = [turn EXCEPT !.exits = @ \ {x}, !.pending = {[x.fill EXCEPT !.kind = "sell"]}]
  BY DEF JournalExit
<1>2. /\ UNCHANGED <<sent, signal, bar, bracketed, working, filled, held, counts, early>>
      /\ turn.at = "trading" /\ turn.pending = {}
  BY DEF JournalExit, brokerSide
<1> DEFINE e == [kind |-> "sell", order |-> x.fill.order, pnl |-> x.fill.pnl]
<1>3. /\ x.fill \in Entries /\ x.fill.order \in OrderIds /\ e \in Entries
      /\ e.kind = "sell" /\ e.order = x.fill.order
      /\ [x.fill EXCEPT !.kind = "sell"] = e
  BY <1>0 DEF Turns, Exits, Entries
<1>j. /\ disturbed' = (disturbed \/ lost)
      /\ \/ lost /\ log' = log
         \/ log' = log /\ \E i \in DOMAIN log : log[i].kind \in {"buy", "sell"} /\ log[i].order = x.fill.order
         \/ log' = Append(log, e)
  BY <1>1, JournalWrites
<1> HIDE DEF e
<1>4. /\ turn'.at = "trading" /\ turn'.exits = turn.exits \ {x} /\ turn'.pending = {e}
      /\ turn'.seen = turn.seen /\ turn'.todo = turn.todo
  BY <1>0, <1>1, <1>2, <1>3 DEF Turns
<1>5. x.fill.order.side # "buy" /\ (x.fill.order.side \in {"exit", "trail"} => x.fill.order \in filled)
  BY DEF BookInv, TurnWell, LogWell
<1>6. TurnWell' /\ OrdersWell'
  <2>1. TurnWell /\ OrdersWell
    BY DEF BookInv
  <2>2. TurnWell'
    BY <1>3, <1>4, <1>5, <2>1 DEF TurnWell
  <2>3. OrdersWell'
    BY <1>2, <2>1 DEF OrdersWell
  <2> QED
    BY <2>2, <2>3
<1>7. LogWell'
  <2>1. LogWell /\ (log' = log \/ log' = Append(log, e)) /\ filled' = filled /\ turn'.exits \subseteq turn.exits
    BY <1>2, <1>4, <1>j DEF BookInv
  <2>2. e.kind \in {"buy", "sell"} /\ (e.kind = "buy" <=> e.order.side = "buy")
    BY <1>3, <1>5
  <2>3. e.order.side \in {"exit", "trail"} => e.order \in filled
    BY <1>3, <1>5
  <2> QED
    BY <1>0, <1>3, <2>1, <2>2, <2>3, RowKeepsLog
<1>8. ASSUME Calm'
      PROVE  /\ Calm /\ log' = Append(log, e) /\ ~SoldIn(log, x.fill.order)
             /\ NoneUnderWay /\ OneUnit /\ AllSent /\ NewerThanSales /\ Booked
             /\ bracketed => OpenOne /\ ExitIsDue /\ ExitIsTaken /\ SaleCloses
  <2>1. Calm /\ ~lost
    BY <1>2, <1>8, <1>j DEF Calm
  <2>2. /\ NoneUnderWay /\ OneUnit /\ AllSent /\ NewerThanSales /\ Booked
        /\ bracketed => OpenOne /\ ExitIsDue /\ ExitIsTaken /\ SaleCloses
    BY <2>1 DEF BookInv
  <2>3. ~SoldIn(log, x.fill.order)
    BY <2>2 DEF Booked
  <2>4. \A i \in DOMAIN log : log[i].kind \in {"buy", "sell"} => log[i].order # x.fill.order
    <3>1. \A i \in DOMAIN log : log[i].kind = "buy" => log[i].order.side = "buy"
      BY DEF BookInv, LogWell
    <3> QED
      BY <1>5, <2>3, <3>1 DEF SoldIn
  <2> QED
    BY <1>j, <2>1, <2>2, <2>3, <2>4
<1>9. ASSUME Calm' PROVE NoneUnderWay' /\ OneUnit' /\ AllSent' /\ NewerThanSales' /\ Booked'
  <2>0. /\ Calm /\ log' = Append(log, e) /\ ~SoldIn(log, x.fill.order)
        /\ NoneUnderWay /\ OneUnit /\ AllSent /\ NewerThanSales /\ Booked
    BY <1>8, <1>9
  <2>a. /\ \A i \in DOMAIN log' : (i \in DOMAIN log /\ log'[i] = log[i]) \/ log'[i] = e
        /\ \A o : SoldIn(log', o) <=> SoldIn(log, o) \/ o = e.order
        /\ \A o : BoughtIn(log', o) <=> BoughtIn(log, o)
    <3>1. Sells(log, e, log')
      BY <1>0, <1>3, <2>0, SellRowKeeps
    <3> QED
      BY <3>1 DEF Sells
  <2>1. NoneUnderWay' /\ OneUnit'
    BY <1>2, <1>4, <2>0 DEF NoneUnderWay, OneUnit, Unserved
  <2>2. AllSent'
    <3>1. e.order \in sent
      BY <1>3, <2>0 DEF AllSent
    <3> QED
      BY <1>2, <1>4, <2>0, <2>a, <3>1 DEF AllSent
  <2>3. NewerThanSales'
    <3>1. \A a \in Assets : Live(a)' => Live(a)
      BY <1>2, <1>4 DEF Live
    <3>2. \A a, b : BoughtAfterSells(a, b)' <=> BoughtAfterSells(a, b)
      BY <1>2 DEF BoughtAfterSells
    <3> QED
      BY <1>2, <2>0, <3>1, <3>2 DEF NewerThanSales
  <2>4. Booked'
    <3>1. \A o \in OrderIds : counts'[o] <= 1 /\ (counts'[o] > 0 => SoldIn(log', o))
      BY <1>2, <2>0, <2>a DEF Booked
    <3>2. counts[e.order] = 0 /\ SoldIn(log', e.order)
      <4>1. counts[e.order] \in Nat /\ ~ (counts[e.order] > 0)
        BY <1>0, <1>3, <2>0 DEF Booked
      <4> QED
        BY <2>a, <4>1
    <3>3. \A y \in turn'.exits : y.fill.order # e.order
      BY <1>3, <1>4, <2>0 DEF Booked
    <3>4. \A y \in turn'.exits : ~SoldIn(log', y.fill.order)
      BY <1>4, <2>0, <2>a, <3>3 DEF Booked
    <3>5. \A y, z \in turn'.exits : y.fill.order.asset = z.fill.order.asset => y = z
      BY <1>4, <2>0 DEF Booked
    <3> QED
      BY <1>2, <1>4, <3>1, <3>2, <3>4, <3>5 DEF Booked
  <2> QED
    BY <2>1, <2>2, <2>3, <2>4
<1>10. ASSUME Calm', bracketed PROVE OpenOne' /\ ExitIsDue' /\ ExitIsTaken' /\ SaleCloses'
  <2>0. /\ log' = Append(log, e) /\ OpenOne /\ ExitIsDue /\ ExitIsTaken /\ SaleCloses
    BY <1>8, <1>10
  <2>a. /\ DOMAIN log \subseteq DOMAIN log'
        /\ \A o : SoldIn(log', o) <=> SoldIn(log, o) \/ o = e.order
        /\ \A i, a : OpenRow(log', i, a) =>
             i \in DOMAIN log' /\ i \in DOMAIN log /\ OpenRow(log, i, a) /\ a # e.order.asset
    <3>1. Sells(log, e, log')
      BY <1>0, <1>3, <2>0, SellRowKeeps
    <3> QED
      BY <3>1 DEF Sells
  <2>b. \A a : ~Awaited(log', turn'.pending, a)
    BY <1>3, <1>4 DEF Awaited
  <2>c. \A a : OpenBuy(log', turn'.pending, a) => OpenBuy(log, turn.pending, a) /\ a # e.order.asset
    BY <2>a, <2>b DEF OpenBuy
  <2>d. \A n, a : a # e.order.asset /\ ExitAt(log, n, a) => ExitAt(log', n, a)
    BY <1>0, <1>3, <2>0, SellAdded
  <2>1. OpenOne'
    BY <2>0, <2>a, <2>b DEF OpenOne
  <2>2. ExitIsDue'
    <3>1. \A a : Unsold(a)' <=> Unsold(a)
      BY <1>2 DEF Unsold
    <3> QED
      BY <2>0, <2>a, <2>c, <2>d, <3>1 DEF ExitIsDue
  <2>3. ExitIsTaken'
    BY <1>2, <1>3, <1>4, <2>0, <2>c DEF ExitIsTaken
  <2>4. SaleCloses'
    BY <1>2, <1>3, <2>0, <2>a, <2>c DEF SaleCloses
  <2> QED
    BY <2>1, <2>2, <2>3, <2>4
<1> QED
  BY <1>2, <1>6, <1>7, <1>8, <1>9, <1>10 DEF BookInv

\* What a buy row e changes of a log l.
Buys(l, e, m) ==
    /\ \A i \in DOMAIN m : (i \in DOMAIN l /\ m[i] = l[i]) \/ (i = Len(l) + 1 /\ m[i] = e)
    /\ DOMAIN l \subseteq DOMAIN m
    /\ \A o : SoldIn(m, o) <=> SoldIn(l, o)
    /\ \A o : BoughtIn(m, o) <=> BoughtIn(l, o) \/ o = e.order
    /\ \A i, a : OpenRow(m, i, a) => OpenRow(l, i, a) \/ (i = Len(l) + 1 /\ a = e.order.asset)
    /\ \A i, a : OpenRow(l, i, a) => i \in DOMAIN l
    /\ \A n, a : ExitAt(l, n, a) => ExitAt(m, n, a)

LEMMA BuyRowKeeps ==
    ASSUME NEW l \in Seq(Entries), NEW e \in Entries, NEW m, m = Append(l, e), e.kind = "buy"
    PROVE  Buys(l, e, m)
<1>1. /\ DOMAIN l = 1 .. Len(l) /\ DOMAIN m = 1 .. Len(l) + 1 /\ Len(l) \in Nat
      /\ \A i \in 1 .. Len(l) : m[i] = l[i]
      /\ m[Len(l) + 1] = e
  BY AppendedIs
<1>2. \A i \in DOMAIN m : (i \in DOMAIN l /\ m[i] = l[i]) \/ (i = Len(l) + 1 /\ m[i] = e)
  BY <1>1
<1>3. DOMAIN l \subseteq DOMAIN m
  BY <1>1
<1>4. Adds(l, e, m)
  BY EntryAdded
<1>5. /\ \A o : SoldIn(m, o) <=> SoldIn(l, o)
      /\ \A o : BoughtIn(m, o) <=> BoughtIn(l, o) \/ o = e.order
  BY <1>4 DEF Adds
<1>6. /\ \A i, a : OpenRow(m, i, a) => OpenRow(l, i, a) \/ (i = Len(l) + 1 /\ a = e.order.asset)
      /\ \A n, a : ExitAt(l, n, a) => ExitAt(m, n, a)
  BY BuyAdded
<1>7. \A i, a : OpenRow(l, i, a) => i \in DOMAIN l
  BY DEF OpenRow, IsRow
<1> QED
  BY <1>2, <1>3, <1>5, <1>6, <1>7 DEF Buys

\* A buy is journalled once; the asset had no open row while it waited.
LEMMA JournalBuyKeeps == ASSUME BookInv, BuysInv', NEW lost \in BOOLEAN, JournalBuy(lost) PROVE BookInv'
<1>0. BookTypeOK /\ turn \in Turns /\ log \in Seq(Entries)
  BY DEF BookInv, BuysInv, BookTypeOK
<1>1. PICK x \in turn.pending : x.kind = "buy" /\ Journal("buy", x.order, 0, lost)
  BY DEF JournalBuy
<1>2. /\ UNCHANGED <<sent, signal, bar, bracketed, working, filled, held, counts, early>>
      /\ turn.at = "trading" /\ turn' = [turn EXCEPT !.pending = {}]
  BY DEF JournalBuy, brokerSide
<1> DEFINE e == [kind |-> "buy", order |-> x.order, pnl |-> 0]
<1>3. x.order \in OrderIds /\ e \in Entries /\ e.kind = "buy" /\ e.order = x.order
  BY <1>0 DEF Turns, Entries
<1>j. /\ disturbed' = (disturbed \/ lost)
      /\ \/ lost /\ log' = log
         \/ log' = log /\ \E i \in DOMAIN log : log[i].kind \in {"buy", "sell"} /\ log[i].order = x.order
         \/ ~lost /\ log' = Append(log, e)
  BY <1>1, JournalWrites
<1> HIDE DEF e
<1>4. /\ turn'.at = "trading" /\ turn'.exits = turn.exits /\ turn'.pending = {}
      /\ turn'.seen = turn.seen /\ turn'.todo = turn.todo
  BY <1>0, <1>2 DEF Turns
<1>5. x.order.side = "buy" /\ \A y \in turn.pending : y = x
  BY <1>1 DEF BookInv, TurnWell
<1>6. TurnWell' /\ OrdersWell'
  <2>1. TurnWell /\ OrdersWell
    BY DEF BookInv
  <2>2. TurnWell'
    BY <1>4, <2>1 DEF TurnWell
  <2>3. OrdersWell'
    BY <1>2, <2>1 DEF OrdersWell
  <2> QED
    BY <2>2, <2>3
<1>7. LogWell'
  <2>1. LogWell /\ (log' = log \/ log' = Append(log, e)) /\ filled' = filled /\ turn'.exits \subseteq turn.exits
    BY <1>2, <1>4, <1>j DEF BookInv
  <2>2. e.kind \in {"buy", "sell"} /\ (e.kind = "buy" <=> e.order.side = "buy")
    BY <1>3, <1>5
  <2>3. e.order.side \in {"exit", "trail"} => e.order \in filled
    BY <1>3, <1>5
  <2> QED
    BY <1>0, <1>3, <2>1, <2>2, <2>3, RowKeepsLog
<1>8. ASSUME Calm'
      PROVE  /\ Calm /\ ((log' = log /\ BoughtIn(log, x.order)) \/ log' = Append(log, e))
             /\ NoneUnderWay /\ OneUnit /\ AllSent /\ NewerThanSales /\ Booked
             /\ bracketed => OpenOne /\ ExitIsDue /\ ExitIsTaken /\ SaleCloses
  <2>1. Calm /\ ~lost
    BY <1>2, <1>8, <1>j DEF Calm
  <2>2. /\ NoneUnderWay /\ OneUnit /\ AllSent /\ NewerThanSales /\ Booked
        /\ bracketed => OpenOne /\ ExitIsDue /\ ExitIsTaken /\ SaleCloses
    BY <2>1 DEF BookInv
  <2>3. \A i \in DOMAIN log : log[i].order = x.order => log[i].kind = "buy"
    BY <1>5 DEF BookInv, LogWell
  <2>4. (\E i \in DOMAIN log : log[i].kind \in {"buy", "sell"} /\ log[i].order = x.order) => BoughtIn(log, x.order)
    BY <2>3 DEF BoughtIn
  <2> QED
    BY <1>j, <2>1, <2>2, <2>4
<1>k. \/ log' = log
      \/ /\ log' = Append(log, e)
         /\ \A i \in DOMAIN log' : (i \in DOMAIN log /\ log'[i] = log[i]) \/ (i = Len(log) + 1 /\ log'[i] = e)
         /\ DOMAIN log \subseteq DOMAIN log'
         /\ \A o : SoldIn(log', o) <=> SoldIn(log, o)
         /\ \A o : BoughtIn(log', o) <=> BoughtIn(log, o) \/ o = e.order
         /\ \A i, a : OpenRow(log', i, a) => OpenRow(log, i, a) \/ (i = Len(log) + 1 /\ a = e.order.asset)
         /\ \A i, a : OpenRow(log, i, a) => i \in DOMAIN log
         /\ \A n, a : ExitAt(log, n, a) => ExitAt(log', n, a)
  <2>1. log' = Append(log, e) => Buys(log, e, log')
    BY <1>0, <1>3, BuyRowKeeps
  <2> QED
    BY <1>j, <2>1 DEF Buys
<1>9. ASSUME Calm' PROVE NoneUnderWay' /\ OneUnit' /\ AllSent' /\ NewerThanSales' /\ Booked'
  <2>0. /\ NoneUnderWay /\ OneUnit /\ AllSent /\ NewerThanSales /\ Booked
        /\ (log' = log /\ BoughtIn(log, x.order)) \/ log' = Append(log, e)
    BY <1>8, <1>9
  <2>1. NoneUnderWay' /\ OneUnit'
    BY <1>2, <1>4, <2>0 DEF NoneUnderWay, OneUnit, Unserved
  <2>2. AllSent'
    <3>1. e.order \in sent
      BY <1>3, <2>0 DEF AllSent
    <3>2. \A i \in DOMAIN log' : log'[i].order \in sent
      BY <1>k, <2>0, <3>1 DEF AllSent
    <3>3. BoughtIn(log', x.order) /\ \A o : BoughtIn(log, o) => BoughtIn(log', o)
      BY <1>3, <1>k, <2>0
    <3>4. \A o \in sent : o.side = "buy" => BoughtIn(log', o)
      BY <1>5, <2>0, <3>3 DEF AllSent
    <3> QED
      BY <1>2, <1>4, <2>0, <3>2, <3>4 DEF AllSent
  <2>3. NewerThanSales'
    <3>1. \A a \in Assets : Live(a)' => Live(a)
      BY <1>2, <1>4 DEF Live
    <3>2. \A a, b : BoughtAfterSells(a, b)' <=> BoughtAfterSells(a, b)
      BY <1>2 DEF BoughtAfterSells
    <3> QED
      BY <1>2, <2>0, <3>1, <3>2 DEF NewerThanSales
  <2>4. Booked'
    <3>1. \A o : SoldIn(log', o) <=> SoldIn(log, o)
      BY <1>k
    <3> QED
      BY <1>2, <1>4, <2>0, <3>1 DEF Booked
  <2> QED
    BY <2>1, <2>2, <2>3, <2>4
<1>10. ASSUME Calm', bracketed PROVE OpenOne' /\ ExitIsDue' /\ ExitIsTaken' /\ SaleCloses'
  <2>0. /\ (log' = log /\ BoughtIn(log, x.order)) \/ log' = Append(log, e)
        /\ OpenOne /\ ExitIsDue /\ ExitIsTaken /\ SaleCloses
    BY <1>8, <1>10
  <2>b. \A a : ~Awaited(log', turn'.pending, a)
    BY <1>4 DEF Awaited
  <2>e. \A i, a : OpenRow(log', i, a) =>
          i \in DOMAIN log' /\ (OpenRow(log, i, a) \/ (i = Len(log) + 1 /\ a = x.order.asset
                                                       /\ log' = Append(log, e)))
    <3>1. \A i, a : OpenRow(log', i, a) => i \in DOMAIN log'
      BY DEF OpenRow, IsRow
    <3> QED
      BY <1>3, <1>k, <3>1
  <2>f. ASSUME log' = Append(log, e), ~BoughtIn(log, x.order)
        PROVE  Awaited(log, turn.pending, x.order.asset)
    BY <1>1, <2>f DEF Awaited
  <2>g. log' = log \/ ~BoughtIn(log, x.order)
    BY <1>1, <1>j, <1>3 DEF Journal, BoughtIn
  <2>o. \A i, a : OpenRow(log, i, a) => i \in DOMAIN log
    BY DEF OpenRow, IsRow
  <2>c. \A a : OpenBuy(log', turn'.pending, a) => OpenBuy(log, turn.pending, a)
    <3>1. ASSUME NEW a, OpenBuy(log', turn'.pending, a) PROVE OpenBuy(log, turn.pending, a)
      <4>1. PICK i : OpenRow(log', i, a)
        BY <2>b, <3>1 DEF OpenBuy
      <4>2. CASE OpenRow(log, i, a)
        BY <2>o, <4>2 DEF OpenBuy
      <4>3. CASE ~OpenRow(log, i, a)
        <5>1. log' # log
          BY <4>1, <4>3
        <5> QED
          BY <2>e, <2>f, <2>g, <4>1, <4>3, <5>1 DEF OpenBuy
      <4> QED
        BY <4>2, <4>3
    <3> QED
      BY <3>1
  <2>1. OpenOne'
    <3>1. ASSUME NEW a \in Assets, NEW i, NEW j, OpenRow(log', i, a), OpenRow(log', j, a)
          PROVE  i = j
      <4>1. CASE OpenRow(log, i, a) /\ OpenRow(log, j, a)
        BY <2>0, <2>o, <4>1 DEF OpenOne
      <4>2. CASE ~OpenRow(log, i, a) /\ ~OpenRow(log, j, a)
        BY <2>e, <3>1, <4>2
      <4>3. CASE (OpenRow(log, i, a) \/ OpenRow(log, j, a)) /\ ~ (OpenRow(log, i, a) /\ OpenRow(log, j, a))
        <5>1. log' # log /\ a = x.order.asset /\ log' = Append(log, e)
          BY <2>e, <3>1, <4>3
        <5>2. Awaited(log, turn.pending, a)
          BY <2>f, <2>g, <5>1
        <5>3. \A k : ~OpenRow(log, k, a)
          BY <2>0, <2>o, <5>2 DEF OpenOne
        <5> QED
          BY <4>3, <5>3
      <4> QED
        BY <4>1, <4>2, <4>3
    <3> QED
      BY <2>b, <3>1 DEF OpenOne
  <2>2. ExitIsDue'
    <3>1. \A a : Unsold(a)' <=> Unsold(a)
      BY <1>2 DEF Unsold
    <3>2. /\ DOMAIN log \subseteq DOMAIN log'
          /\ \A n, a : ExitAt(log, n, a) => ExitAt(log', n, a)
      BY <1>k
    <3> QED
      BY <2>0, <2>c, <3>1, <3>2 DEF ExitIsDue
  <2>3. ExitIsTaken'
    BY <1>2, <1>4, <2>0, <2>c DEF ExitIsTaken
  <2>4. SaleCloses'
    <3>1. \A o : SoldIn(log', o) <=> SoldIn(log, o)
      BY <1>k
    <3>2. \A o \in working : o.asset \in Assets
      BY <1>0, BookFacts
    <3> QED
      BY <1>2, <2>0, <2>c, <3>1, <3>2 DEF SaleCloses
  <2> QED
    BY <2>1, <2>2, <2>3, <2>4
<1> QED
  BY <1>2, <1>6, <1>7, <1>8, <1>9, <1>10 DEF BookInv

\* Cancelling the open orders cancels no market order: there is none.
LEMMA BeginFlattenKeeps ==
    ASSUME BookInv, BuysInv', NEW cancelled \in BOOLEAN, BeginFlatten(cancelled) PROVE BookInv'
<1>0. BookTypeOK /\ turn \in Turns /\ \A o \in working : o.asset \in Assets
  BY BookFacts DEF BookInv, BuysInv, BookTypeOK
<1>1. /\ UNCHANGED <<log, sent, signal, bar, bracketed, filled, held, counts, early, disturbed>>
      /\ turn.at = "trading" /\ turn.exits = {} /\ turn.pending = {} /\ turn.todo = Assets
      /\ working' \subseteq working /\ turn' = [turn EXCEPT !.at = "closing"]
  BY DEF BeginFlatten, Ready
<1>2. /\ turn'.at = "closing" /\ turn'.exits = {} /\ turn'.pending = {}
      /\ turn'.seen = turn.seen /\ turn'.todo = turn.todo
  BY <1>0, <1>1 DEF Turns
<1>3. TurnWell' /\ LogWell' /\ OrdersWell'
  BY <1>1, <1>2 DEF BookInv, TurnWell, LogWell, OrdersWell
<1>4. Calm' => Calm
  BY <1>1 DEF Calm
<1>5. ASSUME Calm PROVE NoneUnderWay' /\ OneUnit' /\ AllSent' /\ NewerThanSales' /\ Booked'
  <2>1. NoneUnderWay /\ OneUnit /\ AllSent /\ NewerThanSales /\ Booked
    BY <1>5 DEF BookInv
  <2>2. \A o \in working : o.side \notin {"buy", "sell", "close"}
    BY <1>0, <1>1, <2>1 DEF NoneUnderWay, Unserved
  <2>3. NoneUnderWay'
    BY <1>1, <2>2 DEF NoneUnderWay
  <2>4. OneUnit'
    <3>1. \A a \in Assets : held'[a] <= 1
      BY <1>1, <2>1 DEF OneUnit
    <3>2. \A o \in working' : o.side # "buy"
      BY <1>1, <2>2
    <3>3. turn'.at \notin {"reconciling", "trading"}
      BY <1>2
    <3> QED
      BY <3>1, <3>2, <3>3 DEF OneUnit
  <2>5. AllSent' /\ Booked'
    BY <1>1, <1>2, <2>1 DEF AllSent, Booked
  <2>6. NewerThanSales'
    <3>1. \A a \in Assets : Live(a)' => Live(a)
      BY <1>1, <1>2 DEF Live
    <3>2. \A w : w \in sent' \ working' /\ w.side = "sell" => w \in sent \ working
      BY <1>1, <2>2
    <3>3. \A a, b : BoughtAfterSells(a, b) => BoughtAfterSells(a, b)'
      BY <1>1, <3>2 DEF BoughtAfterSells
    <3> QED
      BY <1>1, <2>1, <3>1, <3>3 DEF NewerThanSales
  <2> QED
    BY <2>3, <2>4, <2>5, <2>6
<1>6. ASSUME Calm, bracketed PROVE OpenOne' /\ ExitIsDue' /\ ExitIsTaken' /\ SaleCloses'
  <2>1. OpenOne /\ ExitIsDue /\ SaleCloses /\ NoneUnderWay
    BY <1>6 DEF BookInv
  <2>2. \A a \in Assets : Unsold(a) => Unsold(a)'
    <3>1. \A o \in working : o.side \notin {"buy", "sell", "close"}
      BY <1>0, <1>1, <2>1 DEF NoneUnderWay, Unserved
    <3> QED
      BY <1>1, <3>1 DEF Unsold
  <2>3. OpenOne' /\ ExitIsTaken'
    BY <1>1, <1>2, <2>1 DEF OpenOne, ExitIsTaken
  <2>4. ExitIsDue'
    BY <1>1, <1>2, <2>1, <2>2 DEF ExitIsDue
  <2>5. SaleCloses'
    BY <1>1, <1>2, <2>1 DEF SaleCloses
  <2> QED
    BY <2>3, <2>4, <2>5
<1> QED
  BY <1>1, <1>3, <1>4, <1>5, <1>6 DEF BookInv

\* A closing order is new, and its row closes what was open of the asset.
LEMMA FlattenKeeps ==
    ASSUME BookInv, BuysInv', NEW a \in Assets, NEW profit \in {-1, 1}, NEW lost \in BOOLEAN,
           Flatten(a, profit, lost)
    PROVE  BookInv'
<1> DEFINE o == Order(a, bar, "close")
           e == [kind |-> "sell", order |-> o, pnl |-> profit]
<1>0. /\ BookTypeOK /\ turn \in Turns /\ log \in Seq(Entries) /\ filled \subseteq sent
      /\ \A w \in working : w.asset \in Assets
  BY BookFacts DEF BookInv, BuysInv, BookTypeOK
<1>1. /\ UNCHANGED <<signal, bar, bracketed, filled, held, counts, early>>
      /\ turn.at = "closing" /\ o \notin sent
      /\ working' = working \union {o} /\ sent' = sent \union {o}
      /\ Journal("sell", o, profit, lost) /\ Closed(a)
  BY DEF Flatten
<1>2. /\ o \in OrderIds /\ o.asset = a /\ o.side = "close"
      /\ e \in Entries /\ e.kind = "sell" /\ e.order = o
  <2>1. bar \in 0 .. LastBar /\ "close" \in Sides
    BY <1>0, BookFacts DEF Sides
  <2>2. o \in OrderIds /\ o.asset = a /\ o.side = "close"
    BY <2>1, OrderTyped
  <2> QED
    BY <2>2 DEF Entries
<1>j. /\ disturbed' = (disturbed \/ lost)
      /\ \/ lost /\ log' = log
         \/ log' = log /\ \E i \in DOMAIN log : log[i].kind \in {"buy", "sell"} /\ log[i].order = o
         \/ log' = Append(log, e)
  BY <1>1, JournalWrites
<1> HIDE DEF o, e
<1>3. turn.exits = {} /\ turn.pending = {}
  BY <1>1 DEF BookInv, TurnWell
<1>4. /\ turn'.exits = {} /\ turn'.pending = {} /\ turn'.at \in {"idle", "closing"}
      /\ \A b : Unserved(turn', b) => Unserved(turn, b) /\ b # a
  <2>1. CASE turn' = NoTurn
    BY <2>1 DEF NoTurn, Unserved
  <2>2. CASE turn' = [turn EXCEPT !.seen = @ \ {a}]
    BY <1>0, <1>1, <1>3, <2>2 DEF Turns, Unserved
  <2> QED
    BY <1>1, <2>1, <2>2 DEF Closed
<1>5. TurnWell' /\ OrdersWell'
  <2>1. TurnWell'
    BY <1>4 DEF TurnWell
  <2>2. OrdersWell'
    BY <1>0, <1>1, <1>2 DEF BookInv, OrdersWell
  <2> QED
    BY <2>1, <2>2
<1>6. LogWell'
  <2>1. LogWell /\ (log' = log \/ log' = Append(log, e)) /\ filled' = filled /\ turn'.exits \subseteq turn.exits
    BY <1>1, <1>3, <1>4, <1>j DEF BookInv
  <2>2. e.kind \in {"buy", "sell"} /\ (e.kind = "buy" <=> e.order.side = "buy")
    BY <1>2
  <2>3. e.order.side \in {"exit", "trail"} => e.order \in filled
    BY <1>2
  <2> QED
    BY <1>0, <1>2, <2>1, <2>2, <2>3, RowKeepsLog
<1>7. ASSUME Calm'
      PROVE  /\ Calm /\ log' = Append(log, e)
             /\ NoneUnderWay /\ OneUnit /\ AllSent /\ NewerThanSales /\ Booked
             /\ bracketed => OpenOne /\ ExitIsDue /\ ExitIsTaken /\ SaleCloses
  <2>1. Calm /\ ~lost
    BY <1>1, <1>7, <1>j DEF Calm
  <2>2. /\ NoneUnderWay /\ OneUnit /\ AllSent /\ NewerThanSales /\ Booked
        /\ bracketed => OpenOne /\ ExitIsDue /\ ExitIsTaken /\ SaleCloses
    BY <2>1 DEF BookInv
  <2>3. \A i \in DOMAIN log : log[i].order # o
    BY <1>1, <2>2 DEF AllSent
  <2> QED
    BY <1>j, <2>1, <2>2, <2>3
<1>8. ASSUME Calm' PROVE NoneUnderWay' /\ OneUnit' /\ AllSent' /\ NewerThanSales' /\ Booked'
  <2>0. /\ log' = Append(log, e)
        /\ NoneUnderWay /\ OneUnit /\ AllSent /\ NewerThanSales /\ Booked
    BY <1>7, <1>8
  <2>a. /\ \A i \in DOMAIN log' : (i \in DOMAIN log /\ log'[i] = log[i]) \/ log'[i] = e
        /\ \A q : SoldIn(log', q) <=> SoldIn(log, q) \/ q = e.order
        /\ \A q : BoughtIn(log', q) <=> BoughtIn(log, q)
    <3>1. Sells(log, e, log')
      BY <1>0, <1>2, <2>0, SellRowKeeps
    <3> QED
      BY <3>1 DEF Sells
  <2>1. NoneUnderWay'
    BY <1>1, <1>2, <1>4, <2>0 DEF NoneUnderWay
  <2>2. OneUnit'
    <3>1. \A w \in working' : w.side = "buy" => w \in working
      BY <1>1, <1>2
    <3>2. turn'.at \notin {"reconciling", "trading"}
      BY <1>4
    <3> QED
      BY <1>1, <2>0, <3>1, <3>2 DEF OneUnit
  <2>3. AllSent'
    <3>1. \A i \in DOMAIN log' : log'[i].order \in sent'
      BY <1>1, <1>2, <2>0, <2>a DEF AllSent
    <3> QED
      BY <1>1, <1>2, <1>3, <1>4, <2>0, <2>a, <3>1 DEF AllSent
  <2>4. NewerThanSales'
    <3>1. \A b \in Assets : Live(b)' => Live(b)
      BY <1>1, <1>2, <1>4 DEF Live
    <3>2. \A w : w \in sent' \ working' => w \in sent \ working
      BY <1>1
    <3>3. \A b, c : BoughtAfterSells(b, c) => BoughtAfterSells(b, c)'
      BY <1>1, <3>2 DEF BoughtAfterSells
    <3> QED
      BY <1>1, <2>0, <3>1, <3>3 DEF NewerThanSales
  <2>5. Booked'
    BY <1>1, <1>4, <2>0, <2>a DEF Booked
  <2> QED
    BY <2>1, <2>2, <2>3, <2>4, <2>5
<1>9. ASSUME Calm', bracketed PROVE OpenOne' /\ ExitIsDue' /\ ExitIsTaken' /\ SaleCloses'
  <2>0. log' = Append(log, e) /\ OpenOne /\ ExitIsDue /\ SaleCloses
    BY <1>7, <1>9
  <2>a. /\ DOMAIN log \subseteq DOMAIN log'
        /\ \A q : SoldIn(log', q) <=> SoldIn(log, q) \/ q = e.order
        /\ \A i, b : OpenRow(log', i, b) =>
             i \in DOMAIN log' /\ i \in DOMAIN log /\ OpenRow(log, i, b) /\ b # a
    <3>1. Sells(log, e, log')
      BY <1>0, <1>2, <2>0, SellRowKeeps
    <3> QED
      BY <1>2, <3>1 DEF Sells
  <2>b. \A b : ~Awaited(log', turn'.pending, b)
    BY <1>4 DEF Awaited
  <2>c. \A b : OpenBuy(log', turn'.pending, b) => OpenBuy(log, turn.pending, b) /\ b # a
    BY <2>a, <2>b DEF OpenBuy
  <2>d. \A n, b : b # a /\ ExitAt(log, n, b) => ExitAt(log', n, b)
    BY <1>0, <1>2, <2>0, SellAdded
  <2>1. OpenOne'
    BY <2>0, <2>a, <2>b DEF OpenOne
  <2>2. ExitIsDue'
    <3>1. \A b : Unsold(b) => Unsold(b)'
      BY <1>1 DEF Unsold
    <3> QED
      BY <2>0, <2>a, <2>c, <2>d, <3>1 DEF ExitIsDue
  <2>3. ExitIsTaken'
    BY <1>4 DEF ExitIsTaken
  <2>4. SaleCloses'
    BY <1>1, <1>2, <2>0, <2>a, <2>c DEF SaleCloses
  <2> QED
    BY <2>1, <2>2, <2>3, <2>4
<1> QED
  BY <1>1, <1>5, <1>6, <1>7, <1>8, <1>9 DEF BookInv

\* A trailing stop is no market order, and its id is new.
LEMMA PlaceTrailingStopKeeps ==
    ASSUME BookInv, BuysInv', NEW a \in Assets, NEW outcome, PlaceTrailingStop(a, outcome) PROVE BookInv'
<1> DEFINE o == Order(a, 0, "trail")
<1>0. /\ BookTypeOK /\ filled \subseteq sent /\ \A w \in working : w.asset \in Assets
  BY BookFacts DEF BookInv, BuysInv
<1>1. /\ UNCHANGED <<log, signal, bar, bracketed, turn, filled, held, counts, early>>
      /\ o \notin sent \union unsent /\ Submit(o, outcome)
  BY DEF PlaceTrailingStop
<1>2. o.asset = a /\ o.side = "trail"
  BY DEF Order
<1> HIDE DEF o
<1>3. \/ working' = working /\ sent' = sent
      \/ working' = working \union {o} /\ sent' = sent \union {o}
  BY <1>1 DEF Submit
<1>4. disturbed => disturbed'
  BY <1>1, SubmitSends
<1>5. /\ \A w \in working' : w.side # "trail" => w \in working
      /\ working \subseteq working' /\ sent \subseteq sent'
      /\ \A w \in sent' : w.side # "trail" => w \in sent
      /\ \A w : w \in sent' \ working' => w \in sent \ working
  BY <1>2, <1>3
<1>6. TurnWell' /\ LogWell' /\ OrdersWell'
  <2>1. working' \intersect filled' = {}
    BY <1>0, <1>1, <1>3 DEF BookInv, OrdersWell
  <2> QED
    BY <1>1, <1>5, <2>1 DEF BookInv, TurnWell, LogWell, OrdersWell
<1>7. Calm' => Calm
  BY <1>1, <1>4 DEF Calm
<1>8. ASSUME Calm PROVE NoneUnderWay' /\ OneUnit' /\ AllSent' /\ NewerThanSales' /\ Booked'
  <2>1. NoneUnderWay /\ OneUnit /\ AllSent /\ NewerThanSales /\ Booked
    BY <1>8 DEF BookInv
  <2>2. NoneUnderWay'
    BY <1>1, <1>5, <2>1 DEF NoneUnderWay
  <2>3. OneUnit'
    BY <1>1, <1>5, <2>1 DEF OneUnit
  <2>4. AllSent'
    BY <1>1, <1>5, <2>1 DEF AllSent
  <2>5. Booked'
    BY <1>1, <2>1 DEF Booked
  <2>6. NewerThanSales'
    <3>1. \A b \in Assets : Live(b)' => Live(b)
      BY <1>1, <1>5 DEF Live
    <3>2. \A b, c : BoughtAfterSells(b, c) => BoughtAfterSells(b, c)'
      BY <1>1, <1>5 DEF BoughtAfterSells
    <3> QED
      BY <1>1, <2>1, <3>1, <3>2 DEF NewerThanSales
  <2> QED
    BY <2>2, <2>3, <2>4, <2>5, <2>6
<1>9. ASSUME Calm, bracketed PROVE OpenOne' /\ ExitIsDue' /\ ExitIsTaken' /\ SaleCloses'
  <2>1. OpenOne /\ ExitIsDue /\ ExitIsTaken /\ SaleCloses
    BY <1>9 DEF BookInv
  <2>2. \A b : Unsold(b) => Unsold(b)'
    BY <1>1, <1>5 DEF Unsold
  <2>3. OpenOne' /\ ExitIsTaken'
    BY <1>1, <2>1 DEF OpenOne, ExitIsTaken
  <2>4. ExitIsDue'
    BY <1>1, <2>1, <2>2 DEF ExitIsDue
  <2>5. SaleCloses'
    BY <1>1, <1>5, <2>1 DEF SaleCloses
  <2> QED
    BY <2>3, <2>4, <2>5
<1> QED
  BY <1>1, <1>6, <1>7, <1>8, <1>9 DEF BookInv

\* An order is replayed, refused, or new.
LEMMA SubmitCases ==
    ASSUME NEW o, NEW outcome \in {"placed", "refused", "lost"}, Submit(o, outcome)
    PROVE  /\ disturbed => disturbed'
           /\ \/ o \in sent \union unsent /\ outcome = "placed" /\ working' = working /\ sent' = sent
                 /\ (o \in unsent => disturbed')
              \/ o \notin sent \union unsent /\ outcome = "refused" /\ working' = working /\ sent' = sent
              \/ o \notin sent \union unsent /\ outcome # "refused"
                 /\ working' = working \union {o} /\ sent' = sent \union {o}
                 /\ (outcome = "lost" /\ o.side = "buy" => disturbed')
<1>1. disturbed => disturbed'
  BY SubmitSends
<1>2. CASE o \in sent \union unsent
  BY <1>1, <1>2, SubmitSends DEF Submit
<1>3. CASE o \notin sent \union unsent
  <2>1. outcome = "lost" /\ o.side = "buy" => disturbed'
    BY SubmitSends
  <2>2. IF outcome = "refused" THEN working' = working /\ sent' = sent
        ELSE working' = working \union {o} /\ sent' = sent \union {o}
    BY <1>3 DEF Submit
  <2> QED
    BY <1>1, <1>3, <2>1, <2>2
<1> QED
  BY <1>2, <1>3

\* An order that is sent leaves the orders as they should be.
LEMMA SubmitKeepsOrders ==
    ASSUME OrdersWell, NEW o, o.side # "exit", filled \subseteq sent, filled' = filled,
           \/ working' = working /\ sent' = sent
           \/ o \notin sent /\ working' = working \union {o} /\ sent' = sent \union {o}
    PROVE  OrdersWell'
BY DEF OrdersWell

\* A buy is of an asset without an open row or an order under way; what it sent before has
\* its row.
LEMMA BuyKeeps ==
    ASSUME BookInv, BuysInv', NEW a \in Assets, NEW outcome \in {"placed", "refused", "lost"}, Buy(a, outcome)
    PROVE  BookInv'
<1> DEFINE B == SignalBar(a)
           o == ClientOrderId(a, "buy")
           e == [kind |-> "buy", order |-> o, pnl |-> 0]
<1>0. /\ BookTypeOK /\ turn \in Turns /\ filled \subseteq sent /\ \A w \in working : w.asset \in Assets
      /\ bar \in 1 .. LastBar /\ bar \in Nat
  BY BookFacts DEF BookInv, BuysInv, BookTypeOK
<1>1. /\ UNCHANGED <<log, signal, bar, bracketed, filled, held, counts, early>>
      /\ turn.at = "trading" /\ turn.exits = {} /\ turn.pending = {} /\ a \in turn.todo /\ a \notin turn.seen
      /\ Submit(o, outcome)
      /\ turn' = [turn EXCEPT !.todo = @ \ {a}, !.pending = IF outcome # "placed" THEN {} ELSE {e}]
  BY DEF Buy, Ready
<1>2. o.asset = a /\ o.side = "buy" /\ e.kind = "buy" /\ e.order = o
  BY DEF ClientOrderId, Order
<1>3. /\ B \in 1 .. bar /\ signal[a][B] = "buy"
      /\ \A b \in 1 .. bar : b > B => signal[a][b] = "none"
  BY <1>0, SignalBarTyped DEF Buy
<1> HIDE DEF o, e, B
<1>4. /\ disturbed => disturbed'
      /\ \/ o \in sent \union unsent /\ outcome = "placed" /\ working' = working /\ sent' = sent
            /\ (o \in unsent => disturbed')
         \/ o \notin sent \union unsent /\ outcome = "refused" /\ working' = working /\ sent' = sent
         \/ o \notin sent \union unsent /\ outcome # "refused"
            /\ working' = working \union {o} /\ sent' = sent \union {o}
            /\ (outcome = "lost" /\ o.side = "buy" => disturbed')
  BY <1>1, SubmitCases
<1>5. /\ turn'.at = "trading" /\ turn'.exits = {} /\ turn'.seen = turn.seen /\ turn'.todo = turn.todo \ {a}
      /\ turn'.pending = IF outcome # "placed" THEN {} ELSE {e}
  BY <1>0, <1>1 DEF Turns
<1>6. TurnWell' /\ LogWell' /\ OrdersWell'
  <2>1. TurnWell'
    BY <1>2, <1>5 DEF TurnWell
  <2>2. LogWell'
    BY <1>1, <1>5 DEF BookInv, LogWell
  <2>3. OrdersWell'
    <3>1. OrdersWell /\ o.side # "exit" /\ filled \subseteq sent /\ filled' = filled
      BY <1>0, <1>1, <1>2 DEF BookInv
    <3>2. \/ working' = working /\ sent' = sent
          \/ o \notin sent /\ working' = working \union {o} /\ sent' = sent \union {o}
      BY <1>4
    <3> QED
      BY <3>1, <3>2, SubmitKeepsOrders
  <2> QED
    BY <2>1, <2>2, <2>3
<1>7. ASSUME Calm'
      PROVE  /\ Calm
             /\ \/ o \in sent /\ working' = working /\ sent' = sent /\ turn'.pending = {e}
                \/ o \notin sent /\ working' = working /\ sent' = sent /\ turn'.pending = {}
                \/ o \notin sent /\ working' = working \union {o} /\ sent' = sent \union {o} /\ turn'.pending = {e}
             /\ NoneUnderWay /\ OneUnit /\ AllSent /\ NewerThanSales /\ Booked
             /\ bracketed => OpenOne /\ ExitIsDue /\ ExitIsTaken /\ SaleCloses
  <2>1. Calm /\ ~disturbed'
    BY <1>1, <1>4, <1>7 DEF Calm
  <2>2. /\ NoneUnderWay /\ OneUnit /\ AllSent /\ NewerThanSales /\ Booked
        /\ bracketed => OpenOne /\ ExitIsDue /\ ExitIsTaken /\ SaleCloses
    BY <2>1 DEF BookInv
  <2>3. \/ o \in sent /\ working' = working /\ sent' = sent /\ turn'.pending = {e}
        \/ o \notin sent /\ working' = working /\ sent' = sent /\ turn'.pending = {}
        \/ o \notin sent /\ working' = working \union {o} /\ sent' = sent \union {o} /\ turn'.pending = {e}
    BY <1>2, <1>4, <1>5, <2>1
  <2> QED
    BY <2>1, <2>2, <2>3
<1>u. Unserved(turn, a) /\ \A b : Unserved(turn', b) => Unserved(turn, b) /\ b # a
  BY <1>1, <1>5 DEF Unserved
<1>w. /\ working \subseteq working' /\ sent \subseteq sent'
      /\ \A w \in working' : w \in working \/ w = o
      /\ \A w \in sent' : w \in sent \/ w = o
      /\ \A w : w \in sent' \ working' => w \in sent \ working
  BY <1>4
<1>8. ASSUME Calm' PROVE NoneUnderWay' /\ OneUnit' /\ AllSent' /\ NewerThanSales' /\ Booked'
  <2>0. NoneUnderWay /\ OneUnit /\ AllSent /\ NewerThanSales /\ Booked
    BY <1>7, <1>8
  <2>1. NoneUnderWay'
    BY <1>2, <1>u, <1>w, <2>0 DEF NoneUnderWay
  <2>2. OneUnit'
    <3>1. held[a] = 0 /\ \A w \in working : w.asset = a => w.side # "buy"
      BY <1>1, <1>u, <2>0 DEF OneUnit, NoneUnderWay
    <3>2. \A w \in working' : w.side = "buy" => held'[w.asset] = 0
      BY <1>1, <1>2, <1>w, <2>0, <3>1 DEF OneUnit
    <3>3. \A w, q \in working' : w.side = "buy" /\ q.side = "buy" /\ w.asset = q.asset => w = q
      BY <1>2, <1>w, <2>0, <3>1 DEF OneUnit
    <3>4. \A b \in Assets : held'[b] <= 1
      BY <1>1, <2>0 DEF OneUnit
    <3>5. \A b \in Assets : turn'.at \in {"reconciling", "trading"} /\ Unserved(turn', b) /\ b \notin turn'.seen
             => held'[b] = 0
      BY <1>1, <1>5, <1>u, <2>0 DEF OneUnit
    <3> QED
      BY <3>2, <3>3, <3>4, <3>5 DEF OneUnit
  <2>3. AllSent'
    <3>1. \A q \in sent : q.side = "buy" => BoughtIn(log, q)
      BY <1>1, <2>0 DEF AllSent
    <3>2. \A q \in sent' : q.side = "buy" => BoughtIn(log, q) \/ \E x \in turn'.pending : x.order = q
      BY <1>2, <1>7, <1>8, <3>1
    <3>3. \A x \in turn'.pending : x.order \in sent'
      BY <1>2, <1>7, <1>8
    <3> QED
      BY <1>1, <1>5, <1>w, <2>0, <3>2, <3>3 DEF AllSent
  <2>4. NewerThanSales'
    <3>1. PICK c \in 1 .. bar : c = B
      BY <1>3
    <3>b. BoughtAfterSells(a, c)'
      <4>1. ASSUME NEW w \in sent, w.asset = a, w.side = "sell" PROVE w.bar < c
        <5>1. w.bar \in 1 .. bar /\ signal[a][w.bar] = "sell"
          BY <4>1 DEF BookInv, BuysInv, AnswersSignal
        <5> QED
          BY <1>0, <1>3, <3>1, <5>1
      <4>2. signal[a][c] = "buy"
        BY <1>3, <3>1
      <4> QED
        BY <1>1, <1>w, <4>1, <4>2 DEF BoughtAfterSells
    <3>2. ASSUME NEW b \in Assets, b # a, Live(b)'
          PROVE  \E d \in 1 .. bar : BoughtAfterSells(b, d)'
      <4>1. Live(b)
        BY <1>1, <1>2, <1>5, <1>w, <3>2 DEF Live
      <4>2. PICK d \in 1 .. bar : BoughtAfterSells(b, d)
        BY <2>0, <4>1 DEF NewerThanSales
      <4> QED
        BY <1>1, <1>w, <4>2 DEF BoughtAfterSells
    <3> QED
      BY <1>1, <3>b, <3>2 DEF NewerThanSales
  <2>5. Booked'
    <3>1. \A x \in turn'.pending : x.kind # "sell"
      BY <1>2, <1>5
    <3> QED
      BY <1>1, <1>5, <2>0, <3>1 DEF Booked
  <2> QED
    BY <2>1, <2>2, <2>3, <2>4, <2>5
<1>9. ASSUME Calm', bracketed PROVE OpenOne' /\ ExitIsDue' /\ ExitIsTaken' /\ SaleCloses'
  <2>0. OpenOne /\ ExitIsDue /\ ExitIsTaken /\ SaleCloses /\ NoneUnderWay /\ AllSent
    BY <1>7, <1>9
  <2>1. ~OpenBuy(log, turn.pending, a)
    BY <1>1, <2>0 DEF ExitIsTaken
  <2>2. \A i : ~OpenRow(log, i, a)
    BY <2>1 DEF OpenBuy, OpenRow, IsRow
  <2>3. \A b : ~Awaited(log, turn.pending, b)
    BY <1>1 DEF Awaited
  <2>4. \A b : Awaited(log, turn'.pending, b) => b = a /\ turn'.pending = {e} /\ ~BoughtIn(log, o)
    BY <1>2, <1>5 DEF Awaited
  <2>5. \A b : b # a => (OpenBuy(log, turn'.pending, b) <=> OpenBuy(log, turn.pending, b))
    BY <2>3, <2>4 DEF OpenBuy
  <2>6. OpenOne'
    BY <1>1, <2>0, <2>2, <2>4 DEF OpenOne
  <2>7. ExitIsDue'
    <3>1. \A b : Unsold(b) => Unsold(b)'
      BY <1>1, <1>w DEF Unsold
    <3>2. OpenBuy(log, turn'.pending, a) => Unsold(a)'
      <4>1. OpenBuy(log, turn'.pending, a) => turn'.pending = {e} /\ ~BoughtIn(log, o)
        BY <2>2, <2>4 DEF OpenBuy
      <4>2. o \in sent => BoughtIn(log, o)
        BY <1>1, <1>2, <2>0 DEF AllSent
      <4>3. turn'.pending = {e} /\ ~BoughtIn(log, o) => o \in working'
        BY <1>7, <1>9, <4>2
      <4> QED
        BY <1>2, <4>1, <4>3 DEF Unsold
    <3> QED
      BY <1>1, <2>0, <2>5, <3>1, <3>2 DEF ExitIsDue
  <2>8. ExitIsTaken'
    BY <1>1, <1>5, <2>0, <2>5 DEF ExitIsTaken
  <2>9. SaleCloses'
    <3>1. \A w \in working : w.asset = a => w.side \notin {"sell", "close"}
      BY <1>u, <2>0 DEF NoneUnderWay
    <3> QED
      BY <1>1, <1>2, <1>w, <2>0, <2>5, <3>1 DEF SaleCloses
  <2> QED
    BY <2>6, <2>7, <2>8, <2>9
<1> QED
  BY <1>1, <1>6, <1>7, <1>8, <1>9 DEF BookInv

\* A sale is of a signal older than the position's, or its order is new.
LEMMA SellKeeps ==
    ASSUME BookInv, BuysInv', NEW a \in Assets, NEW profit \in {-1, 1},
           NEW outcome \in {"placed", "refused", "lost"}, Sell(a, profit, outcome)
    PROVE  BookInv'
<1> DEFINE B == SignalBar(a)
           o == ClientOrderId(a, "sell")
           e == [row |-> 0, fill |-> [kind |-> "fill", order |-> o, pnl |-> profit]]
<1>0. /\ BookTypeOK /\ turn \in Turns /\ filled \subseteq sent /\ \A w \in working : w.asset \in Assets
      /\ bar \in 1 .. LastBar /\ bar \in Nat
  BY BookFacts DEF BookInv, BuysInv, BookTypeOK
<1>1. /\ UNCHANGED <<log, signal, bar, bracketed, filled, held, counts, early>>
      /\ turn.at = "trading" /\ turn.exits = {} /\ turn.pending = {} /\ a \in turn.todo /\ a \in turn.seen
      /\ Submit(o, outcome)
      /\ turn' = [turn EXCEPT !.todo = @ \ {a}, !.exits = IF outcome # "placed" THEN {} ELSE {e}]
  BY DEF Sell, Ready
<1>2. o.asset = a /\ o.side = "sell" /\ o.bar = B /\ e.fill.order = o
  BY DEF ClientOrderId, Order
<1>3. /\ B \in 1 .. bar /\ signal[a][B] = "sell"
      /\ \A b \in 1 .. bar : b > B => signal[a][b] = "none"
  BY <1>0, SignalBarTyped DEF Sell
<1> HIDE DEF o, e, B
<1>4. /\ disturbed => disturbed'
      /\ \/ o \in sent \union unsent /\ outcome = "placed" /\ working' = working /\ sent' = sent
            /\ (o \in unsent => disturbed')
         \/ o \notin sent \union unsent /\ outcome = "refused" /\ working' = working /\ sent' = sent
         \/ o \notin sent \union unsent /\ outcome # "refused"
            /\ working' = working \union {o} /\ sent' = sent \union {o}
  BY <1>1, SubmitCases
<1>5. /\ turn'.at = "trading" /\ turn'.pending = {} /\ turn'.seen = turn.seen /\ turn'.todo = turn.todo \ {a}
      /\ turn'.exits = IF outcome # "placed" THEN {} ELSE {e}
  BY <1>0, <1>1 DEF Turns
<1>6. TurnWell' /\ LogWell' /\ OrdersWell'
  <2>1. TurnWell'
    BY <1>2, <1>5 DEF TurnWell
  <2>2. LogWell'
    BY <1>1, <1>2, <1>5 DEF BookInv, LogWell
  <2>3. OrdersWell'
    <3>1. OrdersWell /\ o.side # "exit" /\ filled \subseteq sent /\ filled' = filled
      BY <1>0, <1>1, <1>2 DEF BookInv
    <3>2. \/ working' = working /\ sent' = sent
          \/ o \notin sent /\ working' = working \union {o} /\ sent' = sent \union {o}
      BY <1>4
    <3> QED
      BY <3>1, <3>2, SubmitKeepsOrders
  <2> QED
    BY <2>1, <2>2, <2>3
<1>u. Unserved(turn, a) /\ Live(a) /\ \A b : Unserved(turn', b) => Unserved(turn, b) /\ b # a
  BY <1>1, <1>5 DEF Unserved, Live
<1>w. /\ working \subseteq working' /\ sent \subseteq sent'
      /\ \A w \in working' : w \in working \/ w = o
      /\ \A w \in sent' : w \in sent \/ w = o
      /\ \A w : w \in sent' \ working' => w \in sent \ working
  BY <1>4
<1>7. ASSUME Calm'
      PROVE  /\ Calm /\ o \notin sent /\ (turn'.exits = {} \/ (turn'.exits = {e} /\ o \in sent'))
             /\ NoneUnderWay /\ OneUnit /\ AllSent /\ NewerThanSales /\ Booked
             /\ bracketed => OpenOne /\ ExitIsDue /\ ExitIsTaken /\ SaleCloses
  <2>1. Calm /\ ~disturbed'
    BY <1>1, <1>4, <1>7 DEF Calm
  <2>2. /\ NoneUnderWay /\ OneUnit /\ AllSent /\ NewerThanSales /\ Booked
        /\ bracketed => OpenOne /\ ExitIsDue /\ ExitIsTaken /\ SaleCloses
    BY <2>1 DEF BookInv
  <2>3. o \notin sent
    <3>1. SUFFICES ASSUME o \in sent PROVE FALSE
      OBVIOUS
    <3>2. o \notin working
      BY <1>2, <1>u, <2>2 DEF NoneUnderWay
    <3>3. PICK b \in 1 .. bar : BoughtAfterSells(a, b)
      BY <1>u, <2>2 DEF NewerThanSales
    <3>4. signal[a][b] = "buy" /\ B < b
      BY <1>2, <3>1, <3>2, <3>3 DEF BoughtAfterSells
    <3> QED
      BY <1>0, <1>3, <3>4
  <2>4. turn'.exits = {} \/ (turn'.exits = {e} /\ o \in sent')
    BY <1>4, <1>5, <2>1, <2>3
  <2> QED
    BY <2>1, <2>2, <2>3, <2>4
<1>8. ASSUME Calm' PROVE NoneUnderWay' /\ OneUnit' /\ AllSent' /\ NewerThanSales' /\ Booked'
  <2>0. /\ NoneUnderWay /\ OneUnit /\ AllSent /\ NewerThanSales /\ Booked
        /\ o \notin sent /\ (turn'.exits = {} \/ (turn'.exits = {e} /\ o \in sent'))
    BY <1>7, <1>8
  <2>1. NoneUnderWay'
    BY <1>2, <1>u, <1>w, <2>0 DEF NoneUnderWay
  <2>2. OneUnit'
    <3>1. \A w \in working' : w.side = "buy" => w \in working
      BY <1>2, <1>w
    <3>2. \A b \in Assets : turn'.at \in {"reconciling", "trading"} /\ Unserved(turn', b) /\ b \notin turn'.seen
             => held'[b] = 0
      BY <1>1, <1>5, <1>u, <2>0 DEF OneUnit
    <3> QED
      BY <1>1, <2>0, <3>1, <3>2 DEF OneUnit
  <2>3. AllSent'
    <3>1. \A x \in turn'.exits : x.fill.order \in sent'
      BY <1>2, <2>0
    <3> QED
      BY <1>1, <1>2, <1>5, <1>w, <2>0, <3>1 DEF AllSent
  <2>4. NewerThanSales'
    <3>1. \A b \in Assets : Live(b)' => Live(b)
      BY <1>1, <1>2, <1>5, <1>w DEF Live
    <3>2. \A b, c : BoughtAfterSells(b, c) => BoughtAfterSells(b, c)'
      BY <1>1, <1>w DEF BoughtAfterSells
    <3> QED
      BY <1>1, <2>0, <3>1, <3>2 DEF NewerThanSales
  <2>5. Booked'
    <3>1. ~SoldIn(log, o)
      BY <2>0 DEF AllSent, SoldIn
    <3>2. \A x \in turn'.exits : x = e
      BY <2>0
    <3> QED
      BY <1>1, <1>2, <1>5, <2>0, <3>1, <3>2 DEF Booked
  <2> QED
    BY <2>1, <2>2, <2>3, <2>4, <2>5
<1>9. ASSUME Calm', bracketed PROVE OpenOne' /\ ExitIsDue' /\ ExitIsTaken' /\ SaleCloses'
  <2>0. OpenOne /\ ExitIsDue /\ ExitIsTaken /\ SaleCloses /\ AllSent /\ o \notin sent
    BY <1>7, <1>9
  <2>1. turn'.pending = turn.pending
    BY <1>1, <1>5
  <2>2. OpenOne'
    BY <1>1, <2>0, <2>1 DEF OpenOne
  <2>3. ExitIsDue'
    <3>1. \A b : Unsold(b) => Unsold(b)'
      BY <1>1, <1>w DEF Unsold
    <3> QED
      BY <1>1, <2>0, <2>1, <3>1 DEF ExitIsDue
  <2>4. ExitIsTaken'
    BY <1>1, <1>5, <2>0, <2>1 DEF ExitIsTaken
  <2>5. SaleCloses'
    <3>1. ~SoldIn(log, o)
      BY <2>0 DEF AllSent, SoldIn
    <3> QED
      BY <1>1, <1>w, <2>0, <2>1, <3>1 DEF SaleCloses
  <2> QED
    BY <2>2, <2>3, <2>4, <2>5
<1> QED
  BY <1>1, <1>6, <1>7, <1>8, <1>9 DEF BookInv

-----------------------------------------------------------------------------

LEMMA InitBookInv == BookInit => BookInv
<1> SUFFICES ASSUME BookInit PROVE BookInv
  OBVIOUS
<1>0. /\ log = <<>> /\ turn = NoTurn /\ working = {} /\ filled = {} /\ sent = {} /\ BuysInv
      /\ held = [a \in Assets |-> 0] /\ counts = [o \in OrderIds |-> 0]
  BY InitBuysInv DEF BookInit
<1>1. DOMAIN log = {}
  BY <1>0
<1>2. turn.at = "idle" /\ turn.exits = {} /\ turn.pending = {}
  BY <1>0 DEF NoTurn
<1>3. TurnWell /\ LogWell /\ OrdersWell
  BY <1>0, <1>1, <1>2 DEF TurnWell, LogWell, OrdersWell
<1>4. NoneUnderWay /\ OneUnit /\ AllSent /\ NewerThanSales /\ Booked
  <2>1. NewerThanSales
    BY <1>0, <1>2 DEF NewerThanSales, Live
  <2>2. Booked
    BY <1>0, <1>2 DEF Booked
  <2> QED
    BY <1>0, <1>1, <1>2, <2>1, <2>2 DEF NoneUnderWay, OneUnit, AllSent
<1>5. OpenOne /\ ExitIsDue /\ ExitIsTaken /\ SaleCloses
  <2>1. \A i, a : ~OpenRow(log, i, a)
    BY <1>1 DEF OpenRow, IsRow
  <2>2. \A a : ~Awaited(log, turn.pending, a)
    BY <1>2 DEF Awaited
  <2> QED
    BY <1>0, <1>2, <2>1, <2>2 DEF OpenBuy, OpenOne, ExitIsDue, ExitIsTaken, SaleCloses
<1> QED
  BY <1>0, <1>3, <1>4, <1>5 DEF BookInv

LEMMA BookStep == BookInv /\ [BookNext]_bookVars => BookInv'
<1> SUFFICES ASSUME BookInv, [BookNext]_bookVars
             PROVE  BookInv'
  OBVIOUS
<1>1. BuysInv'
  BY BuysStep DEF BookInv
<1>2. ASSUME NEW o \in working, FillBuy(o) \/ \E profit \in {-1, 1} : FillSell(o, profit)
      PROVE  BookInv'
  BY <1>1, <1>2, FillBuyKeeps, FillSellKeeps
<1>3. CASE NewBar \/ BeginTick \/ FetchPositions \/ ReconcileFails \/ CountExit
  BY <1>1, <1>3, NewBarKeeps, BeginTickKeeps, FetchPositionsKeeps, ReconcileFailsKeeps, CountExitKeeps
<1>4. CASE \/ FireKillSwitch \/ EndTick \/ StartAnew \/ Die \/ UNCHANGED bookVars
           \/ \E a \in Assets : Skip(a) \/ FlattenFails(a)
  BY <1>1, <1>4, ShortensTick
<1>5. ASSUME NEW b \in BOOLEAN, Reconcile(b) \/ JournalExit(b) \/ JournalBuy(b) \/ BeginFlatten(b)
      PROVE  BookInv'
  BY <1>1, <1>5, ReconcileKeeps, JournalExitKeeps, JournalBuyKeeps, BeginFlattenKeeps
<1>6. ASSUME NEW a \in Assets, NEW profit \in {-1, 1}, NEW lost \in BOOLEAN, Flatten(a, profit, lost)
      PROVE  BookInv'
  BY <1>1, <1>6, FlattenKeeps
<1>7. ASSUME NEW a \in Assets, NEW outcome \in {"placed", "refused", "lost"},
             \/ PlaceTrailingStop(a, outcome) \/ Buy(a, outcome)
             \/ \E profit \in {-1, 1} : Sell(a, profit, outcome)
      PROVE  BookInv'
  BY <1>1, <1>7, PlaceTrailingStopKeeps, BuyKeeps, SellKeeps
<1> QED
  BY <1>2, <1>3, <1>4, <1>5, <1>6, <1>7 DEF BookNext

LEMMA InvCountsOnce == BookInv => ExitCountedOnce
BY DEF BookInv, Booked, Calm, ExitCountedOnce

\* The book's rows, orders and units stay in step while nothing disturbs them.
THEOREM BookInductive == BookSpec => []BookInv
BY InitBookInv, BookStep, PTL DEF BookSpec

\* An exit moves the counters once (reconcileBracketFills, flattenAll and the sell branch of
\* tickInner), whatever the broker fills between their steps.
THEOREM ExitsCountOnce == BookSpec => []ExitCountedOnce
BY BookInductive, InvCountsOnce, PTL

(***************************************************************************)
(* The order risk gate                                                     *)
(* Requests that read the positions before the others fill may each pass:  *)
(* what they may fill together is bounded by those that had not filled.    *)
(***************************************************************************)

Notional == [o \in Orders |-> Wanted[o].notional]

\* The orders that were sent, or may be sent on the positions they have read.
MayFill ==
    {o \in Orders : /\ seen[o] # <<>> /\ phase[o] \in {"reading", "sent"}
                    /\ WithinExposure(Wanted[o], seen[o])
                    /\ Wanted[o].notional <= Policy.maxOrderNotional}

Excess == (IF crowd = 0 THEN 0 ELSE crowd - 1) * Policy.maxOrderNotional

\* The fills that may still come are within the bound as well.
FillsBounded ==
    Gross(position) + SumFunctionOnSet(Notional, MayFill) <= Policy.maxGrossExposure + Excess

\* Of the orders written within one window that have read their count, one has counted the rest.
SomeoneCounted ==
    \A from \in Nat : \A X \in SUBSET {o \in Orders : counted[o] # -1} :
        (X # {} /\ \A o \in X : created[o] \in from .. from + Minute - Delay)
            => \E o \in X : counted[o] >= Cardinality(X) - 1

\* What a request has read at its phase, and the time its check has taken.
ReadInOrder ==
    /\ crowd \in Nat
    /\ \A o \in Orders :
        /\ phase[o] = "idle" => counted[o] = -1 /\ seen[o] = <<>>
        /\ phase[o] \in {"sent", "filled"} => /\ counted[o] \in 0 .. Policy.maxOrdersPerMinute - 1
        /\ phase[o] = "sent" => /\ seen[o] # <<>> /\ WithinExposure(Wanted[o], seen[o])
                                /\ Wanted[o].notional <= Policy.maxOrderNotional
        /\ phase[o] = "reading" => second <= created[o] + Delay
        /\ created[o] <= second

RiskInv == RiskTypeOK /\ ReadInOrder /\ FillsBounded /\ SomeoneCounted

-----------------------------------------------------------------------------

LEMMA RiskConstants ==
    /\ IsFiniteSet(Orders) /\ Cardinality(Orders) \in Nat
    /\ IsFiniteSet(Traded)
    /\ \A o \in Orders : /\ Wanted[o].symbol \in Traded /\ Wanted[o].side \in {-1, 1}
                         /\ Wanted[o].notional \in Nat \ {0}
    /\ Policy.maxGrossExposure \in Nat /\ Policy.maxOrderNotional \in Nat
    /\ Policy.maxOrdersPerMinute \in Nat
    /\ Minute \in Nat /\ Delay \in Nat /\ Delay <= Minute - 1 /\ LastTick \in Nat
<1>1. IsFiniteSet({Wanted[o].symbol : o \in Orders})
  <2> DEFINE sym == [o \in Orders |-> Wanted[o].symbol]
             symbols == {Wanted[o].symbol : o \in Orders}
  <2>1. sym \in Surjection(Orders, symbols)
    BY DEF Surjection
  <2> HIDE DEF sym, symbols
  <2>2. IsFiniteSet(symbols)
    BY <2>1, RiskAssumption, FS_Surjection
  <2> QED
    BY <2>2 DEF symbols
<1> QED
  BY <1>1, RiskAssumption, FS_CardinalityType DEF Traded

\* The exposure is a natural number, and a fill adds its notional at most.
LEMMA GrossNat ==
    ASSUME NEW p \in [Traded -> Int]
    PROVE  Gross(p) \in Nat
<1> DEFINE a == [s \in Traded |-> Abs(p[s])]
<1>1. \A s \in Traded : a[s] \in Nat
  BY DEF Abs
<1> HIDE DEF a
<1>2. DOMAIN a = Traded
  BY DEF a
<1>3. SumFunctionOnSet(a, Traded) \in Nat
  BY <1>1, RiskConstants, SumNat
<1> QED
  BY <1>2, <1>3 DEF Gross, SumFunction, a

LEMMA GrossAfterFill ==
    ASSUME NEW p \in [Traded -> Int], NEW s \in Traded, NEW d \in {-1, 1}, NEW n \in Nat
    PROVE  Gross([p EXCEPT ![s] = @ + d * n]) <= Gross(p) + n
<1> DEFINE q == [p EXCEPT ![s] = @ + d * n]
           a == [x \in Traded |-> Abs(p[x])]
           b == [x \in Traded |-> Abs(q[x])]
<1>1. q \in [Traded -> Int] /\ q[s] = p[s] + d * n /\ \A x \in Traded \ {s} : q[x] = p[x]
  <2>1. d * n \in Int
    OBVIOUS
  <2> QED
    BY <2>1
<1> HIDE DEF q
<1>2. \A x \in Traded : a[x] \in Int /\ b[x] \in Int
  BY <1>1 DEF Abs
<1>3. \A x \in Traded \ {s} : b[x] = a[x]
  BY <1>1
<1>4. b[s] <= a[s] + n
  <2>1. d * n = n \/ d * n = -n
    OBVIOUS
  <2> QED
    BY <1>1, <2>1 DEF Abs
<1>5. Gross(p) = SumFunctionOnSet(a, Traded) /\ Gross(q) = SumFunctionOnSet(b, Traded)
  BY DEF Gross, SumFunction
<1>6. SumFunctionOnSet(b, Traded) = SumFunctionOnSet(a, Traded) - a[s] + b[s]
  <2>1. IsFiniteSet(Traded)
    BY RiskConstants
  <2> HIDE DEF a, b
  <2> QED BY ONLY <1>2, <1>3, <2>1, s \in Traded, SumChange
<1>7. SumFunctionOnSet(a, Traded) \in Int
  <2> HIDE DEF a, b
  <2> QED BY <1>2, RiskConstants, SumInt
<1>8. Gross(q) <= Gross(p) + n
  <2> HIDE DEF a, b
  <2> QED BY <1>2, <1>4, <1>5, <1>6, <1>7
<1> QED
  BY <1>8 DEF q

\* A position that was read is not the empty answer.
LEMMA ReadIsNotEmpty ==
    ASSUME NEW o \in Orders, NEW p \in [Traded -> Int]
    PROVE  p # <<>>
BY RiskConstants

\* A smaller crowd of orders that may fill brings no more.
LEMMA FewerFills ==
    ASSUME NEW X \in SUBSET Orders, NEW Y \in SUBSET X
    PROVE  /\ SumFunctionOnSet(Notional, X) \in Nat /\ SumFunctionOnSet(Notional, Y) \in Nat
           /\ SumFunctionOnSet(Notional, Y) <= SumFunctionOnSet(Notional, X)
<1>1. IsFiniteSet(X) /\ IsFiniteSet(Y)
  BY RiskConstants, FS_Subset
<1>2. \A o \in X : Notional[o] \in Nat
  BY RiskConstants DEF Notional
<1> QED
  BY <1>1, <1>2, SumNat, SumPart

LEMMA RiskInit_Inv == RiskInit => RiskInv
<1> SUFFICES ASSUME RiskInit PROVE RiskInv
  OBVIOUS
<1> USE RiskConstants DEF RiskInit
<1>1. RiskTypeOK
  BY DEF RiskTypeOK
<1>2. ReadInOrder
  BY DEF ReadInOrder
<1>3. FillsBounded
  <2>1. MayFill = {}
    BY DEF MayFill
  <2>2. SumFunctionOnSet(Notional, MayFill) = 0
    BY <2>1, SumEmpty
  <2>3. Gross(position) = 0
    <3> DEFINE a == [s \in Traded |-> Abs(position[s])]
    <3>1. \A s \in Traded : a[s] = 0
      BY DEF Abs
    <3>2. DOMAIN a = Traded
      OBVIOUS
    <3>3. Gross(position) = SumFunctionOnSet(a, Traded)
      BY <3>2 DEF Gross, SumFunction
    <3> HIDE DEF a
    <3>4. SumFunctionOnSet(a, Traded) <= Cardinality(Traded) * 0
      <4>1. 0 \in Int /\ \A s \in Traded : a[s] \in Int /\ a[s] <= 0
        BY <3>1
      <4> QED
        BY ONLY <4>1, RiskConstants, SumBound
    <3>5. SumFunctionOnSet(a, Traded) \in Nat
      BY <3>1, SumNat
    <3>6. Cardinality(Traded) \in Nat
      BY FS_CardinalityType
    <3> QED
      BY <3>3, <3>4, <3>5, <3>6
  <2> QED
    BY <2>2, <2>3 DEF FillsBounded, Excess
<1>4. SomeoneCounted
  <2>1. {o \in Orders : counted[o] # -1} = {}
    OBVIOUS
  <2> QED
    BY <2>1 DEF SomeoneCounted
<1> QED
  BY <1>1, <1>2, <1>3, <1>4 DEF RiskInv

\* What keeps positions, crowd and notionals, and lets no further order fill, keeps the bound.
LEMMA FillsKept ==
    ASSUME RiskInv, MayFill' \subseteq MayFill, UNCHANGED <<position, crowd>>
    PROVE  FillsBounded'
<1>1. MayFill \subseteq Orders
  BY DEF MayFill
<1>2. SumFunctionOnSet(Notional, MayFill) \in Nat /\ SumFunctionOnSet(Notional, MayFill') \in Nat
      /\ SumFunctionOnSet(Notional, MayFill') <= SumFunctionOnSet(Notional, MayFill)
  BY <1>1, FewerFills
<1>3. Gross(position) \in Nat
  BY GrossNat DEF RiskInv, RiskTypeOK
<1>4. Excess \in Int
  BY RiskConstants DEF RiskInv, ReadInOrder, Excess
<1>5. Notional' = Notional /\ Excess' = Excess /\ Gross(position)' = Gross(position)
  BY DEF Notional, Excess, Gross, Traded
<1>6. SumFunctionOnSet(Notional, MayFill)' = SumFunctionOnSet(Notional, MayFill')
  BY <1>5
<1>7. Gross(position) + SumFunctionOnSet(Notional, MayFill) <= Policy.maxGrossExposure + Excess
  BY DEF RiskInv, FillsBounded
<1> DEFINE g == Gross(position)
           sumNow == SumFunctionOnSet(Notional, MayFill)
           sumThen == SumFunctionOnSet(Notional, MayFill')
<1> HIDE DEF g, sumNow, sumThen
<1>8. g + sumThen <= Policy.maxGrossExposure + Excess
  BY <1>2, <1>3, <1>4, <1>7, RiskConstants DEF g, sumNow, sumThen
<1> QED
  BY <1>5, <1>6, <1>8 DEF FillsBounded, g, sumThen

\* Nobody's count or time changes.
LEMMA CountsKept ==
    ASSUME RiskInv, UNCHANGED <<created, counted>>
    PROVE  SomeoneCounted'
BY DEF RiskInv, SomeoneCounted

LEMMA WriteRow_Inv ==
    ASSUME RiskInv, NEW o \in Orders, WriteRow(o)
    PROVE  RiskInv'
<1> USE RiskConstants DEF WriteRow, RiskInv
<1>1. RiskTypeOK'
  BY DEF RiskTypeOK
<1>2. ReadInOrder'
  BY DEF ReadInOrder, RiskTypeOK
<1>3. MayFill' \subseteq MayFill
  BY DEF MayFill, ReadInOrder, RiskTypeOK
<1>4. FillsBounded'
  BY <1>3, FillsKept
<1>5. SomeoneCounted'
  <2> SUFFICES ASSUME NEW from \in Nat, NEW X \in SUBSET {x \in Orders : counted[x] # -1},
                      X # {}, \A x \in X : created'[x] \in from .. from + Minute - Delay
               PROVE  \E x \in X : counted[x] >= Cardinality(X) - 1
    BY DEF SomeoneCounted
  <2>1. o \notin X
    BY DEF ReadInOrder
  <2>2. \A x \in X : created[x] \in from .. from + Minute - Delay
    BY <2>1 DEF RiskTypeOK
  <2> QED
    BY <2>2 DEF SomeoneCounted
<1> QED
  BY <1>1, <1>2, <1>4, <1>5

LEMMA ReadCount_Inv ==
    ASSUME RiskInv, NEW o \in Orders, ReadCount(o)
    PROVE  RiskInv'
<1> USE RiskConstants DEF ReadCount, RiskInv
<1> DEFINE recent == {x \in Placed : created[x] >= second - Minute}
<1>1. /\ IsFiniteSet(recent) /\ Cardinality(recent) \in 1 .. Cardinality(Orders)
      /\ counted' = [counted EXCEPT ![o] = Cardinality(recent) - 1]
  <2>1. recent \subseteq Orders
    BY DEF Placed
  <2>2. o \in recent
    BY DEF Placed, ReadInOrder, RiskTypeOK
  <2>3. IsFiniteSet(recent) /\ Cardinality(recent) <= Cardinality(Orders)
    BY <2>1, FS_Subset
  <2>4. Cardinality(recent) \in Nat /\ Cardinality(recent) # 0
    BY <2>2, <2>3, FS_CardinalityType, FS_EmptySet
  <2>5. counted' = [counted EXCEPT ![o] = Cardinality(recent) - 1]
    BY DEF CountRead, RecentOrderCount
  <2>6. Cardinality(Orders) \in Nat
    OBVIOUS
  <2> HIDE DEF recent
  <2>7. Cardinality(recent) \in 1 .. Cardinality(Orders)
    BY ONLY <2>3, <2>4, <2>6
  <2> QED
    BY ONLY <2>3, <2>5, <2>7
<1>2. RiskTypeOK'
  <2> HIDE DEF recent
  <2> QED BY <1>1 DEF RiskTypeOK
<1>3. ReadInOrder'
  <2> HIDE DEF recent
  <2> QED BY <1>1 DEF ReadInOrder, RiskTypeOK
<1>4. MayFill' \subseteq MayFill
  BY DEF MayFill
<1>5. FillsBounded'
  BY <1>4, FillsKept
<1>6. SomeoneCounted'
  <2> SUFFICES ASSUME NEW from \in Nat, NEW X \in SUBSET {x \in Orders : counted'[x] # -1},
                      X # {}, \A x \in X : created[x] \in from .. from + Minute - Delay
               PROVE  \E x \in X : counted'[x] >= Cardinality(X) - 1
    BY DEF SomeoneCounted
  <2>1. CASE o \in X
    <3>1. second <= from + Minute
      <4>1. second <= created[o] + Delay /\ created[o] <= from + Minute - Delay
        BY <2>1 DEF ReadInOrder
      <4> QED
        BY <4>1 DEF RiskTypeOK
    <3>2. \A x \in X : x \in Placed
      BY <2>1 DEF Placed, ReadInOrder, RiskTypeOK
    <3>3. \A x \in X : created[x] >= second - Minute
      BY <3>1 DEF RiskTypeOK
    <3>4. X \subseteq recent
      BY <3>2, <3>3
    <3>5. Cardinality(X) <= Cardinality(recent) /\ Cardinality(X) \in Nat
      BY <1>1, <3>4, FS_Subset, FS_CardinalityType
    <3>6. counted'[o] = Cardinality(recent) - 1
      BY <1>1 DEF RiskTypeOK
    <3> HIDE DEF recent
    <3> QED
      BY <1>1, <2>1, <3>5, <3>6
  <2>2. CASE o \notin X
    <3>1. \A x \in X : counted'[x] = counted[x]
      BY <2>2 DEF RiskTypeOK
    <3>2. X \in SUBSET {x \in Orders : counted[x] # -1}
      BY <3>1
    <3>3. \E x \in X : counted[x] >= Cardinality(X) - 1
      BY <3>2 DEF SomeoneCounted
    <3> QED
      BY <3>1, <3>3
  <2> QED
    BY <2>1, <2>2
<1> QED
  BY <1>2, <1>3, <1>5, <1>6

LEMMA ReadPositions_Inv ==
    ASSUME RiskInv, NEW o \in Orders, ReadPositions(o)
    PROVE  RiskInv'
<1> USE RiskConstants DEF ReadPositions, RiskInv
<1> DEFINE F == {x \in Orders : seen'[x] # <<>> /\ phase[x] \in {"reading", "sent"}}
<1>0. position \in [Traded -> Int] /\ position # <<>>
  BY ReadIsNotEmpty DEF RiskTypeOK
<1>1. seen' = [seen EXCEPT ![o] = position] /\ seen'[o] = position
      /\ \A x \in Orders \ {o} : seen'[x] = seen[x]
  BY DEF RiskTypeOK
<1>2. /\ IsFiniteSet(F) /\ Cardinality(F) \in Nat /\ o \in F
      /\ crowd' \in Nat /\ crowd' >= crowd /\ crowd' >= Cardinality(F)
  <2>1. F \subseteq Orders /\ IsFiniteSet(F)
    BY FS_Subset
  <2>2. Cardinality(F) \in Nat
    BY <2>1, FS_CardinalityType
  <2>3. crowd' = Max({crowd, Cardinality(F)})
    BY DEF Crowd
  <2>4. o \in F
    BY <1>0, <1>1
  <2> HIDE DEF F
  <2>5. crowd \in Nat
    BY DEF ReadInOrder
  <2> DEFINE both == {crowd, Cardinality(F)}
  <2>6. \E m \in both : \A y \in both : m >= y
    BY <2>2, <2>5
  <2> HIDE DEF both
  <2>7. Max(both) \in both /\ \A y \in both : Max(both) >= y
    BY <2>6 DEF Max
  <2> QED
    BY <2>1, <2>2, <2>3, <2>4, <2>5, <2>7 DEF both
<1>3. RiskTypeOK'
  BY <1>0, <1>1 DEF RiskTypeOK
<1>4. ReadInOrder'
  BY <1>0, <1>1, <1>2 DEF ReadInOrder, RiskTypeOK
<1>5. FillsBounded'
  <2> DEFINE sumNow == SumFunctionOnSet(Notional, MayFill)
             sumThen == SumFunctionOnSet(Notional, MayFill')
  <2>1. MayFill' \ {o} = MayFill /\ MayFill' \subseteq F
    BY <1>1 DEF MayFill
  <2>2. MayFill \subseteq Orders /\ MayFill' \subseteq Orders
    BY <1>1 DEF MayFill
  <2>3. sumNow \in Nat /\ sumThen \in Nat
    BY <2>2, FewerFills
  <2>4. Gross(position) \in Nat
    BY <1>0, GrossNat
  <2>5. Gross(position) + sumNow <= Policy.maxGrossExposure + Excess
    BY DEF FillsBounded
  <2>6. Excess \in Int /\ Excess' \in Int /\ Excess <= Excess'
    <3> DEFINE m == Policy.maxOrderNotional
               k == IF crowd = 0 THEN 0 ELSE crowd - 1
               l == IF crowd' = 0 THEN 0 ELSE crowd' - 1
    <3>1. m \in Nat /\ k \in Nat /\ l \in Nat /\ k <= l
      BY <1>2 DEF ReadInOrder
    <3>2. Excess = k * m /\ Excess' = l * m
      BY DEF Excess
    <3> HIDE DEF m, k, l
    <3>3. k * m <= l * m /\ k * m \in Int /\ l * m \in Int
      BY <3>1
    <3> QED
      BY <3>2, <3>3
  <2>7. Notional' = Notional /\ Gross(position)' = Gross(position)
    BY DEF Notional, Gross, Traded
  <2>8. CASE o \notin MayFill'
    <3>1. sumThen = sumNow
      <4>1. MayFill' = MayFill
        BY <2>1, <2>8
      <4> QED
        BY <4>1
    <3> HIDE DEF sumNow, sumThen
    <3>2. Gross(position) + sumThen <= Policy.maxGrossExposure + Excess'
      BY <2>3, <2>4, <2>5, <2>6, <3>1
    <3> QED
      BY <2>7, <3>2 DEF FillsBounded, sumThen
  <2>9. CASE o \in MayFill'
    <3> DEFINE others == MayFill' \ {o}
               m == Policy.maxOrderNotional
               k == Cardinality(F) - 1
    <3>1. IsFiniteSet(MayFill') /\ IsFiniteSet(others)
      BY <2>2, FS_Subset
    <3>2. sumThen = Notional[o] + SumFunctionOnSet(Notional, others)
      <4>1. \A x \in MayFill' : Notional[x] \in Int
        BY <2>2 DEF Notional
      <4> HIDE DEF sumThen, others
      <4> QED
        BY <2>9, <3>1, <4>1, SumRemove DEF sumThen, others
    <3>3. SumFunctionOnSet(Notional, others) <= Cardinality(others) * m
      <4>1. \A x \in others : Notional[x] \in Int /\ Notional[x] <= m
        BY <2>1 DEF MayFill, Notional
      <4>2. m \in Int
        OBVIOUS
      <4> HIDE DEF others, m
      <4> QED
        BY <3>1, <4>1, <4>2, SumBound
    <3>4. Cardinality(others) \in Nat /\ Cardinality(others) <= k
      <4>1. others \subseteq F \ {o}
        BY <2>1
      <4>2. IsFiniteSet(F \ {o}) /\ Cardinality(F \ {o}) = Cardinality(F) - 1
        BY <1>2, FS_RemoveElement
      <4> HIDE DEF others, F
      <4> QED
        BY <3>1, <4>1, <4>2, FS_Subset, FS_CardinalityType DEF k
    <3>5. SumFunctionOnSet(Notional, others) \in Int
      <4>1. \A x \in others : Notional[x] \in Int
        BY <2>2 DEF Notional
      <4> QED
        BY <3>1, <4>1, SumInt
    <3>6. Gross(position) + Notional[o] <= Policy.maxGrossExposure
      <4>1. seen'[o] = position /\ WithinExposure(Wanted[o], seen[o])'
        BY <1>1, <2>9 DEF MayFill
      <4>2. WithinExposure(Wanted[o], position)
        BY <4>1 DEF WithinExposure, Gross, Traded
      <4> QED
        BY <4>2 DEF WithinExposure, Notional
    <3>7. Excess' >= k * m
      <4> DEFINE l == crowd' - 1
      <4>1. Excess' = l * m /\ l \in Nat /\ k \in Nat /\ m \in Nat /\ k <= l
        <5>1. Cardinality(F) # 0
          BY <1>2, FS_EmptySet
        <5> HIDE DEF F
        <5> QED BY <1>2, <5>1 DEF Excess
      <4> HIDE DEF l, m, k
      <4>2. k * m <= l * m
        BY <4>1
      <4> QED
        BY <4>1, <4>2
    <3>8. Cardinality(others) * m <= k * m /\ Cardinality(others) * m \in Int /\ k * m \in Int
      <4> DEFINE c == Cardinality(others)
      <4>1. c \in Nat /\ k \in Int /\ m \in Nat /\ c <= k
        <5> HIDE DEF F
        <5> QED BY <1>2, <3>4
      <4> HIDE DEF c, m, k
      <4>2. c * m <= k * m /\ c * m \in Int /\ k * m \in Int
        BY <4>1
      <4> QED
        BY <4>2 DEF c
    <3> DEFINE so == SumFunctionOnSet(Notional, others)
               cm == Cardinality(others) * m
               km == k * m
               n == Notional[o]
    <3>9. n \in Int
      BY DEF Notional
    <3>10. Gross(position) + (n + so) <= Policy.maxGrossExposure + Excess'
      <4> HIDE DEF so, cm, km, n
      <4> QED
        BY <2>4, <2>6, <3>3, <3>5, <3>6, <3>7, <3>8, <3>9 DEF so, cm, km, n
    <3> HIDE DEF so
    <3>11. Gross(position) + sumThen <= Policy.maxGrossExposure + Excess'
      BY <3>2, <3>10 DEF so
    <3> QED
      BY <2>7, <3>11 DEF FillsBounded
  <2> QED
    BY <2>8, <2>9
<1>6. SomeoneCounted'
  BY CountsKept
<1> QED
  BY <1>3, <1>4, <1>5, <1>6

LEMMA Decide_Inv ==
    ASSUME RiskInv, NEW o \in Orders, NEW account \in Accounts, NEW quote \in Quotes,
           Decide(o, account, quote)
    PROVE  RiskInv'
<1> USE RiskConstants DEF Decide, RiskInv
<1>1. RiskTypeOK'
  BY DEF RiskTypeOK
<1>2. ReadInOrder'
  <2> DEFINE admitted == Admitted(Wanted[o], account, seen[o], quote, counted[o])
  <2>1. admitted => /\ counted[o] < Policy.maxOrdersPerMinute
                    /\ Wanted[o].notional <= Policy.maxOrderNotional
                    /\ WithinExposure(Wanted[o], seen[o])
    BY DEF Admitted
  <2>2. phase' = [phase EXCEPT ![o] = IF admitted THEN "sent" ELSE "refused"]
    OBVIOUS
  <2> HIDE DEF admitted
  <2> QED
    BY <2>1, <2>2 DEF ReadInOrder, RiskTypeOK
<1>3. MayFill' \subseteq MayFill
  BY DEF MayFill, RiskTypeOK
<1>4. FillsBounded'
  BY <1>3, FillsKept
<1>5. SomeoneCounted'
  BY CountsKept
<1> QED
  BY <1>1, <1>2, <1>4, <1>5

LEMMA GiveUp_Inv ==
    ASSUME RiskInv, NEW o \in Orders, GiveUp(o)
    PROVE  RiskInv'
<1> USE RiskConstants DEF GiveUp, RiskInv
<1>1. RiskTypeOK'
  BY DEF RiskTypeOK
<1>2. ReadInOrder'
  BY DEF ReadInOrder, RiskTypeOK
<1>3. MayFill' \subseteq MayFill
  BY DEF MayFill, RiskTypeOK
<1>4. FillsBounded'
  BY <1>3, FillsKept
<1>5. SomeoneCounted'
  BY CountsKept
<1> QED
  BY <1>1, <1>2, <1>4, <1>5

LEMMA Fill_Inv ==
    ASSUME RiskInv, NEW o \in Orders, Fill(o)
    PROVE  RiskInv'
<1> USE RiskConstants DEF Fill, RiskInv
<1> DEFINE s == Wanted[o].symbol
           n == Wanted[o].notional
           d == Wanted[o].side
<1>0. s \in Traded /\ n \in Nat /\ d \in {-1, 1} /\ d * n \in Int
  OBVIOUS
<1>1. RiskTypeOK'
  BY <1>0 DEF RiskTypeOK
<1>2. ReadInOrder'
  BY DEF ReadInOrder, RiskTypeOK
<1>3. FillsBounded'
  <2> DEFINE sumNow == SumFunctionOnSet(Notional, MayFill)
             sumThen == SumFunctionOnSet(Notional, MayFill')
  <2>1. o \in MayFill /\ MayFill \subseteq Orders
    BY DEF MayFill, ReadInOrder
  <2>2. MayFill' \subseteq MayFill \ {o}
    BY DEF MayFill, RiskTypeOK
  <2>3. sumNow = n + SumFunctionOnSet(Notional, MayFill \ {o})
    <3>1. IsFiniteSet(MayFill)
      BY <2>1, FS_Subset
    <3>2. \A x \in MayFill : Notional[x] \in Int
      BY <2>1 DEF Notional
    <3>3. Notional[o] = n
      BY DEF Notional
    <3> QED
      BY <2>1, <3>1, <3>2, <3>3, SumRemove
  <2>4. sumThen <= SumFunctionOnSet(Notional, MayFill \ {o}) /\ sumThen \in Nat
        /\ SumFunctionOnSet(Notional, MayFill \ {o}) \in Nat
    BY <2>1, <2>2, FewerFills
  <2>5. Gross(position') <= Gross(position) + n
    BY <1>0, GrossAfterFill DEF RiskTypeOK
  <2>6. Gross(position) \in Nat /\ Gross(position') \in Nat
    BY <1>1, GrossNat DEF RiskTypeOK, Traded
  <2>7. Gross(position) + sumNow <= Policy.maxGrossExposure + Excess
    BY DEF FillsBounded
  <2>8. Excess \in Int /\ Excess' = Excess
    BY DEF Excess, ReadInOrder
  <2> DEFINE rest == SumFunctionOnSet(Notional, MayFill \ {o})
             g == Gross(position)
             h == Gross(position')
  <2>9. h + sumThen <= Policy.maxGrossExposure + Excess
    <3> HIDE DEF rest, g, h, sumNow, sumThen
    <3> QED
      BY <1>0, <2>3, <2>4, <2>5, <2>6, <2>7, <2>8 DEF rest, g, h
  <2>10. Notional' = Notional /\ Gross(position)' = h
    BY DEF Notional, Gross, Traded
  <2> HIDE DEF h, sumNow
  <2> QED
    BY <2>8, <2>9, <2>10 DEF FillsBounded
<1>4. SomeoneCounted'
  BY CountsKept
<1> QED
  BY <1>1, <1>2, <1>3, <1>4

LEMMA Second_Inv ==
    ASSUME RiskInv, Second
    PROVE  RiskInv'
<1> USE RiskConstants DEF Second, RiskInv
<1>1. RiskTypeOK'
  BY DEF RiskTypeOK
<1>2. ReadInOrder'
  BY DEF ReadInOrder, RiskTypeOK
<1>3. MayFill' \subseteq MayFill
  BY DEF MayFill
<1>4. FillsBounded'
  BY <1>3, FillsKept
<1>5. SomeoneCounted'
  BY CountsKept
<1> QED
  BY <1>1, <1>2, <1>4, <1>5

LEMMA RiskStutter_Inv ==
    ASSUME RiskInv, UNCHANGED riskVars
    PROVE  RiskInv'
<1> USE DEF RiskInv, riskVars
<1>1. RiskTypeOK' /\ ReadInOrder'
  BY DEF RiskTypeOK, ReadInOrder
<1>2. MayFill' \subseteq MayFill
  BY DEF MayFill
<1>3. FillsBounded'
  BY <1>2, FillsKept
<1>4. SomeoneCounted'
  BY CountsKept
<1> QED
  BY <1>1, <1>3, <1>4

\* The limits hold where the invariant does.
LEMMA RiskInvHeld == RiskInv => RiskHeld
<1> SUFFICES ASSUME RiskInv PROVE RiskHeld
  OBVIOUS
<1> USE RiskConstants DEF RiskInv
<1>1. ExposureBounded
  <2>1. SumFunctionOnSet(Notional, MayFill) \in Nat
    <3>1. MayFill \subseteq Orders
      BY DEF MayFill
    <3> QED
      BY <3>1, FewerFills
  <2>2. Gross(position) \in Nat
    BY GrossNat DEF RiskTypeOK
  <2>3. Excess \in Int
    BY DEF Excess, ReadInOrder
  <2>4. Gross(position) <= Policy.maxGrossExposure + Excess
    <3> DEFINE g == Gross(position)
               t == SumFunctionOnSet(Notional, MayFill)
    <3>1. g + t <= Policy.maxGrossExposure + Excess
      BY DEF FillsBounded
    <3> HIDE DEF g, t
    <3>2. g <= Policy.maxGrossExposure + Excess
      BY <2>1, <2>2, <2>3, <3>1 DEF g, t
    <3> QED
      BY <3>2 DEF g
  <2> QED
    BY <2>4 DEF ExposureBounded, Excess
<1>2. RateHeld
  <2> SUFFICES ASSUME NEW from \in 0 .. second
               PROVE  Cardinality({o \in Orders : /\ phase[o] \in {"sent", "filled"}
                                                  /\ created[o] \in from .. from + Minute - Delay})
                        <= Policy.maxOrdersPerMinute
    BY DEF RateHeld
  <2> DEFINE X == {o \in Orders : /\ phase[o] \in {"sent", "filled"}
                                  /\ created[o] \in from .. from + Minute - Delay}
  <2>1. IsFiniteSet(X) /\ Cardinality(X) \in Nat
    BY FS_Subset, FS_CardinalityType
  <2>2. CASE X = {}
    <3>1. Cardinality(X) = 0
      BY <2>2, FS_EmptySet
    <3> QED
      BY <3>1
  <2>3. CASE X # {}
    <3>1. X \in SUBSET {o \in Orders : counted[o] # -1}
      BY DEF ReadInOrder
    <3>2. \A o \in X : created[o] \in from .. from + Minute - Delay
      OBVIOUS
    <3>3. from \in Nat
      BY DEF RiskTypeOK
    <3>4. PICK o \in X : counted[o] >= Cardinality(X) - 1
      <4> HIDE DEF X
      <4> QED BY <2>3, <3>1, <3>2, <3>3 DEF SomeoneCounted
    <3>5. counted[o] \in 0 .. Policy.maxOrdersPerMinute - 1
      BY DEF ReadInOrder
    <3> HIDE DEF X
    <3>6. Cardinality(X) <= Policy.maxOrdersPerMinute
      BY <2>1, <3>4, <3>5
    <3> QED
      BY <3>6 DEF X
  <2> QED
    BY <2>2, <2>3
<1> QED
  BY <1>1, <1>2 DEF RiskHeld

\* Inductive invariant of the gate.
THEOREM RiskInductive == RiskSpec => []RiskInv
<1>1. RiskInv /\ [RiskNext]_riskVars => RiskInv'
  BY WriteRow_Inv, ReadCount_Inv, ReadPositions_Inv, Decide_Inv, GiveUp_Inv, Fill_Inv, Second_Inv,
     RiskStutter_Inv DEF RiskNext
<1> QED
  BY RiskInit_Inv, <1>1, PTL DEF RiskSpec

\* The exposure exceeds the limit of evaluateOrderRisk by no more than the orders under way
\* together could add, although none of them saw the others.
THEOREM RiskLimitsHold == RiskSpec => []RiskHeld
BY RiskInductive, RiskInvHeld, PTL

(***************************************************************************)
(* The entry gates                                                         *)
(* The losses that stay in the window, and the positions a tick may add.   *)
(***************************************************************************)

SaleSet == [symbol : Pairs, pnl : Profits, at : Nat]

\* The variables the losses depend on.
LossTypes ==
    /\ gates \in Gates /\ minute \in Nat /\ unchecked \in Nat
    /\ sells \in Seq(SaleSet)
    /\ \A n \in DOMAIN sells : sells[n].at <= minute
    /\ holding \subseteq Pairs /\ pending \subseteq Pairs
    /\ closed \subseteq Pairs \X Profits /\ IsFiniteSet(closed)
    /\ snapshot = None => pending = {}

\* In a tick that could reconcile every symbol is open, or closed and not yet recorded, at
\* most once, and one it may still enter is neither.
OpenOnce ==
    (snapshot # None /\ ~blind) =>
        /\ \A c, d \in closed : c[1] = d[1] => c = d
        /\ \A c \in closed : c[1] \notin holding
        /\ \A s \in pending \ snapshot : s \notin holding /\ \A c \in closed : c[1] # s

\* The losses of the window, and those that are open or not recorded, are within the bound.
RoomLeft ==
    (gates.tradeLimit >= 1 /\ ~gates.perPair) =>
        Losses(Recent(Pairs)) + Cardinality(closed) + Cardinality(holding)
            <= gates.tradeLimit + Cardinality(Pairs) - 1 + unchecked

GateInv == LossTypes /\ OpenOnce /\ RoomLeft /\ LossesBounded

-----------------------------------------------------------------------------

LEMMA SalesTyped ==
    ASSUME NEW q \in Seq(SaleSet)
    PROVE  /\ Len(q) \in Nat /\ DOMAIN q = 1 .. Len(q)
           /\ \A n \in DOMAIN q : q[n] \in SaleSet /\ q[n].symbol \in Pairs /\ q[n].at \in Nat
<1>1. Len(q) \in Nat /\ DOMAIN q = 1 .. Len(q)
  BY LenProperties
<1>2. \A n \in DOMAIN q : q[n] \in SaleSet
  BY <1>1, ElementOfSeq
<1> QED
  BY <1>1, <1>2 DEF SaleSet

LEMMA GateFinite ==
    ASSUME LossTypes
    PROVE  /\ IsFiniteSet(Pairs) /\ Cardinality(Pairs) \in Nat
           /\ IsFiniteSet(holding) /\ Cardinality(holding) \in Nat /\ Cardinality(holding) <= Cardinality(Pairs)
           /\ IsFiniteSet(closed) /\ Cardinality(closed) \in Nat
           /\ IsFiniteSet(DOMAIN sells) /\ Len(sells) \in Nat /\ DOMAIN sells = 1 .. Len(sells)
           /\ IsFiniteSet(Losing(Recent(Pairs))) /\ Losses(Recent(Pairs)) \in Nat
           /\ gates.tradeLimit \in Nat /\ gates.lookback \in Nat
<1>1. IsFiniteSet(Pairs) /\ IsFiniteSet(holding) /\ Cardinality(holding) <= Cardinality(Pairs)
  BY GateAssumption, FS_Subset DEF LossTypes
<1>2. Len(sells) \in Nat /\ DOMAIN sells = 1 .. Len(sells)
  BY DEF LossTypes
<1>3. IsFiniteSet(DOMAIN sells)
  BY <1>2, FS_Interval
<1>4. IsFiniteSet(Losing(Recent(Pairs)))
  BY <1>3, FS_Subset DEF Losing, Recent
<1> QED
  BY <1>1, <1>2, <1>3, <1>4, GateAssumption, FS_CardinalityType DEF Losses, LossTypes

\* The losing sales of a window that ends now.
LEMMA LossesOfWindow ==
    ASSUME LossTypes
    PROVE  Losing(Recent(Pairs)) =
             {m \in DOMAIN sells : sells[m].pnl < 0 /\ sells[m].at >= minute - gates.lookback}
<1>2. \A n \in DOMAIN sells : sells[n].symbol \in Pairs
  BY SalesTyped DEF LossTypes
<1> QED
  BY <1>2 DEF Losing, Recent

\* Sales recorded now: the window gains no more losses than there are sales, and if it has
\* room for them the bound holds at each of them.
LEMMA SalesRecorded ==
    ASSUME LossTypes, LossTypes', LossesBounded, NEW k \in Nat,
           UNCHANGED <<gates, minute, unchecked>>,
           Len(sells') = Len(sells) + k,
           \A n \in 1 .. Len(sells) : sells'[n] = sells[n],
           \A n \in Len(sells) + 1 .. Len(sells) + k : sells'[n].at = minute
    PROVE  /\ Losses(Recent(Pairs))' \in Nat /\ Losses(Recent(Pairs))' <= Losses(Recent(Pairs)) + k
           /\ RoomLeft' => LossesBounded'
<1> DEFINE now == Losing(Recent(Pairs))
           new == Len(sells) + 1 .. Len(sells) + k
           then == {m \in DOMAIN sells' : sells'[m].pnl < 0 /\ sells'[m].at >= minute - gates.lookback}
<1>1. /\ Losing(Recent(Pairs))' = then /\ IsFiniteSet(then)
      /\ Losses(Recent(Pairs))' = Cardinality(then) /\ Losses(Recent(Pairs)) = Cardinality(now)
      /\ Cardinality(then) \in Nat
  <2>1. Losing(Recent(Pairs))' = then
    <3>1. sells' \in Seq(SaleSet)
      BY DEF LossTypes, SaleSet
    <3>2. \A n \in DOMAIN sells' : sells'[n].symbol \in Pairs
      BY <3>1, SalesTyped
    <3> QED
      BY <3>2 DEF Losing, Recent
  <2>2. DOMAIN sells' = 1 .. Len(sells') /\ Len(sells') \in Nat
    BY DEF LossTypes
  <2>3. IsFiniteSet(then)
    <3>1. IsFiniteSet(1 .. Len(sells'))
      BY <2>2, FS_Interval
    <3> QED
      BY <2>2, <3>1, FS_Subset
  <2> QED
    BY <2>1, <2>3, FS_CardinalityType DEF Losses
<1>2. /\ Len(sells) \in Nat /\ DOMAIN sells = 1 .. Len(sells)
      /\ DOMAIN sells' = 1 .. (Len(sells) + k)
      /\ now = {m \in DOMAIN sells : sells[m].pnl < 0 /\ sells[m].at >= minute - gates.lookback}
  BY LossesOfWindow DEF LossTypes
<1>3. Cardinality(then) <= Cardinality(now) + k
  <2>1. then \subseteq now \union new
    BY <1>2
  <2>2. IsFiniteSet(now) /\ Cardinality(now) \in Nat
    BY GateFinite, FS_CardinalityType
  <2>3. IsFiniteSet(new) /\ Cardinality(new) = k
    BY <1>2, FS_Interval
  <2> HIDE DEF now, new, then
  <2>4. IsFiniteSet(now \union new) /\ Cardinality(now \union new) <= Cardinality(now) + k
        /\ Cardinality(now \union new) \in Nat
    <3>1. IsFiniteSet(now \union new) /\ Cardinality(now \union new) <= Cardinality(now) + Cardinality(new)
      <4>1. IsFiniteSet(now \cap new) /\ Cardinality(now \cap new) \in Nat
        BY <2>2, FS_Subset, FS_CardinalityType
      <4>2. IsFiniteSet(now \union new)
            /\ Cardinality(now \union new) = Cardinality(now) + Cardinality(new) - Cardinality(now \cap new)
        BY <2>2, <2>3, FS_Union
      <4> QED
        BY <2>2, <2>3, <4>1, <4>2
    <3> QED
      BY <2>3, <3>1, FS_CardinalityType
  <2>5. Cardinality(then) <= Cardinality(now \union new)
    BY <2>1, <2>4, FS_Subset
  <2> QED
    BY <1>1, <2>2, <2>4, <2>5
<1>4. ASSUME RoomLeft' PROVE LossesBounded'
  <2> SUFFICES ASSUME gates.tradeLimit >= 1, ~gates.perPair, NEW n \in DOMAIN sells'
               PROVE  Cardinality({m \in 1 .. n : sells'[m].pnl < 0 /\ sells'[m].at >= sells'[n].at - gates.lookback})
                        <= gates.tradeLimit + Cardinality(Pairs) - 1 + unchecked
    BY DEF LossesBounded
  <2>1. CASE n \in 1 .. Len(sells)
    <3>1. {m \in 1 .. n : sells'[m].pnl < 0 /\ sells'[m].at >= sells'[n].at - gates.lookback}
            = {m \in 1 .. n : sells[m].pnl < 0 /\ sells[m].at >= sells[n].at - gates.lookback}
      BY <1>2, <2>1
    <3> QED
      BY <1>2, <2>1, <3>1 DEF LossesBounded
  <2>2. CASE n \notin 1 .. Len(sells)
    <3> DEFINE these == {m \in 1 .. n : sells'[m].pnl < 0 /\ sells'[m].at >= sells'[n].at - gates.lookback}
    <3>1. sells'[n].at = minute
      BY <1>2, <2>2
    <3>2. these \subseteq then
      BY <1>2, <3>1
    <3>3. Cardinality(these) <= Cardinality(then) /\ Cardinality(these) \in Nat
      BY <1>1, <3>2, FS_Subset, FS_CardinalityType
    <3>4. Cardinality(then) + Cardinality(closed') + Cardinality(holding')
            <= gates.tradeLimit + Cardinality(Pairs) - 1 + unchecked
      BY <1>1, <1>4 DEF RoomLeft
    <3>5. Cardinality(closed') \in Nat /\ Cardinality(holding') \in Nat
      BY GateAssumption, FS_Subset, FS_CardinalityType DEF LossTypes
    <3>6. gates.tradeLimit \in Nat /\ Cardinality(Pairs) \in Nat /\ unchecked \in Nat
      BY GateFinite DEF LossTypes
    <3> HIDE DEF these, then
    <3>7. Cardinality(these) <= gates.tradeLimit + Cardinality(Pairs) - 1 + unchecked
      BY <1>1, <3>3, <3>4, <3>5, <3>6
    <3> QED
      BY <3>7 DEF these
  <2> QED
    BY <2>1, <2>2
<1> HIDE DEF now, then
<1> QED
  BY <1>1, <1>3, <1>4

\* Steps that record no sale.
LEMMA SalesKept ==
    ASSUME LossesBounded, LossTypes, UNCHANGED <<gates, sells>>, unchecked' \in Nat, unchecked' >= unchecked
    PROVE  LossesBounded'
<1> SUFFICES ASSUME gates.tradeLimit >= 1, ~gates.perPair, NEW n \in DOMAIN sells
             PROVE  Cardinality({m \in 1 .. n : sells[m].pnl < 0 /\ sells[m].at >= sells[n].at - gates.lookback})
                      <= gates.tradeLimit + Cardinality(Pairs) - 1 + unchecked'
  BY DEF LossesBounded
<1> DEFINE these == {m \in 1 .. n : sells[m].pnl < 0 /\ sells[m].at >= sells[n].at - gates.lookback}
<1>1. Cardinality(these) <= gates.tradeLimit + Cardinality(Pairs) - 1 + unchecked
  BY DEF LossesBounded
<1>2. IsFiniteSet(these) /\ Cardinality(these) \in Nat
  <2>1. n \in Nat
    BY DEF LossTypes
  <2>2. IsFiniteSet(1 .. n)
    BY <2>1, FS_Interval
  <2> QED
    BY <2>2, FS_Subset, FS_CardinalityType
<1>3. gates.tradeLimit \in Nat /\ Cardinality(Pairs) \in Nat /\ unchecked \in Nat
  BY GateFinite DEF LossTypes
<1> HIDE DEF these
<1>4. Cardinality(these) <= gates.tradeLimit + Cardinality(Pairs) - 1 + unchecked'
  BY <1>1, <1>2, <1>3
<1> QED
  BY <1>4 DEF these

LEMMA GateInit_Inv == GateInit => GateInv
<1> SUFFICES ASSUME GateInit PROVE GateInv
  OBVIOUS
<1> USE DEF GateInit
<1>1. LossTypes
  BY FS_EmptySet, GateAssumption DEF LossTypes
<1>2. OpenOnce
  BY DEF OpenOnce
<1>3. RoomLeft
  <2>1. Losing(Recent(Pairs)) = {}
    BY DEF Losing, Recent
  <2>2. Losses(Recent(Pairs)) = 0 /\ Cardinality(closed) = 0 /\ Cardinality(holding) = 0
    BY <2>1, FS_EmptySet DEF Losses
  <2>3. gates.tradeLimit \in Nat /\ Cardinality(Pairs) \in Nat
    BY <1>1, GateFinite
  <2> QED
    BY <2>2, <2>3 DEF RoomLeft
<1>4. LossesBounded
  BY DEF LossesBounded
<1> QED
  BY <1>1, <1>2, <1>3, <1>4 DEF GateInv

LEMMA StartTick_Inv == ASSUME GateInv, StartTick PROVE GateInv'
<1> USE DEF GateInv, StartTick
<1>0. /\ Len(sells) \in Nat /\ Cardinality(closed) \in Nat /\ DOMAIN sells = 1 .. Len(sells)
      /\ sells \in Seq(SaleSet)
  BY GateFinite DEF LossTypes
<1>1. CASE \E order \in SetToSeqs(closed) :
             sells' = sells \o [n \in DOMAIN order |-> Sale(order[n])] /\ closed' = {} /\ blind' = FALSE
  <2> DEFINE k == Cardinality(closed)
  <2>1. PICK order \in [1 .. k -> closed] :
           sells' = sells \o [n \in DOMAIN order |-> Sale(order[n])]
    BY <1>1 DEF SetToSeqs
  <2> DEFINE more == [n \in 1 .. k |-> Sale(order[n])]
  <2>2. more \in Seq(SaleSet) /\ Len(more) = k
        /\ \A n \in 1 .. k : more[n].at = minute
    <3>1. \A n \in 1 .. k : Sale(order[n]) \in SaleSet /\ Sale(order[n]).at = minute
      BY <2>1 DEF Sale, SaleSet, LossTypes
    <3>2. k \in Nat
      BY <1>0
    <3> HIDE DEF k
    <3> QED
      BY <3>1, <3>2
  <2>3. sells' = sells \o more
    BY <2>1
  <2>4. /\ sells' \in Seq(SaleSet)
        /\ Len(sells') = Len(sells) + k
        /\ \A n \in 1 .. Len(sells) : sells'[n] = sells[n]
        /\ \A n \in Len(sells) + 1 .. Len(sells) + k : sells'[n].at = minute
    <3> HIDE DEF more, k
    <3>1. \A n \in 1 .. Len(sells) + k : sells'[n] = IF n <= Len(sells) THEN sells[n] ELSE more[n - Len(sells)]
      <4>1. \A n \in 1 .. Len(sells) + Len(more) : sells'[n] = IF n <= Len(sells) THEN sells[n] ELSE more[n - Len(sells)]
        BY <1>0, <2>2, <2>3, ConcatProperties
      <4> QED
        BY <2>2, <4>1
    <3>5. sells' \in Seq(SaleSet) /\ Len(sells') = Len(sells) + k
      BY <1>0, <2>2, <2>3, ConcatProperties
    <3>2. \A n \in Len(sells) + 1 .. Len(sells) + k : n - Len(sells) \in 1 .. k /\ ~ (n <= Len(sells))
      BY <1>0 DEF k
    <3>3. \A n \in Len(sells) + 1 .. Len(sells) + k : sells'[n].at = minute
      BY <2>2, <3>1, <3>2, <1>0 DEF k
    <3>4. \A n \in 1 .. Len(sells) : sells'[n] = sells[n]
      <4>1. k \in Nat
        BY <1>0 DEF k
      <4>2. \A n \in 1 .. Len(sells) : n \in 1 .. Len(sells) + k /\ n <= Len(sells)
        BY <1>0, <4>1
      <4> QED
        BY <3>1, <4>2
    <3> QED
      BY <3>3, <3>4, <3>5
  <2>5. LossTypes'
    <3>1. \A n \in DOMAIN sells' : sells'[n].at <= minute
      <4>1. \A n \in DOMAIN sells' : n \in 1 .. Len(sells) \/ n \in Len(sells) + 1 .. Len(sells) + k
        BY <1>0, <2>4
      <4> HIDE DEF k
      <4>2. \A n \in Len(sells) + 1 .. Len(sells) + k : sells'[n].at <= minute
        BY <2>4 DEF LossTypes
      <4>3. \A n \in 1 .. Len(sells) : sells'[n].at <= minute
        BY <1>0, <2>4 DEF LossTypes
      <4> QED
        BY <4>1, <4>2, <4>3
    <3>2. snapshot' # None
      BY GateAssumption DEF LossTypes, None
    <3>3. IsFiniteSet(closed') /\ closed' = {}
      BY <1>1, FS_EmptySet
    <3> QED
      BY <2>4, <3>1, <3>2, <3>3 DEF LossTypes
  <2>6. Losses(Recent(Pairs))' \in Nat /\ Losses(Recent(Pairs))' <= Losses(Recent(Pairs)) + k /\ (RoomLeft' => LossesBounded')
    <3> HIDE DEF more
    <3> QED BY <1>0, <2>4, <2>5, SalesRecorded
  <2>7. RoomLeft'
    <3>1. Cardinality(closed') = 0 /\ Cardinality(holding') = Cardinality(holding)
      BY <1>1, FS_EmptySet
    <3>3. /\ Losses(Recent(Pairs)) \in Nat /\ Cardinality(holding) \in Nat /\ gates.tradeLimit \in Nat
          /\ Cardinality(Pairs) \in Nat /\ unchecked \in Nat
      BY GateFinite DEF LossTypes
    <3> QED
      BY <1>0, <2>6, <3>1, <3>3 DEF RoomLeft
  <2>8. OpenOnce'
    BY <1>1 DEF OpenOnce
  <2> QED
    BY <2>5, <2>6, <2>7, <2>8
<1>2. CASE blind' = TRUE /\ UNCHANGED <<closed, sells>>
  <2>1. snapshot' # None
    BY GateAssumption DEF LossTypes, None
  <2>2. LossTypes'
    BY <1>2, <2>1 DEF LossTypes
  <2>3. OpenOnce'
    BY <1>2 DEF OpenOnce
  <2>4. RoomLeft'
    BY <1>2 DEF RoomLeft, Losses, Losing, Recent
  <2>5. LossesBounded'
    BY <1>2 DEF LossesBounded
  <2> QED
    BY <2>2, <2>3, <2>4, <2>5
<1> QED
  BY <1>1, <1>2

LEMMA EndChecks_Inv == ASSUME GateInv, EndChecks PROVE GateInv'
<1> USE DEF GateInv, EndChecks
<1>1. LossTypes' /\ OpenOnce'
  BY DEF LossTypes, OpenOnce
<1>2. RoomLeft' /\ LossesBounded'
  BY DEF RoomLeft, Losses, Losing, Recent, LossesBounded
<1> QED
  BY <1>1, <1>2

LEMMA PassOver_Inv == ASSUME GateInv, NEW s \in Pairs, PassOver(s) PROVE GateInv'
<1> USE DEF GateInv, PassOver
<1>1. LossTypes' /\ OpenOnce'
  BY DEF LossTypes, OpenOnce
<1>2. RoomLeft' /\ LossesBounded'
  BY DEF RoomLeft, Losses, Losing, Recent, LossesBounded
<1> QED
  BY <1>1, <1>2

LEMMA Enter_Inv == ASSUME GateInv, NEW s \in Pairs, Enter(s) PROVE GateInv'
<1> USE DEF GateInv
<1>0. /\ s \in pending /\ s \notin snapshot /\ snapshot # None
      /\ holding' = holding \union {s} /\ pending' = pending \ {s}
      /\ UNCHANGED <<gates, minute, closed, sells, snapshot, blind>>
      /\ \/ ~Blocked(s) /\ ~blind /\ unchecked' = unchecked
         \/ unchecked' = unchecked + 1
  BY DEF Enter, LossTypes
<1>1. LossTypes'
  BY <1>0 DEF LossTypes
<1>2. OpenOnce'
  BY <1>0 DEF OpenOnce
<1>3. IsFiniteSet(holding') /\ Cardinality(holding') <= Cardinality(holding) + 1
      /\ Cardinality(holding') \in Nat
  <2>1. IsFiniteSet(holding) /\ Cardinality(holding) \in Nat
    BY GateFinite
  <2>2. IsFiniteSet(holding \union {s})
        /\ Cardinality(holding \union {s}) = IF s \in holding THEN Cardinality(holding) ELSE Cardinality(holding) + 1
    BY <2>1, FS_AddElement
  <2> QED
    BY <1>0, <2>1, <2>2
<1>4. Losses(Recent(Pairs))' = Losses(Recent(Pairs))
  BY <1>0 DEF Losses, Losing, Recent
<1>5. /\ Losses(Recent(Pairs)) \in Nat /\ Cardinality(holding) \in Nat /\ gates.tradeLimit \in Nat
      /\ Cardinality(Pairs) \in Nat /\ unchecked \in Nat /\ Cardinality(closed) \in Nat
  BY GateFinite DEF LossTypes
<1>6. RoomLeft'
  <2>1. CASE unchecked' = unchecked + 1
    <3> DEFINE l == Losses(Recent(Pairs))
    <3>1. Losses(Recent(Pairs))' = l
      BY <1>4
    <3>2. (gates.tradeLimit >= 1 /\ ~gates.perPair) =>
             l + Cardinality(closed) + Cardinality(holding) <= gates.tradeLimit + Cardinality(Pairs) - 1 + unchecked
      BY DEF RoomLeft
    <3>3. l \in Nat
      BY <1>5
    <3> HIDE DEF l
    <3>4. (gates.tradeLimit >= 1 /\ ~gates.perPair) =>
             l + Cardinality(closed) + Cardinality(holding') <= gates.tradeLimit + Cardinality(Pairs) - 1 + unchecked'
      BY <1>3, <1>5, <2>1, <3>2, <3>3
    <3> QED
      BY <1>0, <3>1, <3>4 DEF RoomLeft
  <2>2. CASE ~Blocked(s) /\ ~blind /\ unchecked' = unchecked
    <3> SUFFICES ASSUME gates.tradeLimit >= 1, ~gates.perPair
                 PROVE  Losses(Recent(Pairs)) + Cardinality(closed) + Cardinality(holding')
                          <= gates.tradeLimit + Cardinality(Pairs) - 1 + unchecked
      BY <1>0, <1>4, <2>2 DEF RoomLeft
    <3>1. Losses(Recent(Pairs)) < gates.tradeLimit
      <4>1. ~stoplossGuard(s)
        BY <2>2 DEF Blocked
      <4>2. ~ (Losses(Recent(Pairs)) >= gates.tradeLimit)
        BY <4>1 DEF stoplossGuard
      <4> QED
        BY <1>5, <4>2
    <3>2. Cardinality(closed) + Cardinality(holding') <= Cardinality(Pairs)
      <4> DEFINE name == [c \in closed |-> c[1]]
                 gone == Pairs \ holding'
      <4>1. name \in Injection(closed, gone)
        <5>1. /\ \A c, d \in closed : c[1] = d[1] => c = d
              /\ \A c \in closed : c[1] \in Pairs /\ c[1] \notin holding'
          BY <1>0, <2>2 DEF OpenOnce, LossTypes
        <5>2. name \in [closed -> gone]
          BY <5>1
        <5>3. \A c, d \in closed : name[c] = name[d] => c = d
          BY <5>1
        <5> HIDE DEF name, gone
        <5> QED
          BY <5>2, <5>3 DEF Injection, IsInjective
      <4>2. IsFiniteSet(gone) /\ Cardinality(gone) = Cardinality(Pairs) - Cardinality(holding')
        <5>1. holding' \subseteq Pairs /\ Pairs \cap holding' = holding'
          BY <1>1 DEF LossTypes
        <5>2. IsFiniteSet(Pairs \ holding')
              /\ Cardinality(Pairs \ holding') = Cardinality(Pairs) - Cardinality(Pairs \cap holding')
          BY GateAssumption, FS_Difference
        <5> QED
          BY <5>1, <5>2
      <4> HIDE DEF gone, name
      <4>3. Cardinality(closed) <= Cardinality(gone)
        BY <4>1, <4>2, FS_Injection
      <4> QED
        BY <1>3, <1>5, <4>2, <4>3
    <3> QED
      BY <1>3, <1>5, <3>1, <3>2
  <2> QED
    BY <1>0, <2>1, <2>2
<1>7. LossesBounded'
  BY <1>0, <1>5, SalesKept
<1> QED
  BY <1>1, <1>2, <1>6, <1>7

LEMMA BracketFill_Inv ==
    ASSUME GateInv, NEW s \in Pairs, NEW pnl \in Profits, BracketFill(s, pnl) PROVE GateInv'
<1> USE DEF GateInv, BracketFill
<1>0. IsFiniteSet(closed) /\ IsFiniteSet(holding) /\ Cardinality(closed) \in Nat /\ Cardinality(holding) \in Nat
  BY GateFinite
<1>1. /\ IsFiniteSet(closed') /\ Cardinality(closed') <= Cardinality(closed) + 1 /\ Cardinality(closed') \in Nat
      /\ Cardinality(holding') = Cardinality(holding) - 1
  <2>1. closed' = closed \union {<<s, pnl>>} /\ holding' = holding \ {s} /\ s \in holding
    OBVIOUS
  <2>2. IsFiniteSet(closed \union {<<s, pnl>>})
        /\ Cardinality(closed \union {<<s, pnl>>})
             = IF <<s, pnl>> \in closed THEN Cardinality(closed) ELSE Cardinality(closed) + 1
    BY <1>0, FS_AddElement
  <2>3. Cardinality(holding \ {s}) = Cardinality(holding) - 1
    BY <1>0, <2>1, FS_RemoveElement
  <2> QED
    BY <1>0, <2>1, <2>2, <2>3
<1>2. LossTypes'
  BY <1>1 DEF LossTypes
<1>3. OpenOnce'
  BY DEF OpenOnce, LossTypes
<1>4. RoomLeft'
  <2>1. Losses(Recent(Pairs))' = Losses(Recent(Pairs))
    BY DEF Losses, Losing, Recent
  <2>2. /\ Losses(Recent(Pairs)) \in Nat /\ gates.tradeLimit \in Nat
        /\ Cardinality(Pairs) \in Nat /\ unchecked \in Nat
    BY GateFinite DEF LossTypes
  <2> QED
    BY <1>0, <1>1, <2>1, <2>2 DEF RoomLeft
<1>5. LossesBounded'
  BY DEF LossesBounded
<1> QED
  BY <1>2, <1>3, <1>4, <1>5

LEMMA SellSignal_Inv ==
    ASSUME GateInv, NEW s \in Pairs, NEW pnl \in Profits, SellSignal(s, pnl) PROVE GateInv'
<1> USE DEF GateInv, SellSignal
<1>0. /\ IsFiniteSet(holding) /\ Cardinality(holding) \in Nat /\ Len(sells) \in Nat
      /\ DOMAIN sells = 1 .. Len(sells) /\ sells \in Seq(SaleSet)
  BY GateFinite DEF LossTypes
<1>1. Cardinality(holding') = Cardinality(holding) - 1
  BY <1>0, FS_RemoveElement
<1>2. /\ sells' \in Seq(SaleSet)
      /\ Len(sells') = Len(sells) + 1
      /\ \A n \in 1 .. Len(sells) : sells'[n] = sells[n]
      /\ \A n \in Len(sells) + 1 .. Len(sells) + 1 : sells'[n].at = minute
  <2>1. Sale(<<s, pnl>>) \in SaleSet /\ Sale(<<s, pnl>>).at = minute
    BY DEF Sale, SaleSet, LossTypes
  <2> QED
    BY <1>0, <2>1
<1>3. LossTypes'
  <2>1. \A n \in DOMAIN sells' : sells'[n].at <= minute
    <3>1. \A n \in DOMAIN sells' : n \in 1 .. Len(sells) \/ n = Len(sells) + 1
      BY <1>0, <1>2
    <3> QED
      BY <1>0, <1>2, <3>1 DEF LossTypes
  <2> QED
    BY <1>2, <2>1 DEF LossTypes
<1>4. Losses(Recent(Pairs))' \in Nat /\ Losses(Recent(Pairs))' <= Losses(Recent(Pairs)) + 1
      /\ (RoomLeft' => LossesBounded')
  BY <1>2, <1>3, SalesRecorded
<1>5. RoomLeft'
  <2>2. /\ Losses(Recent(Pairs)) \in Nat /\ gates.tradeLimit \in Nat /\ Cardinality(closed) \in Nat
        /\ Cardinality(Pairs) \in Nat /\ unchecked \in Nat
    BY GateFinite DEF LossTypes
  <2> QED
    BY <1>0, <1>1, <1>4, <2>2 DEF RoomLeft
<1>6. OpenOnce'
  BY DEF OpenOnce
<1> QED
  BY <1>3, <1>4, <1>5, <1>6

LEMMA Minutes_Inv == ASSUME GateInv, Minutes PROVE GateInv'
<1> USE DEF GateInv, Minutes
<1>1. LossTypes'
  <2>1. minute' \in Nat /\ minute' > minute
    BY DEF LossTypes
  <2>2. \A n \in DOMAIN sells : sells[n].at \in Nat
    BY SalesTyped DEF LossTypes
  <2> QED
    BY <2>1, <2>2 DEF LossTypes
<1>2. OpenOnce' /\ LossesBounded'
  BY DEF OpenOnce, LossesBounded
<1>3. RoomLeft'
  <2>1. Losing(Recent(Pairs))' \subseteq Losing(Recent(Pairs))
    <3>2. \A n \in DOMAIN sells : sells[n].at \in Nat
      BY SalesTyped DEF LossTypes
    <3>3. gates.lookback \in Nat /\ minute \in Nat
      BY GateFinite DEF LossTypes
    <3> QED
      BY <3>2, <3>3 DEF Losing, Recent
  <2>2. /\ IsFiniteSet(Losing(Recent(Pairs))) /\ Losses(Recent(Pairs)) \in Nat
        /\ Cardinality(closed) \in Nat /\ Cardinality(holding) \in Nat
        /\ gates.tradeLimit \in Nat /\ Cardinality(Pairs) \in Nat /\ unchecked \in Nat
    BY GateFinite DEF LossTypes
  <2>3. Losses(Recent(Pairs))' <= Losses(Recent(Pairs)) /\ Losses(Recent(Pairs))' \in Nat
    BY <2>1, <2>2, FS_Subset, FS_CardinalityType DEF Losses
  <2> QED
    BY <2>2, <2>3 DEF RoomLeft
<1> QED
  BY <1>1, <1>2, <1>3

\* The inductive invariant of the gates: a tick that could reconcile opens at most one
\* position per symbol, and what is open or unrecorded fits in the room the losses have left.
THEOREM GateInductive == GateSpec => []GateInv
<1>1. GateInv /\ UNCHANGED gateVars => GateInv'
  BY DEF GateInv, gateVars, LossTypes, OpenOnce, RoomLeft, Losses, Losing, Recent, LossesBounded
<1>2. GateInv /\ [GateNext]_gateVars => GateInv'
  BY <1>1, StartTick_Inv, EndChecks_Inv, PassOver_Inv, Enter_Inv, BracketFill_Inv, SellSignal_Inv,
     Minutes_Inv DEF GateNext
<1> QED
  BY GateInit_Inv, <1>2, PTL DEF GateSpec

\* Losing exits in a window exceed the limit of the stop-loss guard (protections.js) by no
\* more than the entries that passed it before it was reached.
THEOREM LossesStayBounded == GateSpec => []LossesBounded
BY GateInductive, PTL DEF GateInv

(***************************************************************************)
(* Sizes                                                                   *)
(* An entry is one share or no more than the cap: the fraction of Kelly is   *)
(* at most the fraction configured, the share of the risk is cut at the      *)
(* notional, and every scale-down keeps one share or less than it had.       *)
(***************************************************************************)

\* A quotient of a natural number is the number of times the divisor fits.
LEMMA QuotientIs ==
    ASSUME NEW n \in Int, NEW d \in Nat \ {0}
    PROVE  n \div d \in Int /\ (n \div d) * d <= n /\ n < (n \div d) * d + d
           /\ (n >= 0 => n \div d \in Nat)
OBVIOUS

LEMMA FactorCancels ==
    ASSUME NEW x \in Int, NEW y \in Int, NEW d \in Nat \ {0}, x * d < y * d
    PROVE  x < y
<1>1. SUFFICES ASSUME y <= x PROVE FALSE
  OBVIOUS
<1>2. (x - y) * d >= 0
  BY <1>1
<1>3. (x - y) * d = x * d - y * d
  OBVIOUS
<1> QED
  BY <1>2, <1>3

\* A smaller number holds the divisor no more often.
LEMMA QuotientMonotone ==
    ASSUME NEW m \in Int, NEW n \in Int, NEW d \in Nat \ {0}, m <= n
    PROVE  m \div d <= n \div d
<1> DEFINE p == m \div d
           q == n \div d
<1>1. p \in Int /\ q \in Int /\ p * d <= m /\ n < q * d + d
  BY QuotientIs
<1> HIDE DEF p, q
<1>2. p * d < (q + 1) * d
  <2>1. (q + 1) * d = q * d + d
    BY <1>1
  <2>2. p * d \in Int /\ q * d \in Int
    BY <1>1
  <2> QED
    BY <1>1, <2>1, <2>2
<1>3. p < q + 1
  BY <1>1, <1>2, FactorCancels
<1> QED
  BY <1>1, <1>3 DEF p, q

\* The same of a number and its hundredfold.
LEMMA QuotientOfPercent ==
    ASSUME NEW n \in Nat, NEW d \in Nat \ {0}, NEW k \in Nat, k >= 100
    PROVE  n \div d <= (n * k) \div (100 * d)
<1> DEFINE p == n \div d
           q == (n * k) \div (100 * d)
<1>1. p \in Nat /\ p * d <= n
  BY QuotientIs
<1>2. n * k \in Nat /\ n * 100 <= n * k
  <2>1. n * (k - 100) >= 0
    OBVIOUS
  <2>2. n * (k - 100) = n * k - n * 100
    OBVIOUS
  <2> QED
    BY <2>1, <2>2
<1>3. 100 * d \in Nat \ {0}
  OBVIOUS
<1>4. q \in Nat /\ n * k < q * (100 * d) + 100 * d
  <2> DEFINE n2 == n * k
             d2 == 100 * d
  <2>1. n2 \in Int /\ n2 >= 0 /\ d2 \in Nat \ {0} /\ q = n2 \div d2
    BY <1>2, <1>3
  <2>2. q \in Nat /\ n2 < q * d2 + d2
    <3> HIDE DEF n2, d2, q
    <3> QED
      BY <2>1, QuotientIs
  <2> QED
    BY <2>2
<1> HIDE DEF p, q
<1>5. p * (100 * d) < (q + 1) * (100 * d)
  <2>1. p * (100 * d) = (p * d) * 100
    BY <1>1
  <2>2. (p * d) * 100 <= n * 100
    BY <1>1
  <2>3. (q + 1) * (100 * d) = q * (100 * d) + 100 * d
    BY <1>4
  <2>4. p * (100 * d) \in Int /\ q * (100 * d) \in Int /\ n * 100 \in Int
    BY <1>1, <1>4
  <2> QED
    BY <1>2, <1>4, <2>1, <2>2, <2>3, <2>4
<1>6. p < q + 1
  BY <1>1, <1>3, <1>4, <1>5, FactorCancels
<1> QED
  BY <1>1, <1>4, <1>6 DEF p, q

SizingTyped == sizing \in Sizings

LEMMA SizingIs ==
    ASSUME SizingTyped
    PROVE  /\ sizing.maxPositionSize \in Nat /\ sizing.riskPerTrade \in Nat /\ sizing.kellyPct \in Nat
           /\ sizing.kellyTrades \in Nat \ {0} /\ sizing.floorPct \in Nat
           /\ Price \in Nat \ {0} /\ StopDistance \in Nat \ {0}
BY GateAssumption DEF SizingTyped

\* Sums and counts of recorded sales.
LEMMA ProfitTyped ==
    ASSUME LossTypes, NEW trades \in SUBSET DOMAIN sells
    PROVE  /\ Profit(trades) \in Int /\ Cardinality(trades) \in Nat /\ Losses(trades) \in Nat
           /\ Losses(trades) <= Cardinality(trades) /\ Losing(trades) \in SUBSET DOMAIN sells
           /\ (Losses(trades) > 0 => -Profit(Losing(trades)) \in Nat \ {0})
           /\ Profit(Losing(trades)) \in Int
           /\ (\A n \in trades : sells[n].pnl > 0) =>
                Profit(trades) \in Nat /\ (Cardinality(trades) > 0 => Profit(trades) > 0)
<1> DEFINE f == [n \in DOMAIN sells |-> sells[n].pnl]
           losing == Losing(trades)
<1>1. \A n \in DOMAIN sells : f[n] \in Int /\ f[n] = sells[n].pnl
  <2>1. sells \in Seq(SaleSet) /\ DOMAIN sells = 1 .. Len(sells)
    BY LenProperties DEF LossTypes
  <2>2. \A n \in DOMAIN sells : sells[n] \in SaleSet
    BY <2>1, ElementOfSeq
  <2>3. \A n \in DOMAIN sells : sells[n].pnl \in Int
    BY <2>2, GateAssumption DEF SaleSet
  <2> QED
    BY <2>3
<1>2. IsFiniteSet(DOMAIN sells)
  <2>1. DOMAIN sells = 1 .. Len(sells) /\ Len(sells) \in Nat
    BY LenProperties DEF LossTypes
  <2> QED
    BY <2>1, FS_Interval
<1>3. losing \in SUBSET DOMAIN sells /\ losing \subseteq trades
  BY DEF Losing
<1>4. /\ IsFiniteSet(trades) /\ IsFiniteSet(losing) /\ Cardinality(trades) \in Nat
      /\ Cardinality(losing) \in Nat /\ Cardinality(losing) <= Cardinality(trades)
  BY <1>2, <1>3, FS_Subset, FS_CardinalityType
<1>5. \A S : Profit(S) = SumFunctionOnSet(f, S)
  BY DEF Profit
<1>6. SumFunctionOnSet(f, losing) <= Cardinality(losing) * (-1)
  <2>1. \A n \in losing : f[n] \in Int /\ f[n] <= -1
    BY <1>1, <1>3 DEF Losing
  <2> HIDE DEF f, losing
  <2> QED
    BY <1>4, <2>1, SumBound
<1>7. SumFunctionOnSet(f, losing) \in Int /\ SumFunctionOnSet(f, trades) \in Int
  <2> HIDE DEF f, losing
  <2> QED
    BY <1>1, <1>3, <1>4, SumInt
<1>8. ASSUME \A n \in trades : sells[n].pnl > 0
      PROVE  SumFunctionOnSet(f, trades) \in Nat /\ (Cardinality(trades) > 0 => SumFunctionOnSet(f, trades) > 0)
  <2>1. \A n \in trades : f[n] \in Nat /\ f[n] > 0
    BY <1>1, <1>8
  <2> HIDE DEF f
  <2>2. SumFunctionOnSet(f, trades) \in Nat
    BY <1>4, <2>1, SumNat
  <2>3. ASSUME Cardinality(trades) > 0 PROVE SumFunctionOnSet(f, trades) > 0
    <3>1. trades # {}
      BY <2>3, FS_EmptySet
    <3>2. PICK y \in trades : TRUE
      BY <3>1
    <3>3. SumFunctionOnSet(f, trades) = f[y] + SumFunctionOnSet(f, trades \ {y})
      BY <1>4, <2>1, SumRemove
    <3>4. SumFunctionOnSet(f, trades \ {y}) \in Nat
      <4>1. IsFiniteSet(trades \ {y})
        BY <1>4, FS_Subset
      <4> QED
        BY <2>1, <4>1, SumNat
    <3> QED
      BY <2>1, <3>3, <3>4
  <2> QED
    BY <2>2, <2>3
<1> HIDE DEF f
<1>9. Losses(trades) = Cardinality(losing)
  BY DEF Losses
<1> QED
  BY <1>3, <1>4, <1>5, <1>6, <1>7, <1>8, <1>9

\* Kelly's fraction of the sales is at most the configured fraction.
LEMMA KellyBounded ==
    ASSUME LossTypes, SizingTyped
    PROVE  Kelly \in Int /\ Kelly <= sizing.kellyPct
<1> DEFINE D == DOMAIN sells
           wins == {n \in D : sells[n].pnl > 0}
           won == Profit(wins)
           lost == -Profit(Losing(D))
           w == Cardinality(wins)
           l == Losses(D)
           all == Len(sells)
           rate == (100 * w) \div all
           cost == (100 * (all - w) * lost * w) \div (all * l * won)
           fStar == rate - cost
<1>1. Kelly = IF all < sizing.kellyTrades \/ w = 0 \/ l = 0 \/ fStar <= 0 THEN 0
              ELSE (fStar * sizing.kellyPct) \div 100
  BY DEF Kelly
<1>2. /\ all \in Nat /\ w \in Nat /\ l \in Nat /\ w <= all
      /\ (l > 0 => lost \in Nat \ {0}) /\ won \in Nat /\ (w > 0 => won > 0)
  <2>1. D \in SUBSET D /\ wins \in SUBSET D /\ \A n \in wins : sells[n].pnl > 0
    OBVIOUS
  <2>2. D = 1 .. all /\ all \in Nat
    BY LenProperties DEF LossTypes
  <2>3. IsFiniteSet(D) /\ Cardinality(D) = all
    <3>a. all \in Int /\ 1 \in Int /\ (1 > all => all = 0) /\ all - 1 + 1 = all
      BY <2>2
    <3> HIDE DEF all
    <3>1. IsFiniteSet(1 .. all) /\ Cardinality(1 .. all) = all
      BY <3>a, FS_Interval
    <3> QED
      BY <2>2, <3>1
  <2>4. Cardinality(wins) <= Cardinality(D)
    BY <2>1, <2>3, FS_Subset
  <2>5. /\ w \in Nat /\ won \in Nat /\ (w > 0 => won > 0)
    <3> HIDE DEF wins, D
    <3>1. wins \in SUBSET DOMAIN sells
      BY <2>1 DEF D
    <3> QED
      BY <2>1, <3>1, ProfitTyped
  <2>6. l \in Nat /\ (l > 0 => lost \in Nat \ {0})
    BY <2>1, ProfitTyped
  <2> HIDE DEF wins, won, lost, l, D
  <2> QED
    BY <2>2, <2>3, <2>4, <2>5, <2>6 DEF w
<1>3. sizing.kellyPct \in Nat /\ sizing.kellyTrades \in Nat \ {0}
  BY SizingIs
<1> HIDE DEF D, wins, won, lost, w, l, all
<1>4. ASSUME all >= sizing.kellyTrades, w # 0, l # 0, ~ (fStar <= 0)
      PROVE  (fStar * sizing.kellyPct) \div 100 \in Int /\ (fStar * sizing.kellyPct) \div 100 <= sizing.kellyPct
  <2>1. all \in Nat \ {0} /\ won \in Nat \ {0} /\ l \in Nat \ {0} /\ lost \in Nat \ {0}
    BY <1>2, <1>3, <1>4
  <2>2. rate \in Int /\ rate <= 100
    <3> DEFINE m == 100 * w
    <3>1. m \in Nat /\ m <= 100 * all /\ rate = m \div all
      BY <1>2
    <3> HIDE DEF m
    <3>2. rate \in Int /\ rate * all <= m
      BY <2>1, <3>1, QuotientIs
    <3> HIDE DEF rate
    <3>3. rate * all < 101 * all
      BY <2>1, <3>1, <3>2
    <3>4. rate < 101
      BY <2>1, <3>2, <3>3, FactorCancels
    <3> QED
      BY <3>2, <3>4
  <2>3. cost \in Nat
    <3> DEFINE m == 100 * (all - w) * lost * w
               d == all * l * won
    <3>1. m \in Nat
      <4>1. all - w \in Nat
        BY <1>2
      <4>2. 100 * (all - w) \in Nat
        BY <4>1
      <4>3. 100 * (all - w) * lost \in Nat
        BY <2>1, <4>2
      <4> QED
        BY <1>2, <4>3
    <3>2. d \in Nat \ {0}
      <4>1. all * l \in Nat \ {0}
        BY <2>1
      <4> QED
        BY <2>1, <4>1
    <3>3. cost = m \div d
      OBVIOUS
    <3> HIDE DEF m, d, cost
    <3> QED
      BY <3>1, <3>2, <3>3, QuotientIs
  <2> HIDE DEF rate, cost
  <2>4. fStar \in Int /\ fStar <= 100 /\ fStar >= 0
    BY <1>4, <2>2, <2>3
  <2> DEFINE k == sizing.kellyPct
             g == fStar * k
  <2> HIDE DEF fStar, k
  <2>5. k \in Nat
    BY <1>3 DEF k
  <2>6. g \in Int /\ g <= 100 * k
    <3>1. (100 - fStar) * k >= 0
      BY <2>4, <2>5
    <3>2. (100 - fStar) * k = 100 * k - fStar * k
      BY <2>4, <2>5
    <3> QED
      BY <2>4, <2>5, <3>1, <3>2
  <2> HIDE DEF g
  <2>7. g \div 100 \in Int /\ (g \div 100) * 100 <= g
    BY <2>6, QuotientIs
  <2>8. g \div 100 <= k
    BY <2>5, <2>6, <2>7
  <2> QED
    BY <2>7, <2>8 DEF g, k
<1> HIDE DEF fStar
<1>5. CASE all < sizing.kellyTrades \/ w = 0 \/ l = 0 \/ fStar <= 0
  BY <1>1, <1>3, <1>5
<1>6. CASE ~ (all < sizing.kellyTrades \/ w = 0 \/ l = 0 \/ fStar <= 0)
  <2>1. all >= sizing.kellyTrades /\ w # 0 /\ l # 0
    BY <1>2, <1>3, <1>6
  <2>2. Kelly = (fStar * sizing.kellyPct) \div 100
    BY <1>1, <1>6
  <2> QED
    BY <1>4, <1>6, <2>1, <2>2
<1> QED
  BY <1>5, <1>6

\* The edge of a symbol is a percentage.
LEMMA EdgeTyped ==
    ASSUME LossTypes, SizingTyped, NEW s \in Pairs
    PROVE  Edge(s) \in Int
<1> DEFINE trades == Recent({s})
           n == Cardinality(trades)
           wins == {m \in trades : sells[m].pnl > 0}
           w == Cardinality(wins)
           won == Profit(wins)
           lost == -Profit(Losing(trades))
           l == Losses(trades)
           part == ((n - w) * lost) \div l
           expected == IF l = 0 THEN won ELSE won - part
           share == (100 * expected * l) \div (n * lost)
           ratio == IF l = 0 THEN 100 ELSE Least(100, share)
           scaled == ((100 - sizing.floorPct) * ratio) \div 100
<1>1. Edge(s) = IF n < gates.minTrades THEN 100
                ELSE IF expected <= 0 THEN 0
                ELSE sizing.floorPct + scaled
  BY DEF Edge
<1>2. /\ n \in Nat /\ w \in Nat /\ won \in Int /\ l \in Nat /\ lost \in Int
      /\ (l > 0 => lost \in Nat \ {0} /\ n > 0)
  <2>1. trades \in SUBSET DOMAIN sells /\ wins \in SUBSET DOMAIN sells
    BY DEF Recent
  <2> HIDE DEF trades, wins
  <2>2. /\ n \in Nat /\ l \in Nat /\ l <= n /\ (l > 0 => lost \in Nat \ {0}) /\ lost \in Int
    <3>1. /\ Cardinality(trades) \in Nat /\ Losses(trades) \in Nat /\ Losses(trades) <= Cardinality(trades)
          /\ (Losses(trades) > 0 => -Profit(Losing(trades)) \in Nat \ {0})
          /\ Profit(Losing(trades)) \in Int
      BY <2>1, ProfitTyped
    <3> QED
      BY <3>1
  <2>3. w \in Nat /\ won \in Int
    BY <2>1, ProfitTyped
  <2> HIDE DEF n, w, won, lost, l
  <2> QED
    BY <2>2, <2>3
<1>3. sizing.floorPct \in Nat
  BY SizingIs
<1> HIDE DEF trades, n, wins, w, won, lost, l
<1>4. ASSUME l > 0 PROVE part \in Int /\ expected \in Int /\ share \in Int /\ ratio \in Int
  <2>1. l \in Nat \ {0} /\ lost \in Nat \ {0} /\ n \in Nat \ {0}
    BY <1>2, <1>4
  <2>2. part \in Int
    <3> DEFINE m == (n - w) * lost
    <3>1. m \in Int
      BY <1>2, <2>1
    <3>2. part = m \div l
      OBVIOUS
    <3> HIDE DEF m, part
    <3> QED
      BY <2>1, <3>1, <3>2, QuotientIs
  <2> HIDE DEF part
  <2>3. expected \in Int
    BY <1>2, <2>2
  <2> HIDE DEF expected
  <2>4. share \in Int
    <3> DEFINE m == 100 * expected * l
               d == n * lost
    <3>1. m \in Int /\ d \in Nat \ {0}
      BY <2>1, <2>3
    <3>2. share = m \div d
      OBVIOUS
    <3> HIDE DEF m, d, share
    <3> QED
      BY <3>1, <3>2, QuotientIs
  <2> HIDE DEF share
  <2>5. ratio \in Int
    BY <2>4 DEF Least
  <2> HIDE DEF ratio
  <2> QED
    BY <2>2, <2>3, <2>4, <2>5 DEF expected, share
<1>5. ratio \in Int
  BY <1>2, <1>4
<1> HIDE DEF ratio, expected
<1>6. scaled \in Int
  <2> DEFINE m == (100 - sizing.floorPct) * ratio
  <2>1. m \in Int
    BY <1>3, <1>5
  <2>2. scaled = m \div 100
    OBVIOUS
  <2> HIDE DEF m, scaled
  <2> QED
    BY <2>1, <2>2, QuotientIs
<1> HIDE DEF scaled
<1> QED
  BY <1>1, <1>3, <1>6

\* A scaled size is one share or no more than the size.
LEMMA ScaledBounded ==
    ASSUME NEW c \in Nat, NEW q \in 1 .. c, NEW percent \in Int
    PROVE  Scaled(q, percent) \in 1 .. c
<1>1. CASE percent >= 100
  BY <1>1 DEF Scaled
<1>2. CASE percent < 100
  <2> DEFINE m == q * percent
             r == m \div 100
  <2>1. m \in Int /\ m <= q * 100
    <3>1. q * (100 - percent) >= 0
      BY <1>2
    <3>2. q * (100 - percent) = q * 100 - q * percent
      OBVIOUS
    <3> QED
      BY <3>1, <3>2
  <2>2. Scaled(q, percent) = AtLeastOne(r)
    BY <1>2 DEF Scaled
  <2> HIDE DEF m
  <2>3. r \in Int /\ r * 100 <= m
    BY <2>1, QuotientIs
  <2>4. r <= q
    BY <2>1, <2>3
  <2> HIDE DEF r
  <2> QED
    BY <2>2, <2>3, <2>4 DEF AtLeastOne
<1> QED
  BY <1>1, <1>2

\* The size an entry begins with is within the cap.
LEMMA BaseBounded ==
    ASSUME LossTypes, SizingTyped
    PROVE  SizeCap \in Nat /\ BaseQty \in 1 .. SizeCap
<1> DEFINE p == sizing.maxPositionSize
           percent == IF sizing.useKelly /\ sizing.kellyPct > 100 THEN sizing.kellyPct ELSE 100
           byNotional == p \div Price
           cap == (p * percent) \div (100 * Price)
           byKelly == (p * Kelly) \div (100 * Price)
           byRisk == sizing.riskPerTrade \div StopDistance
<1>1. /\ p \in Nat /\ Price \in Nat \ {0} /\ percent \in Nat /\ percent >= 100
      /\ 100 * Price \in Nat \ {0} /\ sizing.kellyPct \in Nat
  BY SizingIs
<1>2. byNotional <= cap /\ byNotional \in Int /\ cap \in Int
  <2>1. p * percent \in Nat
    BY <1>1
  <2>2. cap \in Int
    <3> DEFINE m == p * percent
               d == 100 * Price
    <3>1. m \in Int /\ d \in Nat \ {0} /\ cap = m \div d
      BY <1>1, <2>1
    <3> HIDE DEF m, d, cap
    <3> QED
      BY <3>1, QuotientIs
  <2>3. byNotional \in Int
    BY <1>1, QuotientIs
  <2>4. byNotional <= cap
    <3> HIDE DEF p, percent
    <3> QED
      BY <1>1, QuotientOfPercent
  <2> QED
    BY <2>2, <2>3, <2>4
<1>3. byRisk \in Int
  BY SizingIs, QuotientIs
<1>4. ASSUME sizing.useKelly PROVE byKelly \in Int /\ byKelly <= cap
  <2>1. Kelly \in Int /\ Kelly <= percent
    BY <1>1, <1>4, KellyBounded
  <2> DEFINE k == Kelly
             m == p * k
             n == p * percent
             d == 100 * Price
  <2> HIDE DEF k, p, percent
  <2>2. m \in Int /\ n \in Int /\ m <= n
    <3>1. k \in Int /\ k <= percent
      BY <2>1 DEF k
    <3>2. p * (percent - k) >= 0
      BY <1>1, <3>1
    <3>3. p * (percent - k) = p * percent - p * k
      BY <1>1, <3>1
    <3> QED
      BY <1>1, <3>1, <3>2, <3>3
  <2>3. byKelly = m \div d /\ cap = n \div d /\ d \in Nat \ {0}
    BY <1>1 DEF k
  <2> HIDE DEF m, n, d, byKelly, cap
  <2> QED
    BY <2>2, <2>3, QuotientIs, QuotientMonotone
<1> DEFINE risk == IF sizing.riskPerTrade > 0 THEN Least(AtLeastOne(byRisk), AtLeastOne(byNotional))
                   ELSE AtLeastOne(byNotional)
<1>5. /\ SizeCap = AtLeastOne(cap)
      /\ RiskSized = risk
      /\ BaseQty = IF sizing.useKelly /\ Kelly > 0 THEN AtLeastOne(byKelly) ELSE RiskSized
  BY DEF SizeCap, RiskSized, BaseQty
<1> HIDE DEF byNotional, cap, byKelly, byRisk
<1>6. AtLeastOne(cap) \in Nat /\ risk \in 1 .. AtLeastOne(cap)
  <2> DEFINE a == AtLeastOne(cap)
             b == AtLeastOne(byRisk)
             c == AtLeastOne(byNotional)
  <2>1. a \in Nat /\ b \in Nat /\ c \in Nat /\ 1 <= b /\ 1 <= c /\ c <= a
    BY <1>2, <1>3 DEF AtLeastOne
  <2>2. Least(b, c) \in 1 .. a /\ c \in 1 .. a
    <3> HIDE DEF a, b, c
    <3> QED
      BY <2>1 DEF Least
  <2> HIDE DEF a, b, c
  <2>3. risk = Least(b, c) \/ risk = c
    BY DEF b, c
  <2>4. risk \in 1 .. a
    <3> HIDE DEF risk
    <3> QED
      BY <2>2, <2>3
  <2> QED
    BY <2>1, <2>4 DEF a
<1>7. sizing.useKelly => AtLeastOne(byKelly) \in 1 .. AtLeastOne(cap)
  <2> SUFFICES ASSUME sizing.useKelly PROVE AtLeastOne(byKelly) \in 1 .. AtLeastOne(cap)
    OBVIOUS
  <2>1. byKelly \in Int /\ byKelly <= cap /\ cap \in Int
    BY <1>2, <1>4
  <2> QED
    BY ONLY <2>1 DEF AtLeastOne
<1> QED
  BY <1>5, <1>6, <1>7

-----------------------------------------------------------------------------

GateTypes == GateTypeOK /\ SizingTyped

LEMMA GateTypesStep ==
    ASSUME LossTypes, LossTypes', GateTypes, [GateNext]_gateVars PROVE GateTypes'
<1>0. \A n \in DOMAIN sells : sells[n] \in SaleSet
  <2>1. DOMAIN sells = 1 .. Len(sells) /\ sells \in Seq(SaleSet)
    BY LenProperties DEF LossTypes
  <2> QED
    BY <2>1, ElementOfSeq
<1>a. \/ StartTick \/ EndChecks \/ Minutes
      \/ \E s \in Pairs : PassOver(s) \/ Enter(s)
      \/ \E s \in Pairs, pnl \in Profits : BracketFill(s, pnl) \/ SellSignal(s, pnl)
      \/ UNCHANGED gateVars
  BY DEF GateNext
<1>b. /\ sizing' = sizing
      /\ minute' = minute \/ (minute < LastMinute /\ minute' = minute + 1)
      /\ unchecked' = unchecked \/ (unchecked < UncheckedBound /\ unchecked' = unchecked + 1)
  <2>1. CASE StartTick
    BY <2>1 DEF StartTick
  <2>2. CASE EndChecks
    BY <2>2 DEF EndChecks
  <2>3. CASE Minutes
    BY <2>3 DEF Minutes
  <2>4. ASSUME NEW s \in Pairs, PassOver(s) \/ Enter(s)
        PROVE  /\ sizing' = sizing /\ minute' = minute
               /\ unchecked' = unchecked \/ (unchecked < UncheckedBound /\ unchecked' = unchecked + 1)
    BY <2>4 DEF PassOver, Enter
  <2>5. ASSUME NEW s \in Pairs, NEW pnl \in Profits, BracketFill(s, pnl) \/ SellSignal(s, pnl)
        PROVE  sizing' = sizing /\ minute' = minute /\ unchecked' = unchecked
    BY <2>5 DEF BracketFill, SellSignal
  <2>6. CASE UNCHANGED gateVars
    BY <2>6 DEF gateVars
  <2> QED
    BY <1>a, <2>1, <2>2, <2>3, <2>4, <2>5, <2>6
<1>1. sizing' = sizing
  BY <1>b
<1>2. minute' \in 0 .. LastMinute
  BY <1>b, GateAssumption DEF GateTypes, GateTypeOK
<1>3. unchecked' \in 0 .. UncheckedBound
  BY <1>b, GateAssumption DEF GateTypes, GateTypeOK
<1>4. snapshot' = None \/ snapshot' \subseteq Pairs
  BY DEF GateNext, gateVars, StartTick, EndChecks, Minutes, PassOver, Enter, BracketFill, SellSignal,
     GateTypes, GateTypeOK
<1>5. \A n \in DOMAIN sells' : sells'[n] \in [symbol : Pairs, pnl : Profits, at : 0 .. LastMinute]
  <2>1. DOMAIN sells' = 1 .. Len(sells') /\ sells' \in Seq(SaleSet)
    BY LenProperties DEF LossTypes
  <2>2. \A n \in DOMAIN sells' : sells'[n] \in SaleSet
    BY <2>1, ElementOfSeq
  <2>3. \A n \in DOMAIN sells' : sells'[n].at <= minute'
    BY DEF LossTypes
  <2>4. LastMinute \in Nat
    BY GateAssumption
  <2>5. ASSUME NEW n \in DOMAIN sells'
        PROVE  sells'[n] \in [symbol : Pairs, pnl : Profits, at : 0 .. LastMinute]
    <3> DEFINE r == sells'[n]
    <3>1. r \in SaleSet /\ r.at <= minute'
      BY <2>2, <2>3
    <3> HIDE DEF r
    <3>2. r.at \in Nat
      BY <3>1 DEF SaleSet
    <3>3. r.at \in 0 .. LastMinute
      BY <1>2, <2>4, <3>1, <3>2
    <3>4. r \in [symbol : Pairs, pnl : Profits, at : 0 .. LastMinute]
      BY <3>1, <3>3 DEF SaleSet
    <3> QED
      BY <3>4 DEF r
  <2> QED
    BY <2>5
<1>6. qty' \in 0 .. SizeCap
  <2>1. ASSUME NEW s \in Pairs, Enter(s) PROVE qty' \in 0 .. SizeCap
    <3>1. PICK correlation \in Correlations(s) :
            LET edge == IF sizing.useEdge THEN Edge(s) ELSE 100
            IN  qty' = Scaled(Scaled(BaseQty, edge), correlation)
      BY <2>1 DEF Enter
    <3> DEFINE edge == IF sizing.useEdge THEN Edge(s) ELSE 100
               c == SizeCap
               base == BaseQty
               first == Scaled(base, edge)
    <3>2. edge \in Int
      BY EdgeTyped DEF GateTypes
    <3>3. correlation \in Int
      BY DEF Correlations
    <3>4. c \in Nat /\ base \in 1 .. c
      BY BaseBounded DEF GateTypes
    <3>5. qty' = Scaled(first, correlation)
      BY <3>1
    <3> HIDE DEF edge, c, base
    <3>6. first \in 1 .. c
      BY <3>2, <3>4, ScaledBounded
    <3> HIDE DEF first
    <3>7. qty' \in 1 .. c
      BY <3>3, <3>4, <3>5, <3>6, ScaledBounded
    <3> QED
      BY <3>4, <3>7 DEF c
  <2>2. CASE qty' = qty
    BY <2>2 DEF GateTypes, GateTypeOK
  <2>3. qty' = qty \/ \E s \in Pairs : Enter(s)
    BY DEF GateNext, gateVars, StartTick, EndChecks, Minutes, PassOver, BracketFill, SellSignal
  <2> QED
    BY <2>1, <2>2, <2>3
<1>7. SizeCap' = SizeCap
  BY <1>1 DEF SizeCap
<1>8. holding' \subseteq Pairs /\ pending' \subseteq Pairs
  BY DEF LossTypes
<1> QED
  BY <1>1, <1>2, <1>3, <1>4, <1>5, <1>6, <1>7, <1>8 DEF GateTypes, GateTypeOK, SizingTyped

LEMMA InitGateTypes == GateInit => GateTypes
<1> SUFFICES ASSUME GateInit PROVE GateTypes
  OBVIOUS
<1>1. SizingTyped
  BY DEF GateInit, SizingTyped
<1>2. sells = <<>> /\ DOMAIN sells = {}
  BY DEF GateInit
<1>3. SizeCap \in Nat
  <2> DEFINE percent == IF sizing.useKelly /\ sizing.kellyPct > 100 THEN sizing.kellyPct ELSE 100
             m == sizing.maxPositionSize * percent
             d == 100 * Price
  <2>1. m \in Int /\ d \in Nat \ {0}
    BY <1>1, SizingIs
  <2>2. SizeCap = AtLeastOne(m \div d)
    BY DEF SizeCap
  <2> HIDE DEF m, d
  <2>3. m \div d \in Int
    BY <2>1, QuotientIs
  <2> QED
    BY <2>2, <2>3 DEF AtLeastOne
<1>4. 0 \in 0 .. SizeCap
  BY <1>3
<1> QED
  BY <1>1, <1>2, <1>4, GateAssumption DEF GateInit, GateTypes, GateTypeOK

-----------------------------------------------------------------------------

\* The gates keep the types of the trader, and no entry is sized over the cap.
THEOREM GateTypesHold == GateSpec => []GateTypeOK
<1>1. GateInv => LossTypes
  BY DEF GateInv
<1>2. GateTypes => GateTypeOK
  BY DEF GateTypes
<1> QED
  BY <1>1, <1>2, InitGateTypes, GateTypesStep, GateInductive, PTL DEF GateSpec

(***************************************************************************)
(* The A/B harness                                                         *)
(* The trades of a loop that nothing disturbed pair up.                    *)
(***************************************************************************)

\* The trades of a loop pair up, and its state says whether the last of them was a purchase.
PairedAt(l) == Alternates(abTrades[l]) /\ (abEntered[l] <=> Len(abTrades[l]) % 2 = 1)

\* The trades of a loop nothing disturbed pair up, its state says whether the last was a
\* purchase, at most one tick of it is under way, and that one decided on the state as it is.
LoopsPair ==
    \A l \in AbLoops : l \notin abDisturbed =>
        /\ PairedAt(l)
        /\ \A k, j \in Ticking(l) : k = j
        /\ \A k \in Ticking(l) : /\ abTick[k].at = "buying" => ~abEntered[l]
                                 /\ abTick[k].at = "selling" => abEntered[l]

\* While requests came one at a time, the map knows every interval there is, none runs while
\* a request waits, and none when the run is stopped or gone.
OneAtATime ==
    ~abRaced =>
        /\ \A r, q \in UnderWay : r = q
        /\ abTimers \subseteq {abLoop}
        /\ UnderWay # {} => abLoop = NoLoop
        /\ \A r \in UnderWay : abRequest[r] = "starting" => abStatus # "gone"
        /\ abStatus \in {"stopped", "gone"} => abTimers = {}

\* A tick that was started has a loop.
TicksHaveLoops == \A k \in AbTicks : abTick[k].at \notin {"new", "ended"} => abTick[k].of \in AbLoops

AbInv == AbTypeOK /\ TicksHaveLoops /\ LoopsPair /\ OneAtATime

-----------------------------------------------------------------------------

\* Adding what the last trade calls for keeps the trades paired.
LEMMA PairAppended ==
    ASSUME NEW s \in Seq({"buying", "selling"}), Alternates(s), NEW t \in {"buying", "selling"},
           t = "buying" <=> Len(s) % 2 = 0
    PROVE  Alternates(Append(s, t)) /\ (t = "buying" <=> Len(Append(s, t)) % 2 = 1)
<1>1. /\ Len(s) \in Nat /\ Len(Append(s, t)) = Len(s) + 1
      /\ \A i \in 1 .. Len(s) : Append(s, t)[i] = s[i]
      /\ Append(s, t)[Len(s) + 1] = t
  OBVIOUS
<1>2. Len(s) % 2 = 0 <=> (Len(s) + 1) % 2 = 1
  BY <1>1
<1>3. ASSUME NEW i \in 1 .. Len(s) + 1
      PROVE  Append(s, t)[i] = IF i % 2 = 1 THEN "buying" ELSE "selling"
  <2>1. CASE i \in 1 .. Len(s)
    BY <1>1, <2>1 DEF Alternates
  <2>2. CASE i = Len(s) + 1
    BY <1>1, <1>2, <2>2
  <2> QED
    BY <1>1, <2>1, <2>2
<1> QED
  BY <1>1, <1>2, <1>3 DEF Alternates

LEMMA AbInit_Inv == AbInit => AbInv
<1> SUFFICES ASSUME AbInit PROVE AbInv
  OBVIOUS
<1>1. AbTypeOK /\ TicksHaveLoops
  <2>1. [l \in AbLoops |-> <<>>] \in [AbLoops -> Seq({"buying", "selling"})]
    OBVIOUS
  <2>2. [l \in AbLoops |-> FALSE] \in [AbLoops -> BOOLEAN]
    OBVIOUS
  <2> QED
    BY <2>1, <2>2 DEF AbInit, AbTypeOK, TicksHaveLoops
<1>2. LoopsPair
  BY AbAssumption DEF AbInit, LoopsPair, PairedAt, Alternates, Ticking
<1>3. OneAtATime
  BY DEF AbInit, OneAtATime, UnderWay
<1> QED
  BY <1>1, <1>2, <1>3 DEF AbInv

\* The moves of a request are of its own, and a race is noted.
LEMMA RequestMoves ==
    ASSUME AbInv, NEW r \in AbRequests, NEW to, Beside(r),
           abRequest' = [abRequest EXCEPT ![r] = to], ~abRaced'
    PROVE  /\ ~abRaced /\ UnderWay \subseteq {r} /\ UnderWay' \subseteq {r}
           /\ abRequest'[r] = to
           /\ (to = "answered" => UnderWay' = {})
           /\ (UnderWay # {} => r \in UnderWay)
<1>1. ~abRaced /\ UnderWay \ {r} = {}
  BY DEF Beside, AbInv, AbTypeOK
<1>2. abRequest'[r] = to /\ \A q \in AbRequests \ {r} : abRequest'[q] = abRequest[q]
  BY DEF AbInv, AbTypeOK
<1>3. UnderWay' \subseteq {r}
  BY <1>1, <1>2 DEF UnderWay
<1>4. to = "answered" => r \notin UnderWay'
  BY <1>2 DEF UnderWay
<1> QED
  BY <1>1, <1>2, <1>3, <1>4

\* Requests do not touch what ticks do.
LEMMA LoopsKept ==
    ASSUME LoopsPair, UNCHANGED <<abTick, abEntered, abTrades, abDisturbed>> PROVE LoopsPair'
<1>1. \A l \in AbLoops : (PairedAt(l) => PairedAt(l)') /\ Ticking(l)' = Ticking(l)
  BY DEF PairedAt, Ticking
<1> QED
  BY <1>1 DEF LoopsPair

\* A state and trades that stay, stay paired.
LEMMA PairedKept == ASSUME UNCHANGED <<abEntered, abTrades>>, NEW l, PairedAt(l) PROVE PairedAt(l)'
BY DEF PairedAt

LEMMA EvenOrOdd == \A n \in Nat : n % 2 = 0 <=> ~ (n % 2 = 1)
OBVIOUS

LEMMA StartFound_Inv == ASSUME AbInv, NEW r \in AbRequests, StartFound(r) PROVE AbInv'
<1> USE DEF AbInv, StartFound, Unticked
<1>1. AbTypeOK' /\ TicksHaveLoops'
  BY DEF AbTypeOK, TicksHaveLoops, Beside
<1>2. LoopsPair'
  BY LoopsKept
<1>3. OneAtATime'
  <2> SUFFICES ASSUME ~abRaced' PROVE OneAtATime'
    BY DEF OneAtATime
  <2>1. ~abRaced /\ UnderWay' \subseteq {r}
    BY RequestMoves
  <2> QED
    BY <2>1 DEF OneAtATime
<1> QED
  BY <1>1, <1>2, <1>3

LEMMA ScheduleLoop_Inv ==
    ASSUME AbInv, NEW r \in AbRequests, NEW l \in AbLoops, ScheduleLoop(r, l) PROVE AbInv'
<1> USE DEF AbInv, ScheduleLoop, Unticked
<1>1. AbTypeOK' /\ TicksHaveLoops'
  BY DEF AbTypeOK, TicksHaveLoops, Beside
<1>2. LoopsPair'
  BY LoopsKept
<1>3. OneAtATime'
  <2> SUFFICES ASSUME ~abRaced' PROVE OneAtATime'
    BY DEF OneAtATime
  <2>1. ~abRaced /\ UnderWay' = {}
    BY RequestMoves
  <2>2. r \in UnderWay
    BY DEF UnderWay
  <2>3. abTimers = {} /\ abStatus # "gone"
    BY <2>1, <2>2, AbAssumption DEF OneAtATime, AbTypeOK
  <2> QED
    BY <2>1, <2>3 DEF OneAtATime
<1> QED
  BY <1>1, <1>2, <1>3

LEMMA Halts_Inv ==
    ASSUME AbInv, NEW r \in AbRequests, NEW to \in {"stopping", "deleting"}, Halts(r, to) PROVE AbInv'
<1> USE DEF AbInv, Halts, Unticked, CancelLoop
<1>1. AbTypeOK' /\ TicksHaveLoops'
  BY DEF AbTypeOK, TicksHaveLoops, Beside
<1>2. LoopsPair'
  BY LoopsKept
<1>3. OneAtATime'
  <2> SUFFICES ASSUME ~abRaced' PROVE OneAtATime'
    BY DEF OneAtATime
  <2>1. ~abRaced /\ UnderWay' \subseteq {r} /\ abRequest'[r] = to
    BY RequestMoves
  <2>2. abTimers' = {}
    BY <2>1 DEF OneAtATime
  <2> QED
    BY <2>1, <2>2 DEF OneAtATime
<1> QED
  BY <1>1, <1>2, <1>3

LEMMA Stopped_Inv == ASSUME AbInv, NEW r \in AbRequests, Stopped(r) PROVE AbInv'
<1> USE DEF AbInv, Stopped, Unticked
<1>1. AbTypeOK' /\ TicksHaveLoops'
  BY DEF AbTypeOK, TicksHaveLoops, Beside
<1>2. LoopsPair'
  BY LoopsKept
<1>3. OneAtATime'
  <2> SUFFICES ASSUME ~abRaced' PROVE OneAtATime'
    BY DEF OneAtATime
  <2>1. ~abRaced /\ UnderWay' = {}
    BY RequestMoves
  <2>2. r \in UnderWay
    BY DEF UnderWay
  <2>3. abTimers = {}
    BY <2>1, <2>2, AbAssumption DEF OneAtATime, AbTypeOK
  <2> QED
    BY <2>1, <2>3 DEF OneAtATime
<1> QED
  BY <1>1, <1>2, <1>3

LEMMA TradesDestroyed_Inv == ASSUME AbInv, NEW r \in AbRequests, TradesDestroyed(r) PROVE AbInv'
<1> USE DEF AbInv, TradesDestroyed
<1>1. AbTypeOK' /\ TicksHaveLoops'
  BY DEF AbTypeOK, TicksHaveLoops, Beside
<1>2. LoopsPair'
  BY DEF LoopsPair
<1>3. OneAtATime'
  <2> SUFFICES ASSUME ~abRaced' PROVE OneAtATime'
    BY DEF OneAtATime
  <2>1. ~abRaced /\ UnderWay' \subseteq {r} /\ abRequest'[r] = "destroying"
    BY RequestMoves
  <2>2. r \in UnderWay
    BY DEF UnderWay
  <2> QED
    BY <2>1, <2>2 DEF OneAtATime
<1> QED
  BY <1>1, <1>2, <1>3

LEMMA RunDestroyed_Inv == ASSUME AbInv, NEW r \in AbRequests, RunDestroyed(r) PROVE AbInv'
<1> USE DEF AbInv, RunDestroyed, Unticked
<1>1. AbTypeOK' /\ TicksHaveLoops'
  BY DEF AbTypeOK, TicksHaveLoops, Beside
<1>2. LoopsPair'
  BY LoopsKept
<1>3. OneAtATime'
  <2> SUFFICES ASSUME ~abRaced' PROVE OneAtATime'
    BY DEF OneAtATime
  <2>1. ~abRaced /\ UnderWay' = {}
    BY RequestMoves
  <2>2. r \in UnderWay
    BY DEF UnderWay
  <2>3. abTimers = {}
    BY <2>1, <2>2, AbAssumption DEF OneAtATime, AbTypeOK
  <2> QED
    BY <2>1, <2>3 DEF OneAtATime
<1> QED
  BY <1>1, <1>2, <1>3

\* Ticks do not touch what requests do.
LEMMA RequestsKept == ASSUME OneAtATime, Requested PROVE OneAtATime'
BY DEF OneAtATime, UnderWay, Requested

LEMMA TickFires_Inv ==
    ASSUME AbInv, NEW k \in AbTicks, NEW l \in AbLoops, TickFires(k, l) PROVE AbInv'
<1> USE DEF AbInv, TickFires
<1>1. AbTypeOK'
  BY DEF AbTypeOK, Requested
<1>2. TicksHaveLoops'
  BY DEF AbTypeOK, TicksHaveLoops
<1>3. LoopsPair'
  <2> SUFFICES ASSUME NEW m \in AbLoops, m \notin abDisturbed'
               PROVE  /\ \A i, j \in Ticking(m)' : i = j
                      /\ \A i \in Ticking(m)' : /\ abTick'[i].at = "buying" => ~abEntered[m]
                                                /\ abTick'[i].at = "selling" => abEntered[m]
    BY PairedKept DEF LoopsPair
  <2>0. abTick' = [abTick EXCEPT ![k] = [at |-> "fetching", of |-> l]] /\ m \notin abDisturbed
    OBVIOUS
  <2>1. CASE m = l
    <3>1. Ticking(l) = {}
      BY <2>1
    <3>2. Ticking(l)' \subseteq {k}
      BY <2>0, <3>1 DEF Ticking, AbTypeOK
    <3>3. abTick'[k].at = "fetching"
      BY <2>0 DEF AbTypeOK
    <3> QED
      BY <2>1, <3>2, <3>3
  <2>2. CASE m # l
    <3>1. Ticking(m)' \subseteq Ticking(m)
      BY <2>0, <2>2 DEF Ticking, AbTypeOK
    <3>2. \A i \in Ticking(m)' : abTick'[i] = abTick[i]
      BY <2>0, <2>2 DEF Ticking, AbTypeOK
    <3> QED
      BY <2>0, <3>1, <3>2 DEF LoopsPair
  <2> QED
    BY <2>1, <2>2
<1>4. OneAtATime'
  BY RequestsKept
<1> QED
  BY <1>1, <1>2, <1>3, <1>4

LEMMA Decides_Inv ==
    ASSUME AbInv, NEW k \in AbTicks, NEW action \in {"buy", "sell", "none"}, Decides(k, action)
    PROVE  AbInv'
<1> USE DEF AbInv, Decides, Moved, BuysWhen
<1> DEFINE l == abTick[k].of
           to == IF action = "buy" /\ ~abEntered[l] THEN "buying"
                 ELSE IF action = "sell" /\ abEntered[l] THEN "selling" ELSE "ended"
<1>0. /\ abTick' = [abTick EXCEPT ![k].at = to] /\ l \in AbLoops /\ abTick[k].at = "fetching"
      /\ UNCHANGED <<abEntered, abTrades, abDisturbed>>
  BY DEF TicksHaveLoops
<1>1. AbTypeOK'
  <2>1. to \in {"buying", "selling", "ended"}
    OBVIOUS
  <2> HIDE DEF to
  <2> QED
    BY <1>0, <2>1 DEF AbTypeOK, Requested
<1>2. abTick'[k].of = l /\ abTick'[k].at = to /\ \A j \in AbTicks \ {k} : abTick'[j] = abTick[j]
  BY <1>0 DEF AbTypeOK
<1>3. TicksHaveLoops'
  BY <1>0, <1>2 DEF TicksHaveLoops
<1>4. LoopsPair'
  <2> SUFFICES ASSUME NEW m \in AbLoops, m \notin abDisturbed
               PROVE  /\ \A i, j \in Ticking(m)' : i = j
                      /\ \A i \in Ticking(m)' : /\ abTick'[i].at = "buying" => ~abEntered[m]
                                                /\ abTick'[i].at = "selling" => abEntered[m]
    <3>1. UNCHANGED <<abEntered, abTrades, abDisturbed>>
      BY <1>0
    <3> QED
      BY <3>1, PairedKept DEF LoopsPair
  <2>1. Ticking(m)' \subseteq Ticking(m)
    BY <1>0, <1>2 DEF Ticking
  <2>2. (to = "buying" => ~abEntered[l]) /\ (to = "selling" => abEntered[l])
    OBVIOUS
  <2> HIDE DEF to
  <2>3. \A i \in Ticking(m)' : /\ abTick'[i].at = "buying" => ~abEntered[m]
                               /\ abTick'[i].at = "selling" => abEntered[m]
    <3> SUFFICES ASSUME NEW i \in Ticking(m)'
                 PROVE  (abTick'[i].at = "buying" => ~abEntered[m]) /\ (abTick'[i].at = "selling" => abEntered[m])
      OBVIOUS
    <3>1. CASE i = k
      <4>1. m = l
        BY <1>2, <3>1 DEF Ticking
      <4> QED
        BY <1>2, <2>2, <3>1, <4>1
    <3>2. CASE i # k
      <4>1. i \in AbTicks /\ i \in Ticking(m)
        BY <2>1 DEF Ticking
      <4>2. abTick'[i] = abTick[i]
        BY <1>2, <3>2, <4>1
      <4> QED
        BY <4>1, <4>2 DEF LoopsPair
    <3> QED
      BY <3>1, <3>2
  <2> QED
    BY <2>1, <2>3 DEF LoopsPair
<1>5. OneAtATime'
  BY RequestsKept
<1> QED
  BY <1>1, <1>3, <1>4, <1>5

LEMMA TradeStored_Inv ==
    ASSUME AbInv, NEW k \in AbTicks, NEW failing \in BOOLEAN, TradeStored(k, failing)
    PROVE  AbInv'
<1> USE DEF AbInv, TradeStored, Moved
<1> DEFINE l == abTick[k].of
           t == abTick[k].at
<1>0. /\ abTick' = [abTick EXCEPT ![k].at = "ended"] /\ l \in AbLoops /\ t \in {"buying", "selling"}
      /\ abDisturbed' = abDisturbed
      /\ \/ UNCHANGED <<abEntered, abTrades>>
         \/ /\ abTrades' = [abTrades EXCEPT ![l] = Append(@, t)]
            /\ abEntered' = [abEntered EXCEPT ![l] = t = "buying"]
  BY DEF TicksHaveLoops
<1>1. AbTypeOK'
  <2>1. abTrades' \in [AbLoops -> Seq({"buying", "selling"})]
    <3>1. abTrades[l] \in Seq({"buying", "selling"})
      BY <1>0 DEF AbTypeOK
    <3>2. Append(abTrades[l], t) \in Seq({"buying", "selling"})
      BY <1>0, <3>1
    <3> QED
      BY <1>0, <3>2 DEF AbTypeOK
  <2>2. abEntered' \in [AbLoops -> BOOLEAN]
    BY <1>0 DEF AbTypeOK
  <2>3. abTick' \in [AbTicks -> [at : {"new", "fetching", "buying", "selling", "ended"}, of : AbLoops \union {NoLoop}]]
    BY <1>0 DEF AbTypeOK
  <2> QED
    BY <1>0, <2>1, <2>2, <2>3 DEF AbTypeOK, Requested
<1>2. abTick'[k].at = "ended" /\ \A j \in AbTicks \ {k} : abTick'[j] = abTick[j]
  BY <1>0 DEF AbTypeOK
<1>3. TicksHaveLoops'
  BY <1>2 DEF TicksHaveLoops
<1>4. LoopsPair'
  <2> SUFFICES ASSUME NEW m \in AbLoops, m \notin abDisturbed
               PROVE  /\ PairedAt(m)'
                      /\ \A i, j \in Ticking(m)' : i = j
                      /\ \A i \in Ticking(m)' : /\ abTick'[i].at = "buying" => ~abEntered'[m]
                                                /\ abTick'[i].at = "selling" => abEntered'[m]
    BY <1>0 DEF LoopsPair
  <2>1. Ticking(m)' \subseteq Ticking(m) \ {k} /\ \A i \in Ticking(m)' : abTick'[i] = abTick[i]
    BY <1>2 DEF Ticking
  <2>2. CASE m # l \/ UNCHANGED <<abEntered, abTrades>>
    <3>1. abEntered'[m] = abEntered[m] /\ abTrades'[m] = abTrades[m]
      BY <1>0, <2>2 DEF AbTypeOK
    <3>2. PairedAt(m) => PairedAt(m)'
      BY <3>1 DEF PairedAt
    <3> QED
      BY <2>1, <3>1, <3>2 DEF LoopsPair
  <2>3. CASE /\ m = l
             /\ abTrades' = [abTrades EXCEPT ![l] = Append(@, t)]
             /\ abEntered' = [abEntered EXCEPT ![l] = t = "buying"]
    <3>1. /\ abTrades'[m] = Append(abTrades[m], t) /\ abEntered'[m] = (t = "buying")
          /\ abTrades[m] \in Seq({"buying", "selling"})
      BY <2>3 DEF AbTypeOK
    <3>2. k \in Ticking(m)
      BY <1>0, <2>3 DEF Ticking
    <3>3. Ticking(m)' = {}
      BY <2>1, <3>2 DEF LoopsPair
    <3>4. /\ Alternates(abTrades[m])
          /\ t = "buying" <=> ~abEntered[m]
          /\ abEntered[m] <=> Len(abTrades[m]) % 2 = 1
      <4>1. PairedAt(m) /\ (abTick[k].at = "buying" => ~abEntered[m]) /\ (abTick[k].at = "selling" => abEntered[m])
        BY <3>2 DEF LoopsPair
      <4> QED
        BY <1>0, <4>1 DEF PairedAt
    <3>5. Len(abTrades[m]) % 2 = 0 <=> ~ (Len(abTrades[m]) % 2 = 1)
      <4>1. Len(abTrades[m]) \in Nat
        BY <3>1
      <4> QED
        BY <4>1, EvenOrOdd
    <3>6. Alternates(Append(abTrades[m], t)) /\ (t = "buying" <=> Len(Append(abTrades[m], t)) % 2 = 1)
      BY <1>0, <3>1, <3>4, <3>5, PairAppended
    <3> QED
      BY <3>1, <3>3, <3>6 DEF PairedAt
  <2> QED
    BY <1>0, <2>2, <2>3
<1>5. OneAtATime'
  BY RequestsKept
<1> QED
  BY <1>1, <1>3, <1>4, <1>5

LEMMA AbRestart_Inv == ASSUME AbInv, AbRestart PROVE AbInv'
<1> USE DEF AbInv, AbRestart
<1>1. AbTypeOK'
  BY DEF AbTypeOK
<1>2. TicksHaveLoops'
  BY DEF TicksHaveLoops, AbTypeOK
<1>3. LoopsPair'
  <2>1. \A l \in AbLoops : Ticking(l)' \subseteq Ticking(l)
    BY DEF Ticking, AbTypeOK
  <2>2. \A l \in AbLoops : \A k \in Ticking(l)' : abTick'[k].at \notin {"buying", "selling"}
    BY DEF Ticking, AbTypeOK
  <2>3. UNCHANGED <<abEntered, abTrades, abDisturbed>>
    OBVIOUS
  <2>4. \A l \in AbLoops : PairedAt(l) => PairedAt(l)'
    BY <2>3, PairedKept
  <2> QED
    BY <2>1, <2>2, <2>3, <2>4 DEF LoopsPair
<1>4. OneAtATime'
  <2>1. UnderWay' = {}
    BY DEF UnderWay
  <2> QED
    BY <2>1 DEF OneAtATime
<1> QED
  BY <1>1, <1>2, <1>3, <1>4

\* Inductive invariant of the harness.
THEOREM AbInductive == AbSpec => []AbInv
<1>1. AbInv /\ UNCHANGED abVars => AbInv'
  BY LoopsKept DEF AbInv, abVars, AbTypeOK, TicksHaveLoops, OneAtATime, UnderWay
<1>2. AbInv /\ [AbNext]_abVars => AbInv'
  BY <1>1, AbRestart_Inv, StartFound_Inv, Halts_Inv, Stopped_Inv, TradesDestroyed_Inv, RunDestroyed_Inv,
     ScheduleLoop_Inv, TickFires_Inv, Decides_Inv, TradeStored_Inv DEF AbNext, StopHalts, DeleteHalts
<1> QED
  BY AbInit_Inv, <1>2, PTL DEF AbSpec

LEMMA AbInvHolds == AbInv => ShadowPairs /\ StoppedRunsQuiet
BY DEF AbInv, LoopsPair, PairedAt, OneAtATime, ShadowPairs, StoppedRunsQuiet

\* The shadow trades of a loop that no second start and no deletion disturbed alternate, and a
\* stopped run books none (tick, startAbRun and stopAbRun of strategyAb.js).
THEOREM ShadowTradesPair == AbSpec => [](ShadowPairs /\ StoppedRunsQuiet)
BY AbInductive, AbInvHolds, PTL

(***************************************************************************)
(* The four together                                                       *)
(***************************************************************************)

\* Counters that agree with the exits and exits that are counted once, whatever the broker
\* and the other ticks do; shadow trades in pairs, and none of a stopped run.
THEOREM BookAgreesHolds == BookSpec /\ AbSpec => []BookAgrees
BY CountersStayRight, ExitsCountOnce, ShadowTradesPair, PTL DEF BookAgrees

\* The book, the risk gate, the entry gates and the harness keep the types of their rows, and
\* no entry is sized over the cap.
THEOREM BookKeepsTypes == BookSpec /\ RiskSpec /\ GateSpec /\ AbSpec => []TypeOK
<1>1. RiskInv => RiskTypeOK
  BY DEF RiskInv
<1>2. AbInv => AbTypeOK
  BY DEF AbInv
<1> QED
  BY <1>1, <1>2, BookTypes, RiskInductive, GateTypesHold, AbInductive, PTL DEF TypeOK

\* What moves one of the four is a step of it, and no step of the three others: a behaviour
\* of the run is one of each specification.
THEOREM RunIsOfTheFour ==
    MCInit /\ [][MCNext]_<<focus, bookVars, riskVars, gateVars, abVars>>
        => BookSpec /\ RiskSpec /\ GateSpec /\ AbSpec
<1>1. MCInit => BookInit /\ RiskInit /\ GateInit /\ AbInit
  BY DEF MCInit
<1>2. [MCNext]_<<focus, bookVars, riskVars, gateVars, abVars>>
        => [BookNext]_bookVars /\ [RiskNext]_riskVars /\ [GateNext]_gateVars /\ [AbNext]_abVars
  BY DEF MCNext
<1> QED
  BY <1>1, <1>2, PTL DEF BookSpec, RiskSpec, GateSpec, AbSpec
===============================================================================
