----------------------------- MODULE MCTraderBook -----------------------------
(***************************************************************************)
(* What the auto-trader may enter, what the risk gate lets through, what   *)
(* the book keeps of it and what the A/B harness books, on small           *)
(* instances.  The four share no variable: focus names the one that moves. *)
(***************************************************************************)
EXTENDS TraderBook, RiskGate, EntryGates, AbHarness

VARIABLE focus

MCOrders == {"first", "second", "third"}

(* Two buys of one symbol, and a sale of another at the largest size.      *)
MCWanted ==
  [o \in MCOrders |-> [symbol |-> IF o = "third" THEN "y" ELSE "x", side |-> IF o = "third" THEN -1 ELSE 1,
                       notional |-> IF o = "second" THEN 2 ELSE 3]]

(* An account within the limits, and one past its daily loss.              *)
MCAccounts ==
  {[equity |-> 100, lastEquity |-> 100, buyingPower |-> 50, blocked |-> FALSE],
   [equity |-> 100, lastEquity |-> 200, buyingPower |-> 2, blocked |-> FALSE]}
MCQuotes == {[age |-> 1, valid |-> TRUE], [age |-> 9, valid |-> TRUE]}
MCPolicy ==
  [maxGrossExposure |-> 5, maxDailyLoss |-> 50, maxLeverage |-> 1, maxConcentrationPct |-> 25,
   maxOrderNotional |-> 3, maxOrdersPerMinute |-> 2, maxQuoteAge |-> 5]

MCGate(l, t, pp, c, d, r) ==
  [lookback |-> l, tradeLimit |-> t, perPair |-> pp, cooldown |-> c, drawdownPct |-> d, minTrades |-> 2,
   requiredProfit |-> r]
MCGates == {MCGate(2, 1, FALSE, 0, 0, -9), MCGate(2, 2, FALSE, 1, 50, 0), MCGate(1, 2, TRUE, 2, 0, -9)}
MCProfits == {-2, 5}

MCSizing(m, r, k, e, c) ==
  [maxPositionSize |-> m, riskPerTrade |-> r, useKelly |-> k, kellyPct |-> 50, kellyTrades |-> 2,
   useEdge |-> e, floorPct |-> 50, useCorrelation |-> c]
MCSizings ==
  {MCSizing(50, 6, FALSE, TRUE, FALSE), MCSizing(45, 0, TRUE, FALSE, TRUE), MCSizing(5, 3, FALSE, FALSE, FALSE)}

MCInit ==
  /\ focus \in {"book", "risk", "gates", "harness"}
  /\ RiskInit /\ AbInit
  /\ BookInit /\ (focus # "book" => bracketed /\ \A a \in Assets, b \in 1..LastBar : signal[a][b] = "none")
  /\ GateInit /\ (focus # "gates" => gates = MCGate(2, 1, FALSE, 0, 0, -9) /\ sizing = MCSizing(5, 3, FALSE, FALSE, FALSE))

MCNext ==
  \/ focus = "book" /\ BookNext /\ UNCHANGED <<focus, riskVars, gateVars, abVars>>
  \/ focus = "risk" /\ RiskNext /\ UNCHANGED <<focus, bookVars, gateVars, abVars>>
  \/ focus = "gates" /\ GateNext /\ UNCHANGED <<focus, bookVars, riskVars, abVars>>
  \/ focus = "harness" /\ AbNext /\ UNCHANGED <<focus, bookVars, riskVars, gateVars>>

-----------------------------------------------------------------------------

(* Every variable of the book, the risk gate and the entry gates keeps its *)
(* type: positions, counts and sizes stay in the range the code relies on. *)
TypeOK == BookTypeOK /\ RiskTypeOK /\ GateTypeOK /\ AbTypeOK

(* The row's daily result is what was counted, and no exit is counted      *)
(* twice: the counters the kill switch judges (autoTrader.js).  The shadow *)
(* trades of a side pair up, and a stopped run trades no more              *)
(* (strategyAb.js).                                                        *)
BookAgrees == CountersAgree /\ ExitCountedOnce /\ ShadowPairs /\ StoppedRunsQuiet
=============================================================================
