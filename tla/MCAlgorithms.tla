----------------------------- MODULE MCAlgorithms -----------------------------
(***************************************************************************)
(* The strategies, the simulators, the searches and the pages on small     *)
(* inputs.  They share no variable: focus names the one that moves.        *)
(***************************************************************************)
EXTENDS Strategies, Simulators, PortfolioSim, HyperoptJobs, ClientPages,
        QLearner, Performance

(* The legs may have made no trade at all.                                 *)
ASSUME NoTrades == {} \in LegTrades

VARIABLE focus

(* The periods of the indicators, shrunk in proportion: what a strategy    *)
(* compares are windows of different lengths.                              *)
MCPeriods(n) ==
  CASE n <= 2 -> 1
    [] n \in 3..14 -> 2
    [] n \in 15..29 \union {50} -> 3
    [] n \in 30..40 \union {200} -> 4

(* A flat bar, a rise and a fall on volume, and the first bar of a session *)
(* above them.                                                             *)
MCShape(o, h, l, c, v, n) == [open |-> o, high |-> h, low |-> l, close |-> c, volume |-> v, opens |-> n]
MCShapes ==
  {MCShape(100, 101, 99, 100, 1, FALSE), MCShape(100, 111, 99, 110, 5, FALSE),
   MCShape(100, 101, 89, 90, 5, FALSE), MCShape(104, 106, 104, 105, 1, TRUE)}

MCTape ==
  {[low |-> 90000, high |-> 110000, close |-> 100000], [low |-> 100000, high |-> 130000, close |-> 120000],
   [low |-> 60000, high |-> 100000, close |-> 70000]}

(* Up to four trades: overlapping, ending where another begins, too dear.  *)
MCTrade(n, v) == [id |-> n, entry |-> v[1], exit |-> v[2], bought |-> v[3], sold |-> v[4]]
MCRaw ==
  {<<1, 4, 10, 12>>, <<1, 2, 10, 7>>, <<2, 3, 90, 91>>, <<3, 3, 10, 12>>, <<3, 4, 10, 7>>, <<2, 2, 10, 12>>,
   <<4, 4, 10, 9>>}
MCLegs == UNION {{{MCTrade(n, f[n]) : n \in 1..k} : f \in [1..k -> MCRaw]} : k \in 0..4}

MCScores == {0, 1}

(* Trades of both tables: some win, one is dated before what it follows.   *)
MCClosed(s, y, p, w) == [source |-> s, symbol |-> y, pnl |-> p, when |-> w]
MCClosedTrades ==
  {MCClosed("journal", 1, 4, 1), MCClosed("journal", 2, -3, 3), MCClosed("journal", 1, 0, 2),
   MCClosed("auto", 1, -5, 2), MCClosed("auto", 2, 7, 2), MCClosed("auto", 2, 0, 1), MCClosed("auto", 1, Unbooked, 1)}

MCInit ==
  /\ focus \in {"feed", "simulator", "pool", "search", "pages", "learner", "figures"}
  /\ FeedInit
  /\ SearchInit /\ (focus # "search" => kind = "grid")
  /\ IF focus = "simulator" THEN SimInit
     ELSE engine = "strategy" /\ confluence = [buys |-> {}, sells |-> {}] /\ tick = 0 /\ price = 0
          /\ book = [cash |-> Capital, position |-> NoPosition, trades |-> <<>>]
  /\ IF focus = "pool" THEN PoolInit
     ELSE queue = <<>> /\ open = <<>> /\ cash = PoolCash /\ accepted = {} /\ refused = {} /\ endings = {}
  /\ pageInit /\ (focus # "pages" => page = MarketNews /\ selection = CHOOSE s \in Selections : TRUE)
  /\ LearnInit /\ PerfInit
  /\ focus # "learner" => \A i \in 1 .. BarCount : series[i] = [state |-> 1, price |-> 0]

MCNext ==
  \/ focus = "feed" /\ FeedNext /\ UNCHANGED <<focus, simVars, poolVars, searchVars, pageVars, learnVars, perfVars>>
  \/ focus = "simulator" /\ SimNext /\ UNCHANGED <<focus, feedVars, poolVars, searchVars, pageVars, learnVars, perfVars>>
  \/ focus = "pool" /\ PoolNext /\ UNCHANGED <<focus, feedVars, simVars, searchVars, pageVars, learnVars, perfVars>>
  \/ focus = "search" /\ SearchNext /\ UNCHANGED <<focus, feedVars, simVars, poolVars, pageVars, learnVars, perfVars>>
  \/ focus = "pages" /\ pageNext /\ UNCHANGED <<focus, feedVars, simVars, poolVars, searchVars, learnVars, perfVars>>
  \/ focus = "learner" /\ LearnNext /\ UNCHANGED <<focus, feedVars, simVars, poolVars, searchVars, pageVars, perfVars>>
  \/ focus = "figures" /\ PerfNext
     /\ UNCHANGED <<focus, feedVars, simVars, poolVars, searchVars, pageVars, learnVars>>

MCSpec ==
  MCInit /\ [][MCNext]_<<focus, feedVars, simVars, poolVars, searchVars, pageVars, learnVars, perfVars>>

-----------------------------------------------------------------------------

(* Every variable of the strategies, simulators, searches and pages keeps  *)
(* its type: a signal, an account, a leaderboard, a request in flight.     *)
TypeOK == FeedTypeOK /\ SimTypeOK /\ PoolTypeOK /\ SearchTypeOK /\ pageTypeOK /\ LearnTypeOK /\ PerfTypeOK

(* No account loses or invents money: the cash of the backtesters, and the *)
(* returns the learner adds up against what its positions brought, with    *)
(* every value of its table inside the range that discounting gives; and   *)
(* the figures of the performance page are those of the trades (autoTrader *)
(* and journal rows, rlLite and the backtesters).                          *)
ReturnsAddUp == CashConserved /\ ReturnsAreHeld /\ ValuesBounded /\ StatsAddUp
=============================================================================
