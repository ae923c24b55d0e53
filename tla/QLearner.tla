------------------------------ MODULE QLearner ------------------------------
(***************************************************************************)
(* The tabular learner of rl-lite (server/services/rlLite.js): episodes of *)
(* training over one series of bars, and the greedy evaluation of the      *)
(* table they leave.                                                       *)
(*                                                                         *)
(* Prices and commissions are logarithms, so that a return is a difference *)
(* as in the code; alpha and gamma are one half.  Exploration may take any *)
(* action at any bar, so training chooses freely.                          *)
(***************************************************************************)
EXTENDS Integers, Sequences, FiniteSets, FiniteSetsExt

CONSTANTS
    MarketStates,  \* buckets of the indicators
    LogPrices,
    CostIn,        \* log(1 + commission)
    CostOut,       \* -log(1 - commission)
    BarCount,      \* bound: bars of the series
    Episodes,
    Flat           \* no entry price

ASSUME QLearnerAssumption ==
    /\ LogPrices \subseteq Int /\ LogPrices # {} /\ IsFiniteSet(LogPrices) /\ CostIn \in Nat /\ CostOut \in Nat
    /\ BarCount \in Nat \ {0} /\ Episodes \in Nat \ {0}
    /\ Flat \notin Int

Actions == 0 .. 2          \* hold, enter, exit

VARIABLES
    series,     \* bucketizeBars: the state and price of every bar
    qTable,
    episode,    \* the episode, and Episodes + 1 for the evaluation
    bar,        \* the bar the walk is at
    entry,      \* the price paid, commission included
    gained,     \* epReturn, or equity in the evaluation
    trades,     \* epTrades, or the trades of the evaluation
    marked,     \* history: what holding from bar to bar brought, less the commissions
    log         \* the last episode's return and trades, with what marked was

learnVars == <<series, qTable, episode, bar, entry, gained, trades, marked, log>>
walkVars  == <<bar, entry, gained, trades, marked>>

NoLog == [return |-> 0, trades |-> 0, marked |-> 0]

WalkStarts == bar = 1 /\ entry = Flat /\ gained = 0 /\ trades = 0 /\ marked = 0

LearnInit ==
    /\ series \in [1 .. BarCount -> [state : MarketStates, price : LogPrices]]
    /\ qTable = [s \in MarketStates |-> [a \in Actions |-> 0]]
    /\ episode = 1
    /\ WalkStarts
    /\ log = NoLog

Learning == episode <= Episodes
Price(i) == series[i].price
Best(s) == Max({qTable[s][a] : a \in Actions})

\* argmax: the first of the best.
Greedy(s) == Min({a \in Actions : qTable[s][a] = Best(s)})

\* What the action chosen amounts to: entering needs no position, exiting needs
\* one, and everything else is to hold.
Effect(a) ==
    IF a = (IF entry = Flat THEN 1 ELSE 2) THEN a ELSE 0

\* Mutant: the commission of the exit is left out.
ExitReturnUncharged == Price(bar) - entry

ExitReturn == Price(bar) - CostOut - entry

\* What the bars held since the last step brought.
Move(i) == IF i < BarCount THEN Price(i + 1) - Price(i) ELSE 0

Trade(effect) ==
    CASE effect = 1 ->
           /\ entry' = Price(bar) + CostIn
           /\ marked' = marked - CostIn + Move(bar)
           /\ UNCHANGED <<gained, trades>>
      [] effect = 2 ->
           /\ entry' = Flat
           /\ gained' = gained + ExitReturn
           /\ trades' = trades + 1
           /\ marked' = marked - CostOut
      [] effect = 0 ->
           /\ marked' = IF entry = Flat THEN marked ELSE marked + Move(bar)
           /\ UNCHANGED <<entry, gained, trades>>

\* The realised return on an exit, and a tenth of the bar's move while holding.
Reward(effect) ==
    CASE effect = 2 -> ExitReturn
      [] effect # 2 /\ entry # Flat -> Move(bar) \div 10
      [] OTHER -> 0

\* Mutant: the update adds the whole target to the value.
LearntSum(value, target) == value + target

\* Q(s,a) moves half of the way to its target.
Learnt(value, target) == value + (target - value) \div 2

\* A bar of training: act, then learn from the next bar's best value, whether or
\* not a position is held there.
Train(a) ==
    /\ Learning /\ bar < BarCount
    /\ LET s == series[bar].state
           effect == Effect(a)
           target == Reward(effect) + Best(series[bar + 1].state) \div 2
       IN /\ Trade(effect)
          /\ qTable' = [qTable EXCEPT ![s][effect] = Learnt(@, target)]
    /\ bar' = bar + 1
    /\ UNCHANGED <<series, episode, log>>

\* A bar of the evaluation, the last one included.
Evaluate ==
    /\ episode = Episodes + 1 /\ bar <= BarCount
    /\ Trade(Effect(Greedy(series[bar].state)))
    /\ bar' = bar + 1
    /\ UNCHANGED <<series, qTable, episode, log>>

WalkDone == bar = (IF Learning THEN BarCount ELSE BarCount + 1) /\ episode <= Episodes + 1

\* A position left over is closed at the last bar for the accounts; the table
\* learns nothing from that.
WalkEnds ==
    /\ WalkDone
    /\ log' = IF entry = Flat
              THEN [return |-> gained, trades |-> trades, marked |-> marked]
              ELSE [return |-> gained + (Price(BarCount) - CostOut - entry),
                    trades |-> trades + 1, marked |-> marked - CostOut]
    /\ episode' = episode + 1
    /\ bar' = 1 /\ entry' = Flat /\ gained' = 0 /\ trades' = 0 /\ marked' = 0
    /\ UNCHANGED <<series, qTable>>

LearnNext == Evaluate \/ WalkEnds \/ \E a \in Actions : Train(a)
LearnSpec == LearnInit /\ [][LearnNext]_learnVars

-----------------------------------------------------------------------------

\* The largest reward a bar can bring, in size.
Steepest == Max({p - q : p, q \in LogPrices}) + CostIn + CostOut

LearnTypeOK ==
    /\ qTable \in [MarketStates -> [Actions -> Int]]
    /\ episode \in 1 .. Episodes + 2 /\ bar \in 1 .. BarCount + 1
    /\ entry = Flat \/ entry \in {p + CostIn : p \in LogPrices}
    /\ trades \in 0 .. BarCount

\* No value of the table leaves the range that discounting gives the rewards,
\* in whatever order bars are learned from (trainQTable).
ValuesBounded ==
    \A s \in MarketStates, a \in Actions :
      qTable[s][a] \in -(2 * Steepest) .. 2 * Steepest

\* The returns a walk adds up trade by trade are what its position brought bar
\* by bar, less two commissions a trade, the position closed at the end
\* included (trainQTable and evaluatePolicy).
ReturnsAreHeld ==
    /\ gained + (IF entry = Flat THEN 0 ELSE Price(IF bar > BarCount THEN BarCount ELSE bar) - entry) = marked
    /\ log.return = log.marked
=============================================================================
