------------------------------ MODULE AbHarness ------------------------------
(***************************************************************************)
(* The A/B harness (server/routes/strategyAb.js): one run, one side and    *)
(* one symbol.  A loop is an interval timer with the state object its      *)
(* ticks share; the map knows at most one loop of the run.  Sides and      *)
(* symbols have states of their own and do not meet.                       *)
(*                                                                         *)
(* A tick awaits the bars and prices, decides on the shared state, awaits  *)
(* the write of its trade and only then changes the state; the interval    *)
(* starts the next tick whether or not the last has ended.                 *)
(***************************************************************************)
EXTENDS Naturals, Sequences, FiniteSets

CONSTANTS
    AbLoops,       \* loops, each scheduled at most once
    AbTicks,       \* ticks, each started at most once
    AbRequests,    \* POST start, POST stop and DELETE, each sent at most once
    NoLoop         \* no entry in the map

ASSUME AbAssumption == IsFiniteSet(AbLoops) /\ NoLoop \notin AbLoops

VARIABLES
    abStatus,      \* status of the StrategyAbRun row; "gone" once destroyed
    abLoop,        \* the entry of the run in the map
    abTimers,      \* loops whose interval runs
    abEntered,     \* each loop: whether its state holds an open position
    abTick,        \* each tick: where it is, its loop, what it decided
    abRequest,     \* each request: what it is and where it is
    abTrades,      \* the StrategyAbTrade rows each loop wrote, in order
    abDisturbed,   \* history: loops with two ticks at once, or whose trades a DELETE destroyed
    abRaced        \* history: a request moved while another was under way

abVars == <<abStatus, abLoop, abTimers, abEntered, abTick, abRequest, abTrades, abDisturbed, abRaced>>

AbInit ==
    /\ abStatus = "idle" /\ abLoop = NoLoop /\ abTimers = {}
    /\ abEntered = [l \in AbLoops |-> FALSE]
    /\ abTick = [k \in AbTicks |-> [at |-> "new", of |-> NoLoop]]
    /\ abRequest = [r \in AbRequests |-> "new"]
    /\ abTrades = [l \in AbLoops |-> <<>>]
    /\ abDisturbed = {} /\ abRaced = FALSE

UnderWay == {r \in AbRequests : abRequest[r] \notin {"new", "answered"}}
Beside(r) == abRaced' = (abRaced \/ UnderWay \ {r} # {})
Unticked == UNCHANGED <<abEntered, abTick, abTrades, abDisturbed>>

\* start: the run is found and the map has no loop of it; status is being written.
StartFound(r) ==
    /\ abRequest[r] = "new" /\ abStatus # "gone" /\ abLoop = NoLoop
    /\ abRequest' = [abRequest EXCEPT ![r] = "starting"]
    /\ Beside(r) /\ Unticked
    /\ UNCHANGED <<abStatus, abLoop, abTimers>>

\* The status is written (on no row, once the run is gone), a fresh state made, the
\* interval started and the map's entry set, over whatever it held.
ScheduleLoop(r, l) ==
    /\ abRequest[r] = "starting"
    /\ l \notin abTimers /\ abTrades[l] = <<>> /\ \A k \in AbTicks : abTick[k].of # l
    /\ abStatus' = IF abStatus = "gone" THEN "gone" ELSE "running"
    /\ abTimers' = abTimers \union {l}
    /\ abLoop' = l
    /\ abRequest' = [abRequest EXCEPT ![r] = "answered"]
    /\ Beside(r) /\ Unticked

\* Mutant: the entry goes, the interval stays.
ForgetLoop == abLoop' = NoLoop /\ UNCHANGED abTimers

\* clearInterval of the handle in the map, and the entry deleted.
CancelLoop == abLoop' = NoLoop /\ abTimers' = abTimers \ {abLoop}

\* stop and DELETE cancel the loop once the run is found.
Halts(r, to) ==
    /\ abRequest[r] = "new" /\ abStatus # "gone"
    /\ CancelLoop
    /\ abRequest' = [abRequest EXCEPT ![r] = to]
    /\ Beside(r) /\ Unticked /\ UNCHANGED abStatus

StopHalts(r) == Halts(r, "stopping")
DeleteHalts(r) == Halts(r, "deleting")

\* stop computes the stats and writes them with the status.
Stopped(r) ==
    /\ abRequest[r] = "stopping"
    /\ abStatus' = IF abStatus = "gone" THEN "gone" ELSE "stopped"
    /\ abRequest' = [abRequest EXCEPT ![r] = "answered"]
    /\ Beside(r) /\ Unticked /\ UNCHANGED <<abLoop, abTimers>>

\* DELETE destroys the trades, then the run.
TradesDestroyed(r) ==
    /\ abRequest[r] = "deleting"
    /\ abTrades' = [l \in AbLoops |-> <<>>]
    /\ abRequest' = [abRequest EXCEPT ![r] = "destroying"]
    /\ abDisturbed' = AbLoops
    /\ Beside(r)
    /\ UNCHANGED <<abStatus, abLoop, abTimers, abEntered, abTick>>

RunDestroyed(r) ==
    /\ abRequest[r] = "destroying"
    /\ abStatus' = "gone"
    /\ abRequest' = [abRequest EXCEPT ![r] = "answered"]
    /\ Beside(r) /\ Unticked /\ UNCHANGED <<abLoop, abTimers>>

Ticking(l) == {k \in AbTicks : abTick[k].of = l /\ abTick[k].at # "ended"}
Moved(k, to) == abTick' = [abTick EXCEPT ![k].at = to]
Requested == UNCHANGED <<abStatus, abLoop, abTimers, abRequest, abRaced>>

\* A tick of a live interval begins, and awaits bars and prices.
TickFires(k, l) ==
    /\ abTick[k].at = "new" /\ l \in abTimers
    /\ abTick' = [abTick EXCEPT ![k] = [at |-> "fetching", of |-> l]]
    /\ abDisturbed' = IF Ticking(l) # {} THEN abDisturbed \union {l} ELSE abDisturbed
    /\ Requested /\ UNCHANGED <<abEntered, abTrades>>

\* Mutant: a position that is open does not keep a buy away.
BuysAnyway(entered) == TRUE

\* if (last.action === 'buy' && !open)
BuysWhen(entered) == ~entered

\* The bars end in a buy or a sell, or in neither; the state says which is taken.
Decides(k, action) ==
    /\ abTick[k].at = "fetching"
    /\ LET entered == abEntered[abTick[k].of]
           to == IF action = "buy" /\ BuysWhen(entered) THEN "buying"
                 ELSE IF action = "sell" /\ entered THEN "selling" ELSE "ended"
       IN  Moved(k, to)
    /\ Requested /\ UNCHANGED <<abEntered, abTrades, abDisturbed>>

\* The trade is stored and then the state changed, or the write throws and the tick
\* ends, its state as it was.
TradeStored(k, failing) ==
    /\ abTick[k].at \in {"buying", "selling"}
    /\ Moved(k, "ended")
    /\ LET l == abTick[k].of
       IN  IF failing THEN UNCHANGED <<abEntered, abTrades>>
           ELSE /\ abTrades' = [abTrades EXCEPT ![l] = Append(@, abTick[k].at)]
                /\ abEntered' = [abEntered EXCEPT ![l] = abTick[k].at = "buying"]
    /\ Requested /\ UNCHANGED abDisturbed

\* Loops and ticks are lost on restart; the rows stay.
AbRestart ==
    /\ abTimers # {}
    /\ abLoop' = NoLoop /\ abTimers' = {}
    /\ abTick' = [k \in AbTicks |-> IF abTick[k].at = "new" THEN abTick[k] ELSE [abTick[k] EXCEPT !.at = "ended"]]
    /\ abRequest' = [r \in AbRequests |-> IF r \in UnderWay THEN "answered" ELSE abRequest[r]]
    /\ UNCHANGED <<abStatus, abEntered, abTrades, abDisturbed, abRaced>>

AbNext ==
    \/ AbRestart
    \/ \E r \in AbRequests :
         \/ StartFound(r) \/ StopHalts(r) \/ Stopped(r)
         \/ DeleteHalts(r) \/ TradesDestroyed(r) \/ RunDestroyed(r)
         \/ \E l \in AbLoops : ScheduleLoop(r, l)
    \/ \E k \in AbTicks :
         \/ \E l \in AbLoops : TickFires(k, l)
         \/ \E action \in {"buy", "sell", "none"} : Decides(k, action)
         \/ \E failing \in BOOLEAN : TradeStored(k, failing)

AbSpec == AbInit /\ [][AbNext]_abVars

(***************************************************************************)
(* Properties                                                              *)
(***************************************************************************)

AbTypeOK ==
    /\ abStatus \in {"idle", "running", "stopped", "gone"}
    /\ abLoop \in AbLoops \union {NoLoop} /\ abTimers \subseteq AbLoops
    /\ abEntered \in [AbLoops -> BOOLEAN]
    /\ abTick \in [AbTicks -> [at : {"new", "fetching", "buying", "selling", "ended"}, of : AbLoops \union {NoLoop}]]
    /\ abRequest \in [AbRequests -> {"new", "starting", "stopping", "deleting", "destroying", "answered"}]
    /\ abTrades \in [AbLoops -> Seq({"buying", "selling"})]
    /\ abDisturbed \subseteq AbLoops /\ abRaced \in BOOLEAN

Alternates(s) == \A i \in 1..Len(s) : s[i] = IF i % 2 = 1 THEN "buying" ELSE "selling"

\* The trades of a loop whose ticks never overlapped and whose run was not deleted pair
\* every sale with the purchase before it, whatever writes fail and however loops are
\* stopped, lost and started: the result the two sides are compared by is of whole round
\* trips.
ShadowPairs == \A l \in AbLoops : l \notin abDisturbed => Alternates(abTrades[l])

\* A run that was stopped or deleted has no interval left, unless requests of the run
\* overlapped: a loop nobody can cancel any more comes from such an overlap only.
StoppedRunsQuiet == abStatus \in {"stopped", "gone"} /\ UnderWay = {} => abTimers = {} \/ abRaced
=============================================================================
