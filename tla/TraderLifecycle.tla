-------------------------- MODULE TraderLifecycle --------------------------
(***************************************************************************)
(* The lifecycle of one user's auto-trader (server/services/autoTrader.js) *)
(* in one server process: its AutoTraderState row, the interval in the     *)
(* timers map, the tickRunning mutex, start, stop, the kill switch, the    *)
(* market-closed shutdown, process death and the resume at boot.           *)
(*                                                                         *)
(* The code between two awaits is one step.  Orders are only counted: how  *)
(* one is submitted is OrderLedger's business.                             *)
(***************************************************************************)
EXTENDS Integers

CONSTANTS
    Starts,          \* one-shot calls of startAutoTrader
    Stops,           \* one-shot calls of stopAutoTrader
    Ticks,           \* ticks that may be under way at once, were there no mutex
    Timers,          \* interval handles
    None,            \* no entry in the timers map; no start call awaits a tick
    OrdersPerTick    \* orders one tick sends at most: the flatten or trailing-stop order of
                     \* each position, and the signal of each symbol

ASSUME LifecycleAssumption ==
    /\ None \notin Timers \union Starts
    /\ OrdersPerTick \in Nat

VARIABLES
    running,     \* AutoTraderState.running
    open,        \* the broker's clock says the market is open
    process,     \* the server process and how far its boot is
    live,        \* intervals that have not been cleared
    entry,       \* the handle in the timers map
    mutex,       \* tickRunning
    tick,        \* where each tick is, the orders it may still send, the start awaiting it
    start,       \* where each start call is
    stop,        \* where each stop call is
    overrun      \* history: orders sent since the row last said the trader is stopped

timerVars == <<live, entry>>
callVars  == <<start, stop>>
vars == <<running, open, process, timerVars, mutex, tick, callVars, overrun>>

IdleTick == [at |-> "idle", left |-> 0, by |-> None]

Init ==
    /\ running = FALSE
    /\ open = TRUE
    /\ process = "up"
    /\ live = {} /\ entry = None
    /\ mutex = FALSE
    /\ tick = [t \in Ticks |-> IdleTick]
    /\ start = [s \in Starts |-> "new"]
    /\ stop = [s \in Stops |-> "new"]
    /\ overrun = 0

Up == process # "down"

(***************************************************************************)
(* tick and tickInner                                                      *)
(***************************************************************************)

BeginTick(t, by) ==
    /\ tick[t] = IdleTick
    /\ tick' = [tick EXCEPT ![t] = [at |-> "loading", left |-> 0, by |-> by]]
    /\ mutex' = TRUE

\* The tick returns or throws; the finally block releases the mutex.  The start
\* call that awaits it goes on only when it returned.
FinishTick(t, returned) ==
    /\ tick' = [tick EXCEPT ![t] = IdleTick]
    /\ mutex' = FALSE
    /\ start' = IF tick[t].by = None THEN start
                ELSE [start EXCEPT ![tick[t].by] = IF returned THEN "arming" ELSE "done"]

\* Mutant: an interval enters a tick that is still running.
TickFiresReentrant(t) ==
    /\ live # {}
    /\ BeginTick(t, None)
    /\ UNCHANGED <<running, open, process, timerVars, callVars, overrun>>

\* An interval fires; while the mutex is held it has no effect.
TickFires(t) ==
    /\ live # {}
    /\ ~mutex
    /\ BeginTick(t, None)
    /\ UNCHANGED <<running, open, process, timerVars, callVars, overrun>>

\* loadState: a stopped trader does nothing.
LoadRow(t) ==
    /\ tick[t].at = "loading"
    /\ IF running
       THEN /\ tick' = [tick EXCEPT ![t].at = "checking"]
            /\ UNCHANGED <<mutex, start>>
       ELSE FinishTick(t, TRUE)
    /\ UNCHANGED <<running, open, process, timerVars, stop, overrun>>

\* No broker connection, no clock, no account, or a limit is exceeded.
KillReasonFound(t) ==
    /\ tick[t].at = "checking"
    /\ tick' = [tick EXCEPT ![t].at = "killing"]
    /\ UNCHANGED <<running, open, process, timerVars, mutex, callVars, overrun>>

\* clearInterval and delete of whatever handle the timers map holds.
ClearEntry == live' = live \ {entry} /\ entry' = None

MarketClosed(t) ==
    /\ tick[t].at = "checking"
    /\ ~open
    /\ ClearEntry
    /\ FinishTick(t, TRUE)
    /\ UNCHANGED <<running, open, process, stop, overrun>>

\* Every check passed on an open market.
BeginTrading(t) ==
    /\ tick[t].at = "checking"
    /\ open
    /\ tick' = [tick EXCEPT ![t].at = "trading", ![t].left = OrdersPerTick]
    /\ UNCHANGED <<running, open, process, timerVars, mutex, callVars, overrun>>

\* Mutant: the loop over the symbols does not end.
SendOrderAgain(t) ==
    /\ tick[t].at = "trading"
    /\ tick' = [tick EXCEPT ![t].left = @ - 1]
    /\ overrun' = IF running THEN overrun ELSE overrun + 1
    /\ UNCHANGED <<running, open, process, timerVars, mutex, callVars>>

\* An order for one symbol (a signal, a trailing stop or an end-of-day flatten).
SendOrder(t) ==
    /\ tick[t].at = "trading"
    /\ tick[t].left > 0
    /\ tick' = [tick EXCEPT ![t].left = @ - 1]
    /\ overrun' = IF running THEN overrun ELSE overrun + 1
    /\ UNCHANGED <<running, open, process, timerVars, mutex, callVars>>

\* The remaining symbols give no order.
EndTick(t) ==
    /\ tick[t].at = "trading"
    /\ FinishTick(t, TRUE)
    /\ UNCHANGED <<running, open, process, timerVars, stop, overrun>>

\* fireKillSwitch: the row first ...
KillWritesRow(t) ==
    /\ tick[t].at = "killing"
    /\ running' = FALSE
    /\ tick' = [tick EXCEPT ![t].at = "killed"]
    /\ UNCHANGED <<open, process, timerVars, mutex, callVars, overrun>>

\* ... and then, after the await, the interval.
KillClearsTimer(t) ==
    /\ tick[t].at = "killed"
    /\ ClearEntry
    /\ FinishTick(t, TRUE)
    /\ UNCHANGED <<running, open, process, stop, overrun>>

\* Mutant: no finally block.
TickThrowsHoldingMutex(t) ==
    /\ tick[t].at \in {"loading", "checking", "killing"}
    /\ tick' = [tick EXCEPT ![t] = IdleTick]
    /\ start' = IF tick[t].by = None THEN start ELSE [start EXCEPT ![tick[t].by] = "done"]
    /\ UNCHANGED <<running, open, process, timerVars, mutex, stop, overrun>>

\* The database fails under the tick.
TickThrows(t) ==
    /\ tick[t].at \in {"loading", "checking", "killing"}
    /\ FinishTick(t, FALSE)
    /\ UNCHANGED <<running, open, process, timerVars, stop, overrun>>

(***************************************************************************)
(* startAutoTrader                                                         *)
(***************************************************************************)

\* A call without a broker connection, or for an unknown strategy, is refused
\* before it changes anything.
StartLoads(s) ==
    /\ Up /\ start[s] = "new"
    /\ start' = [start EXCEPT ![s] = "loaded"]
    /\ UNCHANGED <<running, open, process, timerVars, mutex, tick, stop, overrun>>

StartWritesRow(s) ==
    /\ start[s] = "loaded"
    /\ start' = [start EXCEPT ![s] = "written"]
    /\ running' = TRUE
    /\ overrun' = 0
    /\ UNCHANGED <<open, process, timerVars, mutex, tick, stop>>

\* The interval in the map is cleared, its entry stays, and the call awaits a
\* tick of its own; tick() returns at once when the mutex is held.
StartTicks(s) ==
    /\ start[s] = "written"
    /\ live' = live \ {entry}
    /\ IF mutex
       THEN /\ start' = [start EXCEPT ![s] = "arming"]
            /\ UNCHANGED <<tick, mutex>>
       ELSE /\ start' = [start EXCEPT ![s] = "ticking"]
            /\ \E t \in Ticks : BeginTick(t, s)
    /\ UNCHANGED <<running, open, process, entry, stop, overrun>>

\* setInterval, and the entry of the timers map.
NewTimer(intervals) ==
    \E h \in Timers \ (live \union {entry}) :
        /\ h = CHOOSE g \in Timers \ (live \union {entry}) : TRUE
        /\ live' = intervals \union {h}
        /\ entry' = h

StartArms(s) ==
    /\ start[s] = "arming"
    /\ start' = [start EXCEPT ![s] = "done"]
    /\ NewTimer(live)
    /\ UNCHANGED <<running, open, process, mutex, tick, stop, overrun>>

(***************************************************************************)
(* stopAutoTrader                                                          *)
(***************************************************************************)

StopClearsTimer(s) ==
    /\ Up /\ stop[s] = "new"
    /\ stop' = [stop EXCEPT ![s] = "cleared"]
    /\ ClearEntry
    /\ UNCHANGED <<running, open, process, mutex, tick, start, overrun>>

\* loadState; an update that changes nothing in the copy writes nothing.
StopLoads(s) ==
    /\ stop[s] = "cleared"
    /\ stop' = [stop EXCEPT ![s] = IF running THEN "loaded" ELSE "done"]
    /\ UNCHANGED <<running, open, process, timerVars, mutex, tick, start, overrun>>

StopWritesRow(s) ==
    /\ stop[s] = "loaded"
    /\ stop' = [stop EXCEPT ![s] = "done"]
    /\ running' = FALSE
    /\ UNCHANGED <<open, process, timerVars, mutex, tick, start, overrun>>

(***************************************************************************)
(* The process                                                             *)
(***************************************************************************)

\* SIGTERM: stopAllAutoTraders; what is under way goes on until the exit.
Shutdown ==
    /\ process = "up"
    /\ process' = "stopping"
    /\ ClearEntry
    /\ UNCHANGED <<running, open, mutex, tick, callVars, overrun>>

\* The process exits or dies: memory is lost, the row stays.
Crash ==
    /\ Up
    /\ process' = "down"
    /\ live' = {} /\ entry' = None
    /\ mutex' = FALSE
    /\ tick' = [t \in Ticks |-> IdleTick]
    /\ start' = [s \in Starts |-> IF start[s] = "new" THEN "new" ELSE "done"]
    /\ stop' = [s \in Stops |-> IF stop[s] = "new" THEN "new" ELSE "done"]
    /\ UNCHANGED <<running, open, overrun>>

\* The server listens before it resumes the traders.
Boot ==
    /\ process = "down"
    /\ process' = "listening"
    /\ UNCHANGED <<running, open, timerVars, mutex, tick, callVars, overrun>>

\* Mutant: only traders whose market is open are resumed.
FindRunningWhenOpen ==
    /\ process = "listening"
    /\ process' = IF running /\ open THEN "resuming" ELSE "up"
    /\ UNCHANGED <<running, open, timerVars, mutex, tick, callVars, overrun>>

\* resumeAutoTraderIfRunning reads the rows that say running ...
FindRunning ==
    /\ process = "listening"
    /\ process' = IF running THEN "resuming" ELSE "up"
    /\ UNCHANGED <<running, open, timerVars, mutex, tick, callVars, overrun>>

\* ... and starts a tick, which it does not await, and an interval for each.
Resume ==
    /\ process = "resuming"
    /\ process' = "up"
    /\ NewTimer(live \ {entry})
    /\ IF mutex THEN UNCHANGED <<tick, mutex>> ELSE \E t \in Ticks : BeginTick(t, None)
    /\ UNCHANGED <<running, open, callVars, overrun>>

\* The market closes or opens.
MarketTurns ==
    /\ open' = ~open
    /\ UNCHANGED <<running, process, timerVars, mutex, tick, callVars, overrun>>

-----------------------------------------------------------------------------
TickGoesOn(t) ==
    \/ LoadRow(t) \/ KillReasonFound(t) \/ MarketClosed(t) \/ BeginTrading(t)
    \/ SendOrder(t) \/ EndTick(t) \/ KillWritesRow(t) \/ KillClearsTimer(t) \/ TickThrows(t)

Start(s) == StartLoads(s) \/ StartWritesRow(s) \/ StartTicks(s) \/ StartArms(s)

Stop(s) == StopClearsTimer(s) \/ StopLoads(s) \/ StopWritesRow(s)

Next ==
    \/ \E t \in Ticks : TickFires(t) \/ TickGoesOn(t)
    \/ \E s \in Starts : Start(s)
    \/ \E s \in Stops : Stop(s)
    \/ Shutdown \/ Crash \/ Boot \/ FindRunning \/ Resume
    \/ MarketTurns

Spec == Init /\ [][Next]_vars

\* Intervals fire, broker and database calls return or fail (each has a timeout),
\* and a process that died is started again and runs its boot.
Fairness ==
    /\ WF_vars(\E t \in Ticks : TickFires(t))
    /\ \A t \in Ticks : WF_vars(TickGoesOn(t))
    /\ \A s \in Starts : WF_vars(StartWritesRow(s) \/ StartTicks(s) \/ StartArms(s))
    /\ \A s \in Stops : WF_vars(StopLoads(s) \/ StopWritesRow(s))
    /\ WF_vars(Boot) /\ WF_vars(FindRunning) /\ WF_vars(Resume)

FairSpec == Spec /\ Fairness

-----------------------------------------------------------------------------
(***************************************************************************)
(* Properties                                                              *)
(***************************************************************************)

\* Every variable has its type.
TypeOK ==
    /\ running \in BOOLEAN /\ open \in BOOLEAN /\ mutex \in BOOLEAN
    /\ process \in {"down", "listening", "resuming", "up", "stopping"}
    /\ live \subseteq Timers
    /\ entry \in Timers \union {None}
    /\ tick \in [Ticks -> [at: {"idle", "loading", "checking", "trading", "killing", "killed"},
                           left: 0..OrdersPerTick, by: Starts \union {None}]]
    /\ start \in [Starts -> {"new", "loaded", "written", "ticking", "arming", "done"}]
    /\ stop \in [Stops -> {"new", "cleared", "loaded", "done"}]
    /\ overrun \in Nat

\* However starts, stops, kills, leaked intervals and restarts interleave, once
\* the row says stopped at most one tick's worth of orders still goes out: the
\* rest of the tick that had read the row before.
StopOverrun == ~running => overrun <= OrdersPerTick

\* A tick always releases the mutex, or the trader would never poll again.
TickReleases == mutex ~> ~mutex

\* A trader whose row says running at boot is ticked again, or is stopped, or the
\* process dies again.
RestartResumes == process = "listening" /\ running ~> mutex \/ ~running \/ ~Up

-----------------------------------------------------------------------------
(***************************************************************************)
(* Claims of the comments and the log                                      *)
(***************************************************************************)

\* "Market closed - auto-trader idle until next session": when the market opens
\* again, a trader that was polling when it closed ticks, unless it was stopped or
\* the process went away.
ResumesNextSession ==
    []<>open =>
        ( running /\ live # {} /\ ~open /\ process = "up"
              ~> (mutex /\ open) \/ ~running \/ process # "up" )

=============================================================================
