----------------------- MODULE TraderLifecycleProofs -----------------------
(***************************************************************************)
(* Proofs about TraderLifecycle, for any number of starts, stops, ticks    *)
(* and interval handles, and any number of orders a tick may send.         *)
(***************************************************************************)
EXTENDS TraderLifecycle, TLAPS

\* At most one tick is under way, and only while the mutex is held.
MutexInv ==
    \A t \in Ticks : tick[t].at # "idle" =>
        mutex /\ \A u \in Ticks : tick[u].at # "idle" => u = t

\* What a tick may still send fits in what the stop leaves it: a tick that has
\* read the row and not begun to trade still has all of it.
BudgetInv ==
    /\ running => overrun = 0
    /\ overrun <= OrdersPerTick
    /\ \A t \in Ticks : tick[t].at = "checking" => overrun = 0
    /\ \A t \in Ticks : tick[t].at = "trading" => overrun + tick[t].left <= OrdersPerTick

IInv == TypeOK /\ MutexInv /\ BudgetInv

-----------------------------------------------------------------------------
TickState == [at: {"idle", "loading", "checking", "trading", "killing", "killed"},
              left: 0..OrdersPerTick, by: Starts \union {None}]

StartState == {"new", "loaded", "written", "ticking", "arming", "done"}

\* The variables a tick leaves behind have their types.
LEMMA FinishTypes ==
    ASSUME TypeOK, NEW t \in Ticks, NEW returned \in BOOLEAN, FinishTick(t, returned)
    PROVE  /\ tick' \in [Ticks -> TickState]
           /\ start' \in [Starts -> StartState]
           /\ mutex' \in BOOLEAN
<1>1. tick \in [Ticks -> TickState] /\ start \in [Starts -> StartState]
    BY DEF TypeOK, TickState, StartState
<1>2. IdleTick \in TickState
    BY LifecycleAssumption DEF IdleTick, TickState
<1>3. tick' \in [Ticks -> TickState] /\ mutex' = FALSE
    BY <1>1, <1>2 DEF FinishTick
<1>4. CASE tick[t].by = None
    BY <1>1, <1>3, <1>4 DEF FinishTick
<1>5. CASE tick[t].by # None
    <2>1. tick[t].by \in Starts
        BY <1>1, <1>5 DEF TickState
    <2>2. CASE returned
        BY <1>1, <1>3, <1>5, <2>1, <2>2 DEF FinishTick, StartState
    <2>3. CASE ~returned
        BY <1>1, <1>3, <1>5, <2>1, <2>3 DEF FinishTick, StartState
    <2> QED BY <2>2, <2>3
<1> QED BY <1>4, <1>5

LEMMA BeginTypes ==
    ASSUME TypeOK, NEW t \in Ticks, NEW by \in Starts \union {None}, BeginTick(t, by)
    PROVE  tick' \in [Ticks -> TickState] /\ mutex' \in BOOLEAN
<1>1. tick \in [Ticks -> TickState]
    BY DEF TypeOK, TickState
<1>2. [at |-> "loading", left |-> 0, by |-> by] \in TickState
    BY LifecycleAssumption DEF TickState
<1> QED BY <1>1, <1>2 DEF BeginTick

LEMMA InitIInv == Init => IInv
<1> SUFFICES ASSUME Init PROVE IInv
    OBVIOUS
<1>1. tick = [t \in Ticks |-> IdleTick] /\ IdleTick \in TickState /\ overrun = 0
    BY LifecycleAssumption DEF Init, IdleTick, TickState
<1>2. tick \in [Ticks -> TickState]
    BY <1>1
<1>3. TypeOK
    BY <1>2 DEF Init, TypeOK, TickState
<1>4. \A t \in Ticks : tick[t].at = "idle"
    BY <1>1 DEF IdleTick
<1> QED BY <1>1, <1>3, <1>4, LifecycleAssumption DEF Init, IInv, MutexInv, BudgetInv

LEMMA TypeStep == IInv /\ [Next]_vars => TypeOK'
<1> SUFFICES ASSUME TypeOK, [Next]_vars PROVE TypeOK'
    BY DEF IInv
<1> USE LifecycleAssumption
<1>1. ASSUME NEW t \in Ticks, TickFires(t) PROVE TypeOK'
    BY <1>1 DEF TypeOK, IdleTick, TickFires, BeginTick, timerVars, callVars
<1>2. ASSUME NEW t \in Ticks, LoadRow(t) PROVE TypeOK'
    <2>1. CASE running
        BY <1>2, <2>1 DEF TypeOK, LoadRow, timerVars
    <2>2. CASE ~running
        BY <1>2, <2>2, FinishTypes DEF TypeOK, TickState, StartState, LoadRow, timerVars
    <2> QED BY <2>1, <2>2
<1>3. ASSUME NEW t \in Ticks, KillReasonFound(t) PROVE TypeOK'
    BY <1>3 DEF TypeOK, IdleTick, KillReasonFound, timerVars, callVars
<1>4. ASSUME NEW t \in Ticks, MarketClosed(t) PROVE TypeOK'
    BY <1>4, FinishTypes DEF TypeOK, TickState, StartState, MarketClosed, ClearEntry
<1>5. ASSUME NEW t \in Ticks, BeginTrading(t) PROVE TypeOK'
    <2>1. OrdersPerTick \in 0..OrdersPerTick
        OBVIOUS
    <2> QED BY <1>5, <2>1 DEF TypeOK, BeginTrading, timerVars, callVars
<1>6. ASSUME NEW t \in Ticks, SendOrder(t) PROVE TypeOK'
    BY <1>6 DEF TypeOK, IdleTick, SendOrder, timerVars, callVars
<1>7. ASSUME NEW t \in Ticks, EndTick(t) PROVE TypeOK'
    BY <1>7, FinishTypes DEF TypeOK, TickState, StartState, EndTick, timerVars
<1>8. ASSUME NEW t \in Ticks, KillWritesRow(t) PROVE TypeOK'
    BY <1>8 DEF TypeOK, IdleTick, KillWritesRow, timerVars, callVars
<1>9. ASSUME NEW t \in Ticks, KillClearsTimer(t) PROVE TypeOK'
    BY <1>9, FinishTypes DEF TypeOK, TickState, StartState, KillClearsTimer, ClearEntry
<1>10. ASSUME NEW t \in Ticks, TickThrows(t) PROVE TypeOK'
    BY <1>10, FinishTypes DEF TypeOK, TickState, StartState, TickThrows, timerVars
<1>11. ASSUME NEW s \in Starts, StartLoads(s) PROVE TypeOK'
    BY <1>11 DEF TypeOK, IdleTick, StartLoads, timerVars, callVars
<1>12. ASSUME NEW s \in Starts, StartWritesRow(s) PROVE TypeOK'
    BY <1>12 DEF TypeOK, IdleTick, StartWritesRow, timerVars, callVars
<1>13. ASSUME NEW s \in Starts, StartTicks(s) PROVE TypeOK'
    <2>1. start' \in [Starts -> StartState]
        BY <1>13 DEF TypeOK, StartTicks, StartState
    <2>2. tick' \in [Ticks -> TickState] /\ mutex' \in BOOLEAN
        BY <1>13, BeginTypes DEF TypeOK, StartTicks, TickState
    <2> QED BY <1>13, <2>1, <2>2 DEF TypeOK, StartTicks, TickState, StartState
<1>14. ASSUME NEW s \in Starts, StartArms(s) PROVE TypeOK'
    BY <1>14 DEF TypeOK, IdleTick, StartArms, NewTimer, timerVars, callVars
<1>15. ASSUME NEW p \in Stops, StopClearsTimer(p) PROVE TypeOK'
    BY <1>15 DEF TypeOK, IdleTick, StopClearsTimer, ClearEntry, timerVars, callVars
<1>16. ASSUME NEW p \in Stops, StopLoads(p) PROVE TypeOK'
    BY <1>16 DEF TypeOK, IdleTick, StopLoads, timerVars, callVars
<1>17. ASSUME NEW p \in Stops, StopWritesRow(p) PROVE TypeOK'
    BY <1>17 DEF TypeOK, IdleTick, StopWritesRow, timerVars, callVars
<1>18. ASSUME Shutdown PROVE TypeOK'
    BY <1>18 DEF TypeOK, IdleTick, Shutdown, ClearEntry, timerVars, callVars
<1>19. ASSUME Crash PROVE TypeOK'
    <2>1. IdleTick \in TickState
        BY DEF IdleTick, TickState
    <2>2. tick' \in [Ticks -> TickState]
        BY <1>19, <2>1 DEF Crash
    <2>3. start' \in [Starts -> StartState] /\ stop' \in [Stops -> {"new", "cleared", "loaded", "done"}]
        BY <1>19 DEF TypeOK, Crash, StartState
    <2> QED BY <1>19, <2>2, <2>3 DEF TypeOK, Crash, TickState, StartState
<1>20. ASSUME Boot PROVE TypeOK'
    BY <1>20 DEF TypeOK, IdleTick, Boot, timerVars, callVars
<1>21. ASSUME FindRunning PROVE TypeOK'
    BY <1>21 DEF TypeOK, IdleTick, FindRunning, timerVars, callVars
<1>22. ASSUME Resume PROVE TypeOK'
    <2>1. tick' \in [Ticks -> TickState] /\ mutex' \in BOOLEAN
        BY <1>22, BeginTypes DEF TypeOK, Resume, TickState
    <2> QED BY <1>22, <2>1 DEF TypeOK, Resume, NewTimer, TickState, callVars
<1>23. ASSUME MarketTurns PROVE TypeOK'
    BY <1>23 DEF TypeOK, IdleTick, MarketTurns, timerVars, callVars
<1>24. CASE UNCHANGED vars
    BY <1>24 DEF TypeOK, IdleTick, vars, timerVars, callVars
<1> QED
    BY <1>1, <1>2, <1>3, <1>4, <1>5, <1>6, <1>7, <1>8, <1>9, <1>10, <1>11,
       <1>12, <1>13, <1>14, <1>15, <1>16, <1>17, <1>18, <1>19, <1>20, <1>21,
       <1>22, <1>23, <1>24
    DEF Next, TickGoesOn, Start, Stop

LEMMA MutexStep == IInv /\ [Next]_vars => MutexInv'
<1> SUFFICES ASSUME IInv, [Next]_vars PROVE MutexInv'
    OBVIOUS
<1> USE LifecycleAssumption
<1>1. ASSUME NEW t \in Ticks, TickFires(t) PROVE MutexInv'
    BY <1>1 DEF IInv, TypeOK, MutexInv, IdleTick, TickFires, BeginTick
<1>2. ASSUME NEW t \in Ticks, LoadRow(t) PROVE MutexInv'
    BY <1>2 DEF IInv, TypeOK, MutexInv, IdleTick, LoadRow, FinishTick
<1>3. ASSUME NEW t \in Ticks, KillReasonFound(t) PROVE MutexInv'
    BY <1>3 DEF IInv, TypeOK, MutexInv, IdleTick, KillReasonFound
<1>4. ASSUME NEW t \in Ticks, MarketClosed(t) PROVE MutexInv'
    BY <1>4 DEF IInv, TypeOK, MutexInv, IdleTick, MarketClosed, FinishTick, ClearEntry
<1>5. ASSUME NEW t \in Ticks, BeginTrading(t) PROVE MutexInv'
    BY <1>5 DEF IInv, TypeOK, MutexInv, IdleTick, BeginTrading
<1>6. ASSUME NEW t \in Ticks, SendOrder(t) PROVE MutexInv'
    BY <1>6 DEF IInv, TypeOK, MutexInv, IdleTick, SendOrder
<1>7. ASSUME NEW t \in Ticks, EndTick(t) PROVE MutexInv'
    BY <1>7 DEF IInv, TypeOK, MutexInv, IdleTick, EndTick, FinishTick
<1>8. ASSUME NEW t \in Ticks, KillWritesRow(t) PROVE MutexInv'
    BY <1>8 DEF IInv, TypeOK, MutexInv, IdleTick, KillWritesRow
<1>9. ASSUME NEW t \in Ticks, KillClearsTimer(t) PROVE MutexInv'
    BY <1>9 DEF IInv, TypeOK, MutexInv, IdleTick, KillClearsTimer, FinishTick, ClearEntry
<1>10. ASSUME NEW t \in Ticks, TickThrows(t) PROVE MutexInv'
    BY <1>10 DEF IInv, TypeOK, MutexInv, IdleTick, TickThrows, FinishTick
<1>11. ASSUME NEW s \in Starts, StartLoads(s) PROVE MutexInv'
    BY <1>11 DEF IInv, TypeOK, MutexInv, IdleTick, StartLoads
<1>12. ASSUME NEW s \in Starts, StartWritesRow(s) PROVE MutexInv'
    BY <1>12 DEF IInv, TypeOK, MutexInv, IdleTick, StartWritesRow
<1>13. ASSUME NEW s \in Starts, StartTicks(s) PROVE MutexInv'
    BY <1>13 DEF IInv, TypeOK, MutexInv, IdleTick, StartTicks, BeginTick
<1>14. ASSUME NEW s \in Starts, StartArms(s) PROVE MutexInv'
    BY <1>14 DEF IInv, TypeOK, MutexInv, IdleTick, StartArms, NewTimer
<1>15. ASSUME NEW p \in Stops, StopClearsTimer(p) PROVE MutexInv'
    BY <1>15 DEF IInv, TypeOK, MutexInv, IdleTick, StopClearsTimer, ClearEntry
<1>16. ASSUME NEW p \in Stops, StopLoads(p) PROVE MutexInv'
    BY <1>16 DEF IInv, TypeOK, MutexInv, IdleTick, StopLoads
<1>17. ASSUME NEW p \in Stops, StopWritesRow(p) PROVE MutexInv'
    BY <1>17 DEF IInv, TypeOK, MutexInv, IdleTick, StopWritesRow
<1>18. ASSUME Shutdown PROVE MutexInv'
    BY <1>18 DEF IInv, TypeOK, MutexInv, IdleTick, Shutdown, ClearEntry
<1>19. ASSUME Crash PROVE MutexInv'
    BY <1>19 DEF IInv, TypeOK, MutexInv, IdleTick, Crash
<1>20. ASSUME Boot PROVE MutexInv'
    BY <1>20 DEF IInv, TypeOK, MutexInv, IdleTick, Boot
<1>21. ASSUME FindRunning PROVE MutexInv'
    BY <1>21 DEF IInv, TypeOK, MutexInv, IdleTick, FindRunning
<1>22. ASSUME Resume PROVE MutexInv'
    BY <1>22 DEF IInv, TypeOK, MutexInv, IdleTick, Resume, NewTimer, BeginTick
<1>23. ASSUME MarketTurns PROVE MutexInv'
    BY <1>23 DEF IInv, TypeOK, MutexInv, IdleTick, MarketTurns
<1>24. CASE UNCHANGED vars
    BY <1>24 DEF IInv, TypeOK, MutexInv, IdleTick, vars, timerVars, callVars
<1> QED
    BY <1>1, <1>2, <1>3, <1>4, <1>5, <1>6, <1>7, <1>8, <1>9, <1>10, <1>11,
       <1>12, <1>13, <1>14, <1>15, <1>16, <1>17, <1>18, <1>19, <1>20, <1>21,
       <1>22, <1>23, <1>24
    DEF Next, TickGoesOn, Start, Stop

LEMMA BudgetStep == IInv /\ [Next]_vars => BudgetInv'
<1> SUFFICES ASSUME IInv, [Next]_vars PROVE BudgetInv'
    OBVIOUS
<1> USE LifecycleAssumption
<1>1. ASSUME NEW t \in Ticks, TickFires(t) PROVE BudgetInv'
    BY <1>1 DEF IInv, TypeOK, MutexInv, BudgetInv, IdleTick, TickFires, BeginTick
<1>2. ASSUME NEW t \in Ticks, LoadRow(t) PROVE BudgetInv'
    BY <1>2 DEF IInv, TypeOK, MutexInv, BudgetInv, IdleTick, LoadRow, FinishTick
<1>3. ASSUME NEW t \in Ticks, KillReasonFound(t) PROVE BudgetInv'
    BY <1>3 DEF IInv, TypeOK, MutexInv, BudgetInv, IdleTick, KillReasonFound
<1>4. ASSUME NEW t \in Ticks, MarketClosed(t) PROVE BudgetInv'
    BY <1>4 DEF IInv, TypeOK, MutexInv, BudgetInv, IdleTick, MarketClosed, FinishTick, ClearEntry
<1>5. ASSUME NEW t \in Ticks, BeginTrading(t) PROVE BudgetInv'
    BY <1>5 DEF IInv, TypeOK, MutexInv, BudgetInv, IdleTick, BeginTrading
<1>6. ASSUME NEW t \in Ticks, SendOrder(t) PROVE BudgetInv'
    BY <1>6 DEF IInv, TypeOK, MutexInv, BudgetInv, IdleTick, SendOrder
<1>7. ASSUME NEW t \in Ticks, EndTick(t) PROVE BudgetInv'
    BY <1>7 DEF IInv, TypeOK, MutexInv, BudgetInv, IdleTick, EndTick, FinishTick
<1>8. ASSUME NEW t \in Ticks, KillWritesRow(t) PROVE BudgetInv'
    BY <1>8 DEF IInv, TypeOK, MutexInv, BudgetInv, IdleTick, KillWritesRow
<1>9. ASSUME NEW t \in Ticks, KillClearsTimer(t) PROVE BudgetInv'
    BY <1>9 DEF IInv, TypeOK, MutexInv, BudgetInv, IdleTick, KillClearsTimer, FinishTick, ClearEntry
<1>10. ASSUME NEW t \in Ticks, TickThrows(t) PROVE BudgetInv'
    BY <1>10 DEF IInv, TypeOK, MutexInv, BudgetInv, IdleTick, TickThrows, FinishTick
<1>11. ASSUME NEW s \in Starts, StartLoads(s) PROVE BudgetInv'
    BY <1>11 DEF IInv, TypeOK, MutexInv, BudgetInv, IdleTick, StartLoads
<1>12. ASSUME NEW s \in Starts, StartWritesRow(s) PROVE BudgetInv'
    BY <1>12 DEF IInv, TypeOK, MutexInv, BudgetInv, IdleTick, StartWritesRow
<1>13. ASSUME NEW s \in Starts, StartTicks(s) PROVE BudgetInv'
    BY <1>13 DEF IInv, TypeOK, MutexInv, BudgetInv, IdleTick, StartTicks, BeginTick
<1>14. ASSUME NEW s \in Starts, StartArms(s) PROVE BudgetInv'
    BY <1>14 DEF IInv, TypeOK, MutexInv, BudgetInv, IdleTick, StartArms, NewTimer
<1>15. ASSUME NEW p \in Stops, StopClearsTimer(p) PROVE BudgetInv'
    BY <1>15 DEF IInv, TypeOK, MutexInv, BudgetInv, IdleTick, StopClearsTimer, ClearEntry
<1>16. ASSUME NEW p \in Stops, StopLoads(p) PROVE BudgetInv'
    BY <1>16 DEF IInv, TypeOK, MutexInv, BudgetInv, IdleTick, StopLoads
<1>17. ASSUME NEW p \in Stops, StopWritesRow(p) PROVE BudgetInv'
    BY <1>17 DEF IInv, TypeOK, MutexInv, BudgetInv, IdleTick, StopWritesRow
<1>18. ASSUME Shutdown PROVE BudgetInv'
    BY <1>18 DEF IInv, TypeOK, MutexInv, BudgetInv, IdleTick, Shutdown, ClearEntry
<1>19. ASSUME Crash PROVE BudgetInv'
    BY <1>19 DEF IInv, TypeOK, MutexInv, BudgetInv, IdleTick, Crash
<1>20. ASSUME Boot PROVE BudgetInv'
    BY <1>20 DEF IInv, TypeOK, MutexInv, BudgetInv, IdleTick, Boot
<1>21. ASSUME FindRunning PROVE BudgetInv'
    BY <1>21 DEF IInv, TypeOK, MutexInv, BudgetInv, IdleTick, FindRunning
<1>22. ASSUME Resume PROVE BudgetInv'
    BY <1>22 DEF IInv, TypeOK, MutexInv, BudgetInv, IdleTick, Resume, NewTimer, BeginTick
<1>23. ASSUME MarketTurns PROVE BudgetInv'
    BY <1>23 DEF IInv, TypeOK, MutexInv, BudgetInv, IdleTick, MarketTurns
<1>24. CASE UNCHANGED vars
    BY <1>24 DEF IInv, TypeOK, MutexInv, BudgetInv, IdleTick, vars, timerVars, callVars
<1> QED
    BY <1>1, <1>2, <1>3, <1>4, <1>5, <1>6, <1>7, <1>8, <1>9, <1>10, <1>11,
       <1>12, <1>13, <1>14, <1>15, <1>16, <1>17, <1>18, <1>19, <1>20, <1>21,
       <1>22, <1>23, <1>24
    DEF Next, TickGoesOn, Start, Stop

-----------------------------------------------------------------------------
\* The strengthened invariant is inductive.
THEOREM Inductive == Spec => []IInv
<1>1. IInv /\ [Next]_vars => IInv'
    BY TypeStep, MutexStep, BudgetStep DEF IInv
<1> QED BY InitIInv, <1>1, PTL DEF Spec

\* Every variable keeps its type.
THEOREM TypeCorrect == Spec => []TypeOK
<1>1. IInv => TypeOK
    BY DEF IInv
<1> QED BY Inductive, <1>1, PTL

\* A stopped trader sends at most what is left of one tick, however starts, stops,
\* kill switches, leaked intervals and restarts interleave.
THEOREM StopIsBounded == Spec => []StopOverrun
<1>1. IInv => StopOverrun
    BY DEF IInv, BudgetInv, StopOverrun
<1> QED BY Inductive, <1>1, PTL
=============================================================================
