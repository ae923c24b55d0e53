------------------------------ MODULE RiskGate ------------------------------
(***************************************************************************)
(* The risk limits of an order (evaluateOrderRisk in brokerGovernance.js)   *)
(* and the way executeGovernedOrder reads what they are compared with: the *)
(* row is written first, then account, positions, quote and the count of    *)
(* the last minute's rows are read, each by a call of its own, then the     *)
(* order is sent, and the broker fills it later.  Requests overlap.  What   *)
(* happens to the row afterwards is OrderLedger's.                          *)
(***************************************************************************)
EXTENDS Integers, FiniteSets, FiniteSetsExt, Functions

CONSTANTS
    Orders,          \* the requests
    Wanted,          \* Wanted[o]: symbol, side and notional of o
    Accounts,        \* what the account call may answer
    Quotes,          \* what the quote call may answer: age and whether valid
    Policy,          \* the connection's risk policy
    Minute,          \* ticks of the rate window
    Delay,           \* ticks a request takes at most, the client's timeout
    LastTick         \* bound: the clock

ASSUME RiskAssumption ==
    /\ IsFiniteSet(Orders)
    /\ Policy \in [maxGrossExposure : Nat \ {0}, maxDailyLoss : Nat \ {0}, maxLeverage : 1 .. 4,
                   maxConcentrationPct : 1 .. 100, maxOrderNotional : Nat \ {0},
                   maxOrdersPerMinute : Nat \ {0}, maxQuoteAge : Nat \ {0}]
    /\ Wanted \in [Orders -> [symbol : STRING, side : {-1, 1}, notional : Nat \ {0}]]
    /\ Minute \in Nat \ {0} /\ Delay \in 0 .. Minute - 1 /\ LastTick \in Nat

VARIABLES
    second,          \* the clock
    phase,           \* phase[o]: "idle", "reading", "sent", "filled" or "refused"
    created,         \* created[o]: when its row was written
    counted,         \* counted[o]: the count it read, -1 before
    seen,            \* seen[o]: the positions it read, <<>> before
    position,        \* the broker's position in each symbol, signed
    crowd            \* history: most orders ever between reading positions and their fill

riskVars == <<second, phase, created, counted, seen, position, crowd>>

Traded == {Wanted[o].symbol : o \in Orders}
Abs(x) == IF x < 0 THEN -x ELSE x
Gross(p) == SumFunction([s \in Traded |-> Abs(p[s])])

\* The row is written before its own count, so it is among what it counts.
Placed == {o \in Orders : phase[o] # "idle"}
RecentOrderCount == Cardinality({o \in Placed : created[o] >= second - Minute})

\* What is read as the count of the last minute.
CountRead == RecentOrderCount

(***************************************************************************)
(* evaluateOrderRisk: side does not matter, a sale adds its notional too.   *)
(***************************************************************************)

Tradable(account, quote) ==
    /\ account.equity > 0 /\ quote.valid
    /\ quote.age <= Policy.maxQuoteAge
    /\ ~account.blocked
    /\ account.equity - account.lastEquity > -Policy.maxDailyLoss

\* Mutant: the order's own notional is left out of the projected exposure.
WithinExposureOfOthers(order, p) == Gross(p) <= Policy.maxGrossExposure

WithinExposure(order, p) == Gross(p) + order.notional <= Policy.maxGrossExposure

Admitted(order, account, p, quote, recent) ==
    /\ Tradable(account, quote)
    /\ recent < Policy.maxOrdersPerMinute
    /\ order.notional <= Policy.maxOrderNotional
    /\ order.notional <= account.buyingPower
    /\ WithinExposure(order, p)
    /\ Gross(p) + order.notional <= Policy.maxLeverage * account.equity
    /\ 100 * (Abs(p[order.symbol]) + order.notional) <= Policy.maxConcentrationPct * account.equity

(***************************************************************************)
(* A request                                                               *)
(***************************************************************************)

RiskInit ==
    /\ second = 0
    /\ phase = [o \in Orders |-> "idle"]
    /\ created = [o \in Orders |-> 0]
    /\ counted = [o \in Orders |-> -1]
    /\ seen = [o \in Orders |-> <<>>]
    /\ position = [s \in Traded |-> 0]
    /\ crowd = 0

WriteRow(o) ==
    /\ phase[o] = "idle"
    /\ phase' = [phase EXCEPT ![o] = "reading"]
    /\ created' = [created EXCEPT ![o] = second]
    /\ UNCHANGED <<second, counted, seen, position, crowd>>

ReadCount(o) ==
    /\ phase[o] = "reading" /\ counted[o] = -1
    /\ counted' = [counted EXCEPT ![o] = CountRead - 1]
    /\ UNCHANGED <<second, phase, created, seen, position, crowd>>

\* Orders whose effect a snapshot taken now may miss.
Crowd(s, ph) == Cardinality({o \in Orders : s[o] # <<>> /\ ph[o] \in {"reading", "sent"}})

ReadPositions(o) ==
    /\ phase[o] = "reading" /\ seen[o] = <<>>
    /\ seen' = [seen EXCEPT ![o] = position]
    /\ crowd' = Max({crowd, Crowd(seen', phase)})
    /\ UNCHANGED <<second, phase, created, counted, position>>

\* All four calls have answered.
Decide(o, account, quote) ==
    /\ phase[o] = "reading" /\ counted[o] # -1 /\ seen[o] # <<>>
    /\ phase' = [phase EXCEPT ![o] =
            IF Admitted(Wanted[o], account, seen[o], quote, counted[o]) THEN "sent" ELSE "refused"]
    /\ UNCHANGED <<second, created, counted, seen, position, crowd>>

\* A call failed, and nothing is sent.
GiveUp(o) ==
    /\ phase[o] = "reading"
    /\ phase' = [phase EXCEPT ![o] = "refused"]
    /\ UNCHANGED <<second, created, counted, seen, position, crowd>>

Fill(o) ==
    /\ phase[o] = "sent"
    /\ phase' = [phase EXCEPT ![o] = "filled"]
    /\ position' = [position EXCEPT ![Wanted[o].symbol] = @ + Wanted[o].side * Wanted[o].notional]
    /\ UNCHANGED <<second, created, counted, seen, crowd>>

\* No request is being checked for longer than the client's timeouts allow.
Second ==
    /\ second < LastTick
    /\ \A o \in Orders : phase[o] = "reading" => second - created[o] < Delay
    /\ second' = second + 1
    /\ UNCHANGED <<phase, created, counted, seen, position, crowd>>

RiskNext ==
    \/ \E o \in Orders :
        \/ WriteRow(o) \/ ReadCount(o) \/ ReadPositions(o) \/ GiveUp(o) \/ Fill(o)
        \/ \E account \in Accounts, quote \in Quotes : Decide(o, account, quote)
    \/ Second

RiskSpec == RiskInit /\ [][RiskNext]_riskVars

(***************************************************************************)
(* Properties                                                              *)
(***************************************************************************)

RiskTypeOK ==
    /\ second \in 0 .. LastTick
    /\ phase \in [Orders -> {"idle", "reading", "sent", "filled", "refused"}]
    /\ created \in [Orders -> 0 .. LastTick]
    /\ counted \in [Orders -> -1 .. Cardinality(Orders)]
    /\ seen \in [Orders -> {<<>>} \union [Traded -> Int]]
    /\ position \in [Traded -> Int]

\* The exposure at the broker exceeds the limit by no more than the largest order for each
\* further order that was under way at once: every order is checked with the fills of those
\* before it, except the ones still under way.  (The code takes no lock between snapshot and
\* fill, so the limit itself does not hold.)
ExposureBounded ==
    Gross(position) <= Policy.maxGrossExposure
                        + (IF crowd = 0 THEN 0 ELSE crowd - 1) * Policy.maxOrderNotional

\* Of the orders whose rows were written within a minute less the time a check may take, no
\* more than the limit are sent, however many overlap.
RateHeld ==
    \A from \in 0 .. second :
        Cardinality({o \in Orders : /\ phase[o] \in {"sent", "filled"}
                                    /\ created[o] \in from .. from + Minute - Delay})
            <= Policy.maxOrdersPerMinute

\* Overlapping requests exceed the exposure limit by no more than the orders under way, and
\* the rate limit not at all (evaluateOrderRisk).
RiskHeld == ExposureBounded /\ RateHeld
=============================================================================
