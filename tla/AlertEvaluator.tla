--------------------------- MODULE AlertEvaluator ---------------------------
(***************************************************************************)
(* The alert evaluator (server/services/alertEvaluator.js): a poll that    *)
(* evaluates price alerts and theme alerts side by side, while their       *)
(* owners edit, re-arm and delete them through the routes                  *)
(* (server/routes/crud.js, server/routes/themes.js).                       *)
(*                                                                         *)
(* A tick works on copies of the rows it loaded; each database write and   *)
(* each fetch is a step of its own.                                        *)
(***************************************************************************)
EXTENDS Integers, FiniteSets, Functions

CONSTANTS
    PriceAlerts,     \* rows of PriceAlert
    ThemeAlerts,     \* rows of ThemeAlert, one per theme
    Members,         \* the constituents of a theme
    Levels,          \* prices and thresholds
    FirstRows,       \* the rows the routes create, as functions of the alerts
    MovePct,         \* the threshold of a basket-change alert, in percent
    ArmingBound,     \* bound: how often one alert is armed
    LossBound,       \* bound: failed writes of one alert, and deaths of the process
    Missing          \* no quote; no baseline; no copy

Alerts == PriceAlerts \union ThemeAlerts

PriceKinds == {"above", "below"}
ThemeKinds == {"basket-change-pct", "any-member-above", "any-member-below"}
AlertRows == [status : {"active", "triggered"}, kind : PriceKinds \union ThemeKinds,
              target : Levels, baseline : {Missing} \union [sum : Nat, of : Nat]]

ASSUME AlertAssumption ==
    /\ PriceAlerts \intersect ThemeAlerts = {} /\ IsFiniteSet(Alerts) /\ IsFiniteSet(Members)
    /\ Levels \subseteq Nat \ {0} /\ Missing \notin Levels /\ Missing \notin AlertRows
    /\ MovePct \in Nat /\ ArmingBound \in Nat /\ LossBound \in Nat
    /\ FirstRows \subseteq [Alerts -> AlertRows \union {Missing}]
    /\ \A f \in FirstRows : \A a \in {x \in Alerts : f[x] # Missing} :
         /\ f[a].status = "active"
         /\ f[a].kind \in IF a \in PriceAlerts THEN PriceKinds ELSE ThemeKinds

VARIABLES
    alertRow,    \* the row of each alert, or Missing once it is deleted
    polling,     \* running: the mutex of the tick
    phase,       \* where each of the two evaluators of the tick is
    copy,        \* the rows an evaluator still has to go through
    quote,       \* the prices it works with: one per price alert, one per member
    armed,       \* history: times an alert became active
    fired,       \* history: notifications of an alert
    lostWrite,   \* history: writes of "triggered" that failed
    died         \* history: deaths of the process

tickVars  == <<polling, phase, copy, quote>>
historyVars == <<armed, fired, lostWrite, died>>
alertVars == <<alertRow, tickVars, historyVars>>

Evaluators == {"prices", "themes"}
RowsOf(e) == IF e = "prices" THEN PriceAlerts ELSE ThemeAlerts
AlertInit ==
    /\ alertRow \in FirstRows
    /\ polling = FALSE
    /\ phase = [e \in Evaluators |-> "off"]
    /\ copy = [a \in Alerts |-> Missing]
    /\ quote = [e \in Evaluators |-> Missing]
    /\ armed = [a \in Alerts |-> 1] /\ fired = [a \in Alerts |-> 0]
    /\ lostWrite = [a \in Alerts |-> 0] /\ died = 0

(***************************************************************************)
(* When an alert is triggered                                              *)
(***************************************************************************)

\* direction "below" fires at or under the target, "above" at or over it.
PriceTriggered(row, price) ==
    price # Missing /\ IF row.kind = "below" THEN price <= row.target ELSE price >= row.target

Quoted(prices) == {m \in Members : prices[m] # Missing}

\* The equal-weight average of the members with a quote, as sum and count.
BasketSum(prices) == SumFunctionOnSet(prices, Quoted(prices))
Basket(prices) == [sum |-> BasketSum(prices), of |-> Cardinality(Quoted(prices))]

Abs(n) == IF n < 0 THEN -n ELSE n

\* |avg - baseline| / baseline * 100 >= threshold, multiplied out.
Moved(base, now) ==
    100 * Abs(now.sum * base.of - base.sum * now.of) >= MovePct * base.sum * now.of

\* A theme without a single quote is skipped; a basket without a baseline is
\* stamped with one and does not fire.
NeedsBaseline(row, prices) ==
    row.kind = "basket-change-pct" /\ row.baseline = Missing /\ Quoted(prices) # {}
ThemeTriggered(row, prices) ==
    /\ Quoted(prices) # {}
    /\ CASE row.kind = "basket-change-pct" ->
              row.baseline # Missing /\ Moved(row.baseline, Basket(prices))
         [] row.kind = "any-member-above" -> \E m \in Quoted(prices) : prices[m] >= row.target
         [] row.kind = "any-member-below" -> \E m \in Quoted(prices) : prices[m] <= row.target

Triggered(a) ==
    IF a \in PriceAlerts THEN PriceTriggered(copy[a], quote["prices"][a])
                         ELSE ThemeTriggered(copy[a], quote["themes"])

(***************************************************************************)
(* The tick                                                                *)
(***************************************************************************)

\* Mutant: a slow tick is entered again.
TickReenters ==
    /\ polling' = TRUE
    /\ phase' = [e \in Evaluators |-> "loading"]
    /\ copy' = [a \in Alerts |-> Missing]
    /\ UNCHANGED <<alertRow, quote, historyVars>>

\* The interval, or the boot, enters the tick; the mutex keeps it single.
TickStarts ==
    /\ ~polling
    /\ polling' = TRUE
    /\ phase' = [e \in Evaluators |-> "loading"]
    /\ UNCHANGED <<alertRow, copy, quote, historyVars>>

\* Loads the active rows; a failing query loads none, and no row ends the work.
Load(e, rows) ==
    /\ phase[e] = "loading"
    /\ rows \in {{}, {a \in RowsOf(e) : alertRow[a] # Missing /\ alertRow[a].status = "active"}}
    /\ copy' = [a \in Alerts |-> IF a \in rows THEN alertRow[a] ELSE copy[a]]
    /\ phase' = [phase EXCEPT ![e] = IF rows = {} THEN "off" ELSE "quoting"]
    /\ UNCHANGED <<alertRow, polling, quote, historyVars>>

\* One price request for all rows: some symbols may be missing from the answer.
Quotes(e) ==
    /\ phase[e] = "quoting"
    /\ quote' \in {[quote EXCEPT ![e] = q] :
                     q \in [(IF e = "prices" THEN PriceAlerts ELSE Members)
                              -> Levels \union {Missing}]}
    /\ phase' = [phase EXCEPT ![e] = "evaluating"]
    /\ UNCHANGED <<alertRow, polling, copy, historyVars>>

QuotesFail(e) ==
    /\ phase[e] = "quoting"
    /\ phase' = [phase EXCEPT ![e] = "off"]
    /\ copy' = [a \in Alerts |-> IF a \in RowsOf(e) THEN Missing ELSE copy[a]]
    /\ UNCHANGED <<alertRow, polling, quote, historyVars>>

Done(a) == copy' = [copy EXCEPT ![a] = Missing]

\* Not triggered: at most the displayed price or the baseline is written.
PassOver(e, a) ==
    /\ phase[e] = "evaluating" /\ a \in RowsOf(e) /\ copy[a] # Missing
    /\ ~Triggered(a)
    /\ Done(a)
    /\ alertRow' = IF a \in ThemeAlerts /\ NeedsBaseline(copy[a], quote[e]) /\ alertRow[a] # Missing
                   THEN [alertRow EXCEPT ![a].baseline = Basket(quote[e])] ELSE alertRow
    /\ UNCHANGED <<polling, phase, quote, historyVars>>

\* Triggered: the row is written first, and the failure of that write is ignored.
WriteTriggered(e, a, written) ==
    /\ phase[e] = "evaluating" /\ a \in RowsOf(e) /\ copy[a] # Missing
    /\ copy[a].status = "active" /\ Triggered(a)
    /\ written \/ lostWrite[a] < LossBound
    /\ copy' = [copy EXCEPT ![a].status = "triggered"]
    /\ alertRow' = IF written /\ alertRow[a] # Missing
                   THEN [alertRow EXCEPT ![a].status = "triggered"] ELSE alertRow
    /\ lostWrite' = IF written THEN lostWrite ELSE [lostWrite EXCEPT ![a] = @ + 1]
    /\ UNCHANGED <<polling, phase, quote, armed, fired, died>>

\* Then the owner is told, in the feed and on the channels.
Notify(e, a) ==
    /\ phase[e] = "evaluating" /\ a \in RowsOf(e) /\ copy[a] # Missing
    /\ copy[a].status = "triggered"
    /\ fired' = [fired EXCEPT ![a] = @ + 1]
    /\ Done(a)
    /\ UNCHANGED <<alertRow, polling, phase, quote, armed, lostWrite, died>>

EvaluatorEnds(e) ==
    /\ phase[e] = "evaluating" /\ \A a \in RowsOf(e) : copy[a] = Missing
    /\ phase' = [phase EXCEPT ![e] = "off"]
    /\ quote' = [quote EXCEPT ![e] = Missing]
    /\ UNCHANGED <<alertRow, polling, copy, historyVars>>

TickEnds ==
    /\ polling /\ \A e \in Evaluators : phase[e] = "off"
    /\ polling' = FALSE
    /\ UNCHANGED <<alertRow, phase, copy, quote, historyVars>>

ProcessDies ==
    /\ died < LossBound
    /\ died' = died + 1
    /\ polling' = FALSE
    /\ phase' = [e \in Evaluators |-> "off"]
    /\ copy' = [a \in Alerts |-> Missing]
    /\ quote' = [e \in Evaluators |-> Missing]
    /\ UNCHANGED <<alertRow, armed, fired, lostWrite>>

(***************************************************************************)
(* The owners                                                              *)
(***************************************************************************)

\* PUT of a price alert: a new target, and active again.  Theme alerts have no PUT.
Rearm(a, level) ==
    /\ a \in PriceAlerts /\ alertRow[a] # Missing
    /\ armed[a] < ArmingBound
    /\ alertRow' = [alertRow EXCEPT ![a].status = "active", ![a].target = level]
    /\ armed' = IF alertRow[a].status = "active" THEN armed ELSE [armed EXCEPT ![a] = @ + 1]
    /\ UNCHANGED <<tickVars, fired, lostWrite, died>>

Delete(a) ==
    /\ alertRow[a] # Missing
    /\ alertRow' = [alertRow EXCEPT ![a] = Missing]
    /\ UNCHANGED <<tickVars, historyVars>>

AlertNext ==
    \/ TickStarts \/ TickEnds \/ ProcessDies
    \/ \E e \in Evaluators :
         \/ \E rows \in SUBSET RowsOf(e) : Load(e, rows)
         \/ Quotes(e) \/ QuotesFail(e) \/ EvaluatorEnds(e)
         \/ \E a \in Alerts : PassOver(e, a) \/ Notify(e, a)
         \/ \E a \in Alerts, written \in BOOLEAN : WriteTriggered(e, a, written)
    \/ \E a \in Alerts : Delete(a) \/ \E level \in Levels : Rearm(a, level)

AlertSpec == AlertInit /\ [][AlertNext]_alertVars

(***************************************************************************)
(* Properties                                                              *)
(***************************************************************************)

AlertTypeOK ==
    /\ alertRow \in [Alerts -> AlertRows \union {Missing}]
    /\ polling \in BOOLEAN
    /\ phase \in [Evaluators -> {"off", "loading", "quoting", "evaluating"}]
    /\ copy \in [Alerts -> AlertRows \union {Missing}]
    /\ quote["prices"] \in [PriceAlerts -> Levels \union {Missing}] \union {Missing}
    /\ quote["themes"] \in [Members -> Levels \union {Missing}] \union {Missing}
    /\ armed \in [Alerts -> Nat] /\ fired \in [Alerts -> Nat]
    /\ lostWrite \in [Alerts -> Nat] /\ died \in Nat

\* An alert fires once each time it is armed, whatever its owner does to the row
\* while a tick works on a copy of it: it fires again only after a write of its
\* "triggered" status failed, and an arming is used up without a notification
\* only by a death of the process between the write and the notification.
OneNotificationPerArming ==
    \A a \in Alerts :
      /\ fired[a] <= armed[a] + lostWrite[a]
      /\ alertRow[a] # Missing /\ alertRow[a].status = "triggered" /\ copy[a] = Missing
           => fired[a] + died >= armed[a]
=============================================================================
