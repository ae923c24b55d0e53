----------------------------- MODULE OrderLedger -----------------------------
(***************************************************************************)
(* One broker connection of server/services/brokerGovernance.js: the       *)
(* durable order ledger, the event table that de-duplicates broker events, *)
(* the governed submission of an order, reconciliation against the broker  *)
(* and the connection's kill switch.                                       *)
(*                                                                         *)
(* A handler is split where it awaits the broker or the database, because  *)
(* every other handler may run there.  A database transaction is one step: *)
(* it locks each row it reads until it commits.  The broker is external:   *)
(* it accepts a client order id once and otherwise evolves on its own.     *)
(***************************************************************************)
EXTENDS Integers

CONSTANTS
    ClientIds,     \* client order ids submitted through the gateway
    Legs,          \* child orders the broker creates for a bracket order
    Parent,        \* the bracket order of each leg
    Foreign,       \* broker orders that never went through the gateway
    Requests,      \* one-shot calls of executeGovernedOrder
    RequestId,     \* the client order id of each call
    Reconcilers,   \* the worker and the HTTP reconcile handler
    BrokerUses,    \* the statuses the broker moves orders to in this instance
    Qty,           \* ordered quantity
    MaxAttempts    \* POST attempts of one placeOrder (ALPACA_FETCH_RETRIES + 1)

ASSUME ConstantsAssumption ==
    /\ Parent \in [Legs -> ClientIds]
    /\ RequestId \in [Requests -> ClientIds]
    /\ ClientIds \cap Legs = {} /\ ClientIds \cap Foreign = {} /\ Legs \cap Foreign = {}
    /\ Qty \in Nat \ {0}
    /\ MaxAttempts \in Nat \ {0}

Orders == ClientIds \union Legs \union Foreign      \* what the broker may hold
Rows   == ClientIds \union Legs                     \* what the ledger may hold

Working     == {"accepted", "new", "held"}
Unfinished  == Working \union {"partially_filled", "pending_cancel"}
Terminal    == {"filled", "canceled", "expired", "rejected", "replaced"}
BrokerStatus == Unfinished \union Terminal
ASSUME BrokerUsesAssumption == BrokerUses \subseteq BrokerStatus

LedgerStatus == BrokerStatus \union {"pending_submit", "submitted", "pending_unknown"}

Absent     == [status |-> "absent", filled |-> 0]
OrderState == [status: BrokerStatus, filled: 0..Qty] \union {Absent}
RowState   == [status: LedgerStatus, filled: 0..Qty] \union {Absent}

VARIABLES
    brokerOrders,   \* the broker's truth, per order
    wire,           \* POSTs sent and not yet handled by the broker
    ledger,         \* BrokerOrder rows
    events,         \* BrokerOrderEvent keys already stored
    pc,             \* where each executeGovernedOrder call is
    sawKill,        \* killSwitchActive in the connection object the call holds
    attempt,        \* POSTs the call has sent
    reply,          \* what the broker answered to the current POST
    rec,            \* where each reconcileConnection call is
    snap,           \* the getOrders snapshot it fetched
    killReason,     \* BrokerConnection.killSwitchReason, "none" while killSwitchActive is false
    connStatus,     \* BrokerConnection.status
    fresh,          \* lastReconciledAt is at most RECONCILIATION_MAX_AGE_MS old
    incident        \* progress of activateKillSwitch

orderVars   == <<ledger, events>>
callVars    == <<pc, sawKill, attempt, reply>>
recVars     == <<rec, snap>>
connVars    == <<killReason, connStatus, fresh, incident>>
vars == <<brokerOrders, wire, orderVars, callVars, recVars, connVars>>

Present(state) == state.status # "absent"
killSwitch == killReason # "none"       \* BrokerConnection.killSwitchActive

(***************************************************************************)
(* Event application (STATUS_RANK, applyBrokerEvent).                      *)
(***************************************************************************)

\* STATUS_RANK; a status it does not list ("held", "pending_unknown") ranks 0.
Rank(status) ==
    CASE status = "submitted"                              -> 10
      [] status \in {"accepted", "new"}                    -> 20
      [] status = "partially_filled"                       -> 50
      [] status = "pending_cancel"                         -> 60
      [] status \in {"canceled", "expired", "rejected", "replaced"} -> 80
      [] status = "filled"                                 -> 100
      [] OTHER                                             -> 0

Larger(a, b) == IF a > b THEN a ELSE b

\* Mutant: any other status overwrites the row.
ProgressesOnAnyChange(row, event) ==
    event.status # row.status \/ event.filled > row.filled

Progresses(row, event) ==
    \/ Rank(event.status) > Rank(row.status)
    \/ event.filled > row.filled

\* Mutant: filled quantities of events are added up.
ApplyEventAddingFills(row, duplicate, event) ==
    IF duplicate \/ ~Progresses(row, event)
    THEN row
    ELSE [status |-> event.status, filled |-> row.filled + event.filled]

\* The row applyBrokerEvent leaves, given the in-memory row it compares with.
\* A duplicate event, or one that does not progress the row, writes nothing.
ApplyEvent(row, duplicate, event) ==
    IF duplicate \/ ~Progresses(row, event)
    THEN row
    ELSE [status |-> event.status, filled |-> Larger(row.filled, event.filled)]

-----------------------------------------------------------------------------
Init ==
    /\ brokerOrders = [o \in Orders |-> Absent]
    /\ wire = {}
    /\ ledger = [i \in Rows |-> Absent]
    /\ events = {}
    /\ pc = [q \in Requests |-> "new"]
    /\ sawKill = [q \in Requests |-> FALSE]
    /\ attempt = [q \in Requests |-> 0]
    /\ reply = [q \in Requests |-> Absent]
    /\ rec = [r \in Reconcilers |-> "idle"]
    /\ snap = [r \in Reconcilers |-> [o \in Orders |-> Absent]]
    /\ killReason = "none"
    /\ connStatus = "active"
    /\ fresh = FALSE
    /\ incident = "none"

(***************************************************************************)
(* executeGovernedOrder                                                    *)
(***************************************************************************)

\* getBrokerContext: only an active connection; the object is a copy.
ReadContext(q) ==
    /\ pc[q] = "new"
    /\ connStatus = "active"
    /\ pc' = [pc EXCEPT ![q] = "context"]
    /\ sawKill' = [sawKill EXCEPT ![q] = killSwitch]
    /\ UNCHANGED <<brokerOrders, wire, orderVars, attempt, reply, recVars, connVars>>

\* Mutants of Claim: an unknown outcome is submitted again; the row is written only
\* after the submission; the kill switch is not looked at.
ClaimResubmittingUnknown(q) ==
    LET i == RequestId[q] IN
    /\ pc[q] = "context"
    /\ IF sawKill[q] \/ (Present(ledger[i]) /\ ledger[i].status # "pending_unknown")
       THEN /\ pc' = [pc EXCEPT ![q] = "done"]
            /\ UNCHANGED ledger
       ELSE /\ pc' = [pc EXCEPT ![q] = "claimed"]
            /\ ledger' = [ledger EXCEPT ![i] = [status |-> "pending_submit", filled |-> 0]]
    /\ UNCHANGED <<brokerOrders, wire, events, sawKill, attempt, reply, recVars, connVars>>

ClaimWithoutRow(q) ==
    /\ pc[q] = "context"
    /\ pc' = [pc EXCEPT ![q] = IF sawKill[q] \/ Present(ledger[RequestId[q]]) THEN "done" ELSE "claimed"]
    /\ UNCHANGED <<brokerOrders, wire, ledger, events, sawKill, attempt, reply, recVars, connVars>>

ClaimWithoutSwitch(q) ==
    LET i == RequestId[q] IN
    /\ pc[q] = "context"
    /\ pc' = [pc EXCEPT ![q] = IF Present(ledger[i]) THEN "done" ELSE "claimed"]
    /\ ledger' = IF Present(ledger[i]) THEN ledger
                 ELSE [ledger EXCEPT ![i] = [status |-> "pending_submit", filled |-> 0]]
    /\ UNCHANGED <<brokerOrders, wire, events, sawKill, attempt, reply, recVars, connVars>>

\* assertExecutionReady on the copy, then findOrCreate of the ledger row.
Claim(q) ==
    LET i == RequestId[q] IN
    /\ pc[q] = "context"
    /\ IF sawKill[q] \/ Present(ledger[i])          \* Forbidden, or a replay
       THEN /\ pc' = [pc EXCEPT ![q] = "done"]
            /\ UNCHANGED ledger
       ELSE /\ pc' = [pc EXCEPT ![q] = "claimed"]
            /\ ledger' = [ledger EXCEPT ![i] = [status |-> "pending_submit", filled |-> 0]]
    /\ UNCHANGED <<brokerOrders, wire, events, sawKill, attempt, reply, recVars, connVars>>

\* Mutant: the rejected order is not thrown out of the handler.
RiskRejectGoingOn(q) ==
    /\ pc[q] = "claimed"
    /\ ledger' = [ledger EXCEPT ![RequestId[q]].status = "rejected"]
    /\ UNCHANGED <<brokerOrders, wire, events, pc, sawKill, attempt, reply, recVars, connVars>>

\* evaluateOrderRisk returned a reason.
RiskReject(q) ==
    /\ pc[q] = "claimed"
    /\ pc' = [pc EXCEPT ![q] = "done"]
    /\ ledger' = [ledger EXCEPT ![RequestId[q]].status = "rejected"]
    /\ UNCHANGED <<brokerOrders, wire, events, sawKill, attempt, reply, recVars, connVars>>

\* evaluateOrderRisk returned null: placeOrder sends its first POST.
Submit(q) ==
    /\ pc[q] = "claimed"
    /\ pc' = [pc EXCEPT ![q] = "posting"]
    /\ attempt' = [attempt EXCEPT ![q] = 1]
    /\ wire' = wire \union {<<q, 1>>}
    /\ UNCHANGED <<brokerOrders, orderVars, sawKill, reply, recVars, connVars>>

\* fetchJson timed out and may retry, because the body has a client order id.
RetryPost(q) ==
    /\ pc[q] = "posting"
    /\ attempt[q] < MaxAttempts
    /\ attempt' = [attempt EXCEPT ![q] = @ + 1]
    /\ wire' = wire \union {<<q, attempt[q] + 1>>}
    /\ UNCHANGED <<brokerOrders, orderVars, pc, sawKill, reply, recVars, connVars>>

\* The catch branch: a snapshot call failed, the last POST timed out or was
\* answered with an error, or the recording transaction failed.
RecordUnknown(q) ==
    /\ \/ pc[q] \in {"claimed", "refused", "answered"}
       \/ pc[q] = "posting" /\ attempt[q] = MaxAttempts
    /\ pc' = [pc EXCEPT ![q] = "done"]
    /\ ledger' = [ledger EXCEPT ![RequestId[q]].status = "pending_unknown"]
    /\ UNCHANGED <<brokerOrders, wire, events, sawKill, attempt, reply, recVars, connVars>>

\* The recording transaction: status "submitted", then the broker's answer
\* applied to the row as this call remembers it (nothing filled).
RecordSubmission(q) ==
    LET i == RequestId[q]
        mine == [status |-> "submitted", filled |-> 0]
        after == ApplyEvent(mine, <<i, reply[q]>> \in events, reply[q])
    IN
    /\ pc[q] = "answered"
    /\ pc' = [pc EXCEPT ![q] = "done"]
    /\ ledger' = [ledger EXCEPT ![i] =
                    IF after = mine THEN [@ EXCEPT !.status = "submitted"] ELSE after]
    /\ events' = events \union {<<i, reply[q]>>}
    /\ UNCHANGED <<brokerOrders, wire, sawKill, attempt, reply, recVars, connVars>>

(***************************************************************************)
(* The broker (external).                                                  *)
(***************************************************************************)

\* The call still waits for the answer to its n-th POST.
Waiting(q, n) == pc[q] = "posting" /\ attempt[q] = n

\* A POST arrives.  The first one for a client order id opens the order and its
\* legs; a repeated one is refused, or answered with the order as it stands.
BrokerAccepts(q, n) ==
    LET i == RequestId[q]
        opened == IF Present(brokerOrders[i]) THEN brokerOrders
                  ELSE [o \in Orders |->
                         IF o = i THEN [status |-> "accepted", filled |-> 0]
                         ELSE IF o \in Legs /\ Parent[o] = i
                              THEN [status |-> "held", filled |-> 0]
                              ELSE brokerOrders[o]]
    IN
    /\ <<q, n>> \in wire
    /\ wire' = wire \ {<<q, n>>}
    /\ brokerOrders' = opened
    /\ IF Waiting(q, n)
       THEN /\ pc' = [pc EXCEPT ![q] = "answered"]
            /\ reply' = [reply EXCEPT ![q] = opened[i]]
       ELSE UNCHANGED <<pc, reply>>
    /\ UNCHANGED <<orderVars, sawKill, attempt, recVars, connVars>>

\* A POST is answered with an error and opens nothing (throttled, refused, or a
\* repeated client order id), or is lost.
BrokerRefuses(q, n) ==
    /\ <<q, n>> \in wire
    /\ wire' = wire \ {<<q, n>>}
    /\ pc' = IF Waiting(q, n) THEN [pc EXCEPT ![q] = "refused"] ELSE pc
    /\ UNCHANGED <<brokerOrders, orderVars, sawKill, attempt, reply, recVars, connVars>>

\* What an order may become: fills only grow, a terminal order never moves.
BrokerMoves(state) ==
    LET s == state.status
        f == state.filled
        At(status, filled) == [status |-> status, filled |-> filled]
        fills == {At("filled", Qty)} \union {At("partially_filled", g) : g \in (f + 1)..(Qty - 1)}
        ends == {At(t, f) : t \in {"canceled", "expired", "pending_cancel"} \ {s}}
        early == {At(t, f) : t \in {"new", "rejected", "replaced"} \ {s}}
    IN
    IF s \notin Unfinished THEN {}
    ELSE {state2 \in fills \union ends \union (IF s \in Working THEN early ELSE {}) :
             state2.status \in BrokerUses}

BrokerUpdates(o) ==
    /\ brokerOrders' \in {[brokerOrders EXCEPT ![o] = state] : state \in BrokerMoves(brokerOrders[o])}
    /\ UNCHANGED <<wire, orderVars, callVars, recVars, connVars>>

\* Orders that bypass the gateway: the legacy /alpaca routes and services that
\* close positions directly, and the broker's own user interface.
ForeignOrder(f) ==
    /\ ~Present(brokerOrders[f])
    /\ brokerOrders' = [brokerOrders EXCEPT ![f] = [status |-> "accepted", filled |-> 0]]
    /\ UNCHANGED <<wire, orderVars, callVars, recVars, connVars>>

(***************************************************************************)
(* reconcileConnection                                                     *)
(***************************************************************************)

FetchSnapshot(r) ==
    /\ rec[r] = "idle"
    /\ connStatus = "active"
    /\ rec' = [rec EXCEPT ![r] = "fetched"]
    /\ snap' = [snap EXCEPT ![r] = brokerOrders]
    /\ UNCHANGED <<brokerOrders, wire, orderVars, callVars, connVars>>

\* A leg without a row gets one before its event is applied.
RowFor(o) ==
    IF o \in Legs /\ ~Present(ledger[o]) THEN [status |-> "submitted", filled |-> 0]
                                         ELSE ledger[o]

\* Mutant: the legs of an order are not visited.
OwnedWithoutLegs(orders) == {o \in ClientIds : Present(orders[o]) /\ Present(ledger[o])}

\* The orders of a snapshot whose row the transaction finds or makes.  A leg is
\* reached through its parent's row.
Owned(orders) ==
    {o \in Rows : /\ Present(orders[o])
                  /\ \/ o \in ClientIds /\ Present(ledger[o])
                     \/ o \in Legs /\ Present(orders[Parent[o]]) /\ Present(ledger[Parent[o]])}

\* Top-level broker orders no ledger row is found for.
Orphans(orders) ==
    {o \in ClientIds : Present(orders[o]) /\ ~Present(ledger[o])}
        \union {f \in Foreign : Present(orders[f])}

CommitReconcile(r) ==
    /\ rec[r] = "fetched"
    /\ ledger' = [o \in Rows |->
                    IF o \in Owned(snap[r])
                    THEN ApplyEvent(RowFor(o), <<o, snap[r][o]>> \in events, snap[r][o])
                    ELSE ledger[o]]
    /\ events' = events \union {<<o, snap[r][o]>> : o \in Owned(snap[r])}
    /\ IF Orphans(snap[r]) # {}
       THEN killReason' = "orphans" /\ UNCHANGED fresh
       ELSE fresh' = TRUE /\ UNCHANGED killReason
    /\ rec' = [rec EXCEPT ![r] = "idle"]
    /\ snap' = [snap EXCEPT ![r] = [o \in Orders |-> Absent]]
    /\ UNCHANGED <<brokerOrders, wire, callVars, connStatus, incident>>

\* A broker call, the account identity check or the transaction failed.
ReconcileFails(r) ==
    /\ rec[r] = "fetched" \/ connStatus = "active"
    /\ killReason' = "failure"
    /\ rec' = [rec EXCEPT ![r] = "idle"]
    /\ snap' = [snap EXCEPT ![r] = [o \in Orders |-> Absent]]
    /\ UNCHANGED <<brokerOrders, wire, orderVars, callVars, connStatus, fresh, incident>>

(***************************************************************************)
(* The connection: kill switch, reset, re-authentication, re-connection.   *)
(***************************************************************************)

\* activateKillSwitch writes the switch before it talks to the broker.  A drill
\* stops here.
EngageKillSwitch(mode) ==
    /\ incident = "none"
    /\ connStatus = "active"
    /\ killReason' = "operator"
    /\ incident' = IF mode = "incident" THEN "engaged" ELSE incident
    /\ UNCHANGED <<brokerOrders, wire, orderVars, callVars, recVars, connStatus, fresh>>

\* cancelAllOrders: every unfinished order is asked to cancel; or the call fails.
CancelAll ==
    /\ incident = "engaged"
    /\ incident' = "canceled"
    /\ \/ UNCHANGED brokerOrders
       \/ brokerOrders' = [o \in Orders |->
             IF brokerOrders[o].status \in Unfinished
             THEN [brokerOrders[o] EXCEPT !.status = "pending_cancel"]
             ELSE brokerOrders[o]]
    /\ UNCHANGED <<wire, orderVars, callVars, recVars, killReason, connStatus, fresh>>

\* closeAllPositions: the broker opens a closing order of its own for the
\* position; or there is none to close, or the call fails.
Flatten ==
    /\ incident = "canceled"
    /\ incident' = "none"
    /\ \/ UNCHANGED brokerOrders
       \/ \E f \in Foreign :
             /\ ~Present(brokerOrders[f])
             /\ \E i \in ClientIds : brokerOrders[i].filled > 0
             /\ brokerOrders' = [brokerOrders EXCEPT ![f] = [status |-> "accepted", filled |-> 0]]
    /\ UNCHANGED <<wire, orderVars, callVars, recVars, killReason, connStatus, fresh>>

ResetKillSwitch ==
    /\ fresh
    /\ killReason' = "none"
    /\ connStatus' = "reauth_required"
    /\ UNCHANGED <<brokerOrders, wire, orderVars, callVars, recVars, fresh, incident>>

Reauthenticate ==
    /\ connStatus' = "active"
    /\ UNCHANGED <<brokerOrders, wire, orderVars, callVars, recVars, killReason, fresh, incident>>

\* connectBroker for a connection that exists already.
Reconnect ==
    /\ connStatus' = "active"
    /\ killReason' = "none"
    /\ UNCHANGED <<brokerOrders, wire, orderVars, callVars, recVars, fresh, incident>>

\* Two minutes pass since the last successful reconciliation.
ReconciliationAges ==
    /\ fresh
    /\ fresh' = FALSE
    /\ UNCHANGED <<brokerOrders, wire, orderVars, callVars, recVars, killReason, connStatus, incident>>

\* The process dies: calls in flight are lost, their POSTs may still arrive.
Crash ==
    /\ pc' = [q \in Requests |-> IF pc[q] = "new" THEN "new" ELSE "done"]
    /\ rec' = [r \in Reconcilers |-> "idle"]
    /\ snap' = [r \in Reconcilers |-> [o \in Orders |-> Absent]]
    /\ incident' = "none"
    /\ UNCHANGED <<brokerOrders, wire, orderVars, sawKill, attempt, reply,
                   killReason, connStatus, fresh>>

-----------------------------------------------------------------------------
Call(q) ==
    \/ ReadContext(q) \/ Claim(q) \/ RiskReject(q) \/ Submit(q)
    \/ RetryPost(q) \/ RecordUnknown(q) \/ RecordSubmission(q)

Broker ==
    \/ \E q \in Requests, n \in 1..MaxAttempts : BrokerAccepts(q, n) \/ BrokerRefuses(q, n)
    \/ \E o \in Orders : BrokerUpdates(o)
    \/ \E f \in Foreign : ForeignOrder(f)

Reconcile(r) == FetchSnapshot(r) \/ CommitReconcile(r) \/ ReconcileFails(r)

Connection ==
    \/ \E mode \in {"drill", "incident"} : EngageKillSwitch(mode)
    \/ CancelAll \/ Flatten
    \/ ResetKillSwitch \/ Reauthenticate \/ Reconnect \/ ReconciliationAges

\* Without operators and users acting on the connection.
LedgerNext ==
    \/ \E q \in Requests : Call(q)
    \/ Broker
    \/ \E r \in Reconcilers : Reconcile(r)
    \/ Crash

Next == LedgerNext \/ Connection

LedgerSpec == Init /\ [][LedgerNext]_vars

Spec == Init /\ [][Next]_vars

\* The worker keeps reconciling and the broker keeps being reachable: a fetch, and
\* a commit, that can happen again and again does happen.
Fairness == \A r \in Reconcilers : SF_vars(FetchSnapshot(r)) /\ SF_vars(CommitReconcile(r))

FairLedgerSpec == LedgerSpec /\ Fairness

-----------------------------------------------------------------------------
(***************************************************************************)
(* Properties.                                                             *)
(***************************************************************************)

\* Every variable has its type.
TypeOK ==
    /\ brokerOrders \in [Orders -> OrderState]
    /\ wire \subseteq Requests \X (1..MaxAttempts)
    /\ ledger \in [Rows -> RowState]
    /\ events \subseteq Rows \X OrderState
    /\ pc \in [Requests -> {"new", "context", "claimed", "posting", "answered", "refused", "done"}]
    /\ sawKill \in [Requests -> BOOLEAN]
    /\ attempt \in [Requests -> 0..MaxAttempts]
    /\ reply \in [Requests -> OrderState]
    /\ rec \in [Reconcilers -> {"idle", "fetched"}]
    /\ snap \in [Reconcilers -> [Orders -> OrderState]]
    /\ killReason \in {"none", "operator", "orphans", "failure"}
    /\ connStatus \in {"active", "reauth_required"}
    /\ fresh \in BOOLEAN
    /\ incident \in {"none", "engaged", "canceled"}

\* Some call has sent a POST for the client order id.
Sent(i) == \E q \in Requests : RequestId[q] = i /\ attempt[q] > 0

\* An order that was sent to the broker, or that the broker holds, has a durable
\* ledger row, whatever crashed since (findOrCreate comes before placeOrder).
DurableBeforeSubmit ==
    \A i \in ClientIds : Sent(i) \/ Present(brokerOrders[i]) => Present(ledger[i])

\* At most one call ever submits a client order id, however many callers use it
\* and retry it ("exactly one order and one submission for an idempotency key").
SubmittedOnce ==
    \A p, q \in Requests :
        RequestId[p] = RequestId[q] /\ attempt[p] > 0 /\ attempt[q] > 0 => p = q

\* The ledger never reports a fill the broker has not made, whichever order
\* answers and snapshots arrive in.
LedgerNeverAhead == \A o \in Rows : ledger[o].filled <= brokerOrders[o].filled

\* A terminal ledger status is the broker's, except that the risk gate rejects
\* orders that were never sent.
TerminalIsTrue ==
    \A o \in Rows : ledger[o].status \in Terminal =>
        \/ brokerOrders[o].status = ledger[o].status
        \/ ledger[o].status = "rejected" /\ ~Present(brokerOrders[o]) /\ ~Sent(o)

\* Reconciliation never takes an order of the gateway for an orphan: an orphan,
\* and the kill switch it causes, means an order that bypassed the gateway.
OrphanIsForeign == \A r \in Reconcilers : Orphans(snap[r]) \subseteq Foreign

\* Overlapping reconciliations may commit their snapshots in any order; a commit
\* never lowers a filled quantity, and lowers a status rank only for a larger fill.
ReconcileNeverRegresses ==
    [][ \A r \in Reconcilers : rec[r] = "fetched" /\ rec'[r] = "idle" =>
          \A o \in Rows :
             \/ ledger'[o] = ledger[o]
             \/ ledger'[o].filled > ledger[o].filled
             \/ /\ ledger'[o].filled = ledger[o].filled
                /\ Rank(ledger'[o].status) >= Rank(ledger[o].status) ]_vars

\* A call whose connection object says the kill switch is on never sends a POST,
\* even when the switch is reset while the call is under way.
SawKillNeverSends == \A q \in Requests : sawKill[q] => attempt[q] = 0

\* The broker fills or cancels a bracket leg on its own, and only reconciliation
\* can learn it: a leg's final state reaches the ledger, whatever crashes.
LegConverges ==
    \A l \in Legs : brokerOrders[l].status \in Terminal
                       ~> ledger[l].status = brokerOrders[l].status

\* The gateway implements the submission protocol.
Phase(i) ==
    CASE ~Present(ledger[i]) -> "unused"
      [] Sent(i)             -> "sent"
      [] Present(ledger[i]) /\ ~Sent(i) ->
           IF \E q \in Requests : RequestId[q] = i /\ pc[q] = "claimed"
           THEN "recorded" ELSE "closed"

Protocol == INSTANCE SubmissionProtocol WITH
    Ids <- ClientIds,
    phase <- [i \in ClientIds |-> Phase(i)],
    opened <- {i \in ClientIds : Present(brokerOrders[i])}

ImplementsProtocol == Protocol!Spec

-----------------------------------------------------------------------------
(***************************************************************************)
(* Claims of the documentation, the comments and the tests.                *)
(***************************************************************************)

\* "ignores a delayed accepted event after a partial fill": a row that records a
\* partial fill never goes back to accepted (out-of-order event monotonicity).
DelayedAcceptIgnored ==
    [][ \A i \in ClientIds :
          ledger[i].status = "partially_filled" => ledger'[i].status # "accepted" ]_vars

\* "Keep the durable row in pending_unknown and let reconciliation discover the
\* broker result": an unknown outcome the broker has decided is discovered.
UnknownIsDiscovered ==
    \A i \in ClientIds :
        ledger[i].status = "pending_unknown" /\ brokerOrders[i].status \in Terminal
            ~> ledger[i].status # "pending_unknown"

\* "Any orphan keeps the switch on": a reset never clears a switch that an orphan
\* set while the broker still holds an order the ledger does not own.
OrphanKeepsSwitch ==
    [][ killReason = "orphans" /\ Orphans(brokerOrders) # {}
            /\ connStatus' = "reauth_required" => killSwitch' ]_vars
=============================================================================
