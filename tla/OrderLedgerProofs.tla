-------------------------- MODULE OrderLedgerProofs --------------------------
(***************************************************************************)
(* Proofs about OrderLedger, for every set of client order ids, calls,     *)
(* reconcilers and foreign orders and every quantity.                      *)
(***************************************************************************)
EXTENDS OrderLedger, TLAPS

LEMMA RankType == \A s : Rank(s) \in Nat
  BY DEF Rank

\* Rank 0 is what "absent" has, so an absent event progresses nothing.
LEMMA AbsentRank == Rank("absent") = 0
  BY DEF Rank

\* Applying an event keeps a row's type and never lowers its filled quantity.
LEMMA ApplyEventType ==
  ASSUME NEW row \in RowState, NEW event \in OrderState, NEW duplicate
  PROVE  ApplyEvent(row, duplicate, event) \in RowState
  <1>0. Qty \in Nat
    BY ConstantsAssumption
  <1>1. CASE duplicate \/ ~Progresses(row, event)
    BY <1>1 DEF ApplyEvent
  <1>2. CASE ~(duplicate \/ ~Progresses(row, event))
    <2>1. row.filled \in 0..Qty /\ event.filled \in 0..Qty
      BY <1>0 DEF RowState, OrderState, Absent
    <2>2. event # Absent
      <3>1. event = Absent => ~(Rank(event.status) > Rank(row.status))
        BY AbsentRank, RankType DEF Absent
      <3>2. event = Absent => ~(event.filled > row.filled)
        BY <2>1 DEF Absent
      <3>3. QED
        BY <1>2, <3>1, <3>2 DEF Progresses
    <2>3. event.status \in LedgerStatus
      BY <2>2 DEF OrderState, LedgerStatus
    <2>4. Larger(row.filled, event.filled) \in 0..Qty
      BY <2>1 DEF Larger
    <2>5. QED
      BY <1>2, <2>3, <2>4 DEF ApplyEvent, RowState
  <1>3. QED
    BY <1>1, <1>2

\* Writing only the status keeps a row a row.
LEMMA StatusWrite ==
  ASSUME NEW row \in RowState, NEW status \in LedgerStatus
  PROVE  LET after == [row EXCEPT !.status = status] IN
         after \in RowState /\ after.status = status /\ after.filled = row.filled
  <1>1. Qty \in Nat
    BY ConstantsAssumption
  <1>2. row = Absent => row.filled \in 0..Qty
    BY <1>1 DEF Absent
  <1>3. CASE row = Absent
    BY <1>1, <1>3 DEF RowState, Absent
  <1>4. CASE row \in [status: LedgerStatus, filled: 0..Qty]
    BY <1>4 DEF RowState
  <1>5. QED
    BY <1>3, <1>4 DEF RowState

LEMMA ApplyEventCases ==
  ASSUME NEW row \in RowState, NEW event \in OrderState, NEW duplicate
  PROVE  LET after == ApplyEvent(row, duplicate, event) IN
         \/ after = row
         \/ /\ Present(event) /\ Present(after)
            /\ after.status = event.status
            /\ after.filled = Larger(row.filled, event.filled)
            /\ Progresses(row, event)
  <1>0. Qty \in Nat /\ row.filled \in 0..Qty /\ event.filled \in 0..Qty
    BY ConstantsAssumption DEF RowState, OrderState, Absent
  <1>1. CASE duplicate \/ ~Progresses(row, event)
    BY <1>1 DEF ApplyEvent
  <1>2. CASE ~(duplicate \/ ~Progresses(row, event))
    <2>1. event # Absent
      <3>1. event = Absent => ~(Rank(event.status) > Rank(row.status))
        BY AbsentRank, RankType DEF Absent
      <3>2. event = Absent => ~(event.filled > row.filled)
        BY <1>0 DEF Absent
      <3>3. QED
        BY <1>2, <3>1, <3>2 DEF Progresses
    <2>2. Present(event)
      BY <2>1 DEF Present, OrderState, BrokerStatus, Unfinished, Working, Terminal
    <2>3. QED
      BY <1>2, <2>2 DEF ApplyEvent, Present
  <1>3. QED
    BY <1>1, <1>2

-----------------------------------------------------------------------------
(***************************************************************************)
(* Type correctness.                                                       *)
(***************************************************************************)

LEMMA InitType == Init => TypeOK
  <1> SUFFICES ASSUME Init PROVE TypeOK
    OBVIOUS
  <1>1. Absent \in OrderState /\ Absent \in RowState
    BY DEF OrderState, RowState
  <1>2. 0 \in 0..MaxAttempts
    BY ConstantsAssumption
  <1>3. QED
    BY <1>1, <1>2 DEF Init, TypeOK

LEMMA CallType ==
  ASSUME TypeOK, NEW q \in Requests, Call(q)
  PROVE  TypeOK'
  <1>0. /\ Qty \in Nat /\ MaxAttempts \in Nat \ {0}
        /\ RequestId[q] \in ClientIds /\ RequestId[q] \in Rows
    BY ConstantsAssumption DEF Rows
  <1>1. CASE ReadContext(q)
    BY <1>1 DEF ReadContext, TypeOK, orderVars, recVars, connVars, killSwitch
  <1>2. CASE Claim(q)
    <2>1. [status |-> "pending_submit", filled |-> 0] \in RowState
      BY <1>0 DEF RowState, LedgerStatus
    <2>2. ledger' \in [Rows -> RowState]
      BY <1>0, <1>2, <2>1 DEF Claim, TypeOK
    <2>3. QED
      BY <1>2, <2>2 DEF Claim, TypeOK, recVars, connVars
  <1>3. CASE RiskReject(q)
    <2>1. [ledger[RequestId[q]] EXCEPT !.status = "rejected"] \in RowState
      BY <1>0 DEF TypeOK, RowState, Absent, LedgerStatus, BrokerStatus, Terminal
    <2>2. ledger' \in [Rows -> RowState]
      BY <1>0, <1>3, <2>1 DEF RiskReject, TypeOK
    <2>3. QED
      BY <1>3, <2>2 DEF RiskReject, TypeOK, recVars, connVars
  <1>4. CASE Submit(q)
    BY <1>0, <1>4 DEF Submit, TypeOK, orderVars, recVars, connVars
  <1>5. CASE RetryPost(q)
    BY <1>0, <1>5 DEF RetryPost, TypeOK, orderVars, recVars, connVars
  <1>6. CASE RecordUnknown(q)
    <2>1. [ledger[RequestId[q]] EXCEPT !.status = "pending_unknown"] \in RowState
      BY <1>0 DEF TypeOK, RowState, Absent, LedgerStatus
    <2>2. ledger' \in [Rows -> RowState]
      BY <1>0, <1>6, <2>1 DEF RecordUnknown, TypeOK
    <2>3. QED
      BY <1>6, <2>2 DEF RecordUnknown, TypeOK, recVars, connVars
  <1>7. CASE RecordSubmission(q)
    <2> DEFINE i == RequestId[q]
               mine == [status |-> "submitted", filled |-> 0]
               duplicate == <<i, reply[q]>> \in events
               after == ApplyEvent(mine, duplicate, reply[q])
    <2>1. mine \in RowState /\ reply[q] \in OrderState
      BY <1>0 DEF RowState, LedgerStatus, TypeOK
    <2>2. after \in RowState
      BY <2>1, ApplyEventType
    <2>3. [ledger[i] EXCEPT !.status = "submitted"] \in RowState
      BY <1>0 DEF TypeOK, RowState, Absent, LedgerStatus
    <2>4. ledger' \in [Rows -> RowState]
      <3>1. ledger' = [ledger EXCEPT ![i] =
                         IF after = mine THEN [ledger[i] EXCEPT !.status = "submitted"] ELSE after]
        BY <1>7 DEF RecordSubmission
      <3>2. QED
        BY <1>0, <2>2, <2>3, <3>1 DEF TypeOK
    <2>5. events' \subseteq Rows \X OrderState
      BY <1>0, <1>7, <2>1 DEF RecordSubmission, TypeOK
    <2>6. QED
      BY <1>7, <2>4, <2>5 DEF RecordSubmission, TypeOK, recVars, connVars
  <1>8. QED
    BY <1>1, <1>2, <1>3, <1>4, <1>5, <1>6, <1>7 DEF Call

LEMMA MovesType ==
  ASSUME NEW state \in OrderState, NEW after \in BrokerMoves(state)
  PROVE  after \in [status: BrokerStatus, filled: 0..Qty]
  <1>0. Qty \in Nat \ {0} /\ state.filled \in 0..Qty
    BY ConstantsAssumption DEF OrderState, Absent
  <1>1. QED
    BY <1>0 DEF BrokerMoves, BrokerStatus, Unfinished, Working, Terminal

LEMMA BrokerType ==
  ASSUME TypeOK, Broker
  PROVE  TypeOK'
  <1>0. Qty \in Nat \ {0}
    BY ConstantsAssumption
  <1>1. /\ [status |-> "accepted", filled |-> 0] \in OrderState
        /\ [status |-> "held", filled |-> 0] \in OrderState
    BY <1>0 DEF OrderState, BrokerStatus, Unfinished, Working
  <1>2. ASSUME NEW q \in Requests, NEW n \in 1..MaxAttempts, BrokerAccepts(q, n)
        PROVE  TypeOK'
    <2>0. RequestId[q] \in Orders
      BY ConstantsAssumption DEF Orders
    <2>1. brokerOrders' \in [Orders -> OrderState]
      BY <1>1, <1>2 DEF BrokerAccepts, TypeOK
    <2>2. wire' \subseteq Requests \X (1..MaxAttempts)
      BY <1>2 DEF BrokerAccepts, TypeOK
    <2>3. brokerOrders'[RequestId[q]] \in OrderState
      BY <2>0, <2>1
    <2>4. /\ pc' \in [Requests -> {"new", "context", "claimed", "posting", "answered", "refused", "done"}]
          /\ reply' \in [Requests -> OrderState]
      BY <1>2, <2>3 DEF BrokerAccepts, TypeOK
    <2>5. QED
      BY <1>2, <2>1, <2>2, <2>4 DEF BrokerAccepts, TypeOK, orderVars, recVars, connVars
  <1>3. ASSUME NEW q \in Requests, NEW n \in 1..MaxAttempts, BrokerRefuses(q, n)
        PROVE  TypeOK'
    BY <1>3 DEF BrokerRefuses, TypeOK, orderVars, recVars, connVars
  <1>4. ASSUME NEW o \in Orders, BrokerUpdates(o)
        PROVE  TypeOK'
    <2>1. PICK state \in BrokerMoves(brokerOrders[o]) :
            brokerOrders' = [brokerOrders EXCEPT ![o] = state]
      BY <1>4 DEF BrokerUpdates
    <2>2. state \in OrderState
      BY MovesType DEF TypeOK, OrderState
    <2>3. QED
      BY <1>4, <2>1, <2>2 DEF BrokerUpdates, TypeOK, orderVars, callVars, recVars, connVars
  <1>5. ASSUME NEW f \in Foreign, ForeignOrder(f)
        PROVE  TypeOK'
    BY <1>1, <1>5 DEF ForeignOrder, TypeOK, Orders, orderVars, callVars, recVars, connVars
  <1>6. QED
    BY <1>2, <1>3, <1>4, <1>5 DEF Broker

LEMMA ReconcileType ==
  ASSUME TypeOK, NEW r \in Reconcilers, Reconcile(r)
  PROVE  TypeOK'
  <1>0. [o \in Orders |-> Absent] \in [Orders -> OrderState]
    BY DEF OrderState
  <1>1. CASE FetchSnapshot(r)
    BY <1>1 DEF FetchSnapshot, TypeOK, orderVars, callVars, connVars
  <1>2. CASE CommitReconcile(r)
    <2>1. ASSUME NEW o \in Rows
          PROVE  snap[r][o] \in OrderState /\ RowFor(o) \in RowState
      BY ConstantsAssumption DEF Rows, Orders, TypeOK, RowFor, RowState, LedgerStatus
    <2>2. \A o \in Rows : ApplyEvent(RowFor(o), <<o, snap[r][o]>> \in events, snap[r][o]) \in RowState
      BY <2>1, ApplyEventType
    <2>3. ledger' \in [Rows -> RowState]
      BY <1>2, <2>2 DEF CommitReconcile, TypeOK
    <2>4. events' \subseteq Rows \X OrderState
      BY <1>2, <2>1 DEF CommitReconcile, TypeOK, Owned
    <2>5. killReason' \in {"none", "operator", "orphans", "failure"} /\ fresh' \in BOOLEAN
      BY <1>2 DEF CommitReconcile, TypeOK
    <2>6. snap' \in [Reconcilers -> [Orders -> OrderState]] /\ rec' \in [Reconcilers -> {"idle", "fetched"}]
      BY <1>0, <1>2 DEF CommitReconcile, TypeOK
    <2>7. QED
      BY <1>2, <2>3, <2>4, <2>5, <2>6 DEF CommitReconcile, TypeOK, callVars
  <1>3. CASE ReconcileFails(r)
    BY <1>0, <1>3 DEF ReconcileFails, TypeOK, orderVars, callVars
  <1>4. QED
    BY <1>1, <1>2, <1>3 DEF Reconcile

LEMMA ConnectionType ==
  ASSUME TypeOK, Connection
  PROVE  TypeOK'
  <1>0. Qty \in Nat \ {0}
    BY ConstantsAssumption
  <1>1. ASSUME NEW mode \in {"drill", "incident"}, EngageKillSwitch(mode)
        PROVE  TypeOK'
    BY <1>1 DEF EngageKillSwitch, TypeOK, orderVars, callVars, recVars
  <1>2. CASE CancelAll
    <2>1. ASSUME NEW o \in Orders
          PROVE  [brokerOrders[o] EXCEPT !.status = "pending_cancel"] \in OrderState
      BY <1>0 DEF TypeOK, OrderState, Absent, BrokerStatus, Unfinished
    <2>2. brokerOrders' \in [Orders -> OrderState]
      BY <1>2, <2>1 DEF CancelAll, TypeOK
    <2>3. QED
      BY <1>2, <2>2 DEF CancelAll, TypeOK, orderVars, callVars, recVars
  <1>3. CASE Flatten
    <2>1. [status |-> "accepted", filled |-> 0] \in OrderState
      BY <1>0 DEF OrderState, BrokerStatus, Unfinished, Working
    <2>2. brokerOrders' \in [Orders -> OrderState]
      BY <1>3, <2>1 DEF Flatten, TypeOK
    <2>3. QED
      BY <1>3, <2>2 DEF Flatten, TypeOK, orderVars, callVars, recVars
  <1>4. CASE ResetKillSwitch \/ Reauthenticate \/ Reconnect \/ ReconciliationAges
    BY <1>4 DEF ResetKillSwitch, Reauthenticate, Reconnect, ReconciliationAges,
                TypeOK, orderVars, callVars, recVars
  <1>5. QED
    BY <1>1, <1>2, <1>3, <1>4 DEF Connection

LEMMA NextType == TypeOK /\ [Next]_vars => TypeOK'
  <1> SUFFICES ASSUME TypeOK, [Next]_vars PROVE TypeOK'
    OBVIOUS
  <1>1. CASE UNCHANGED vars
    BY <1>1 DEF vars, orderVars, callVars, recVars, connVars, TypeOK
  <1>2. CASE Crash
    <2>1. [o \in Orders |-> Absent] \in [Orders -> OrderState]
      BY DEF OrderState
    <2>2. QED
      BY <1>2, <2>1 DEF Crash, TypeOK, orderVars
  <1>3. QED
    BY <1>1, <1>2, CallType, BrokerType, ReconcileType, ConnectionType DEF Next, LedgerNext

\* The gateway's variables keep their types, in every instance.
THEOREM TypeCorrect == Spec => []TypeOK
  BY InitType, NextType, PTL DEF Spec

-----------------------------------------------------------------------------
(***************************************************************************)
(* The inductive invariant.                                                *)
(***************************************************************************)

\* The call has claimed the client order id and may submit it, or has submitted it.
Holds(q) == pc[q] \in {"claimed", "posting", "answered", "refused"} \/ attempt[q] > 0

\* A call that holds an id has its row, and holds it alone; the row stays
\* "pending_submit" until the call goes on.
ClaimInv ==
    /\ \A q \in Requests : Holds(q) => Present(ledger[RequestId[q]])
    /\ \A p, q \in Requests : RequestId[p] = RequestId[q] /\ Holds(p) /\ Holds(q) => p = q
    /\ \A q \in Requests : pc[q] = "claimed" => ledger[RequestId[q]].status = "pending_submit"

\* POSTs are counted from the submission on, and a call that saw the switch sends none.
AttemptInv ==
    /\ \A q \in Requests : pc[q] \in {"new", "context", "claimed"} => attempt[q] = 0
    /\ \A q \in Requests : pc[q] \in {"posting", "answered", "refused"} => attempt[q] > 0
    /\ \A q \in Requests : sawKill[q] => pc[q] \in {"context", "done"} /\ attempt[q] = 0
    /\ \A w \in wire : attempt[w[1]] > 0

\* What the broker holds of the gateway was sent; a leg comes with its parent.
OpenInv ==
    /\ \A i \in ClientIds : Present(brokerOrders[i]) => Sent(i)
    /\ \A l \in Legs : Present(brokerOrders[l]) => Present(brokerOrders[Parent[l]])

\* An order in an earlier state may be in a later one: absent orders may open, fills
\* grow and terminal orders stay as they are.
Reaches(state, later) ==
    \/ ~Present(state) /\ state.filled = 0
    \/ /\ Present(state) /\ Present(later)
       /\ state.filled <= later.filled
       /\ state.status \in Terminal => later = state

\* Snapshots and answers lag behind the broker, and so does the ledger.
LagInv ==
    /\ \A r \in Reconcilers, o \in Orders : Reaches(snap[r][o], brokerOrders[o])
    /\ \A q \in Requests : Reaches(reply[q], brokerOrders[RequestId[q]])
    /\ LedgerNeverAhead
    /\ TerminalIsTrue
    /\ \A l \in Legs : ledger[l].status \in Terminal => brokerOrders[l].status = ledger[l].status

IInv == TypeOK /\ ClaimInv /\ AttemptInv /\ OpenInv /\ LagInv

LEMMA InitIInv == Init => IInv
  <1> SUFFICES ASSUME Init PROVE IInv
    OBVIOUS
  <1>1. TypeOK
    BY InitType
  <1>2. Absent.status = "absent" /\ Absent.filled = 0
    BY DEF Absent
  <1>3. \A o \in Rows : o \in Orders
    BY DEF Rows, Orders
  <1>4. \A i \in ClientIds : i \in Orders /\ i \in Rows
    BY DEF Rows, Orders
  <1>5. \A l \in Legs : l \in Orders /\ l \in Rows
    BY DEF Rows, Orders
  <1>6. ClaimInv /\ AttemptInv
    BY DEF Init, ClaimInv, AttemptInv, Holds
  <1>7. OpenInv
    BY <1>2, <1>4, <1>5 DEF Init, OpenInv, Present
  <1>8. LagInv
    BY <1>2, <1>3, <1>5 DEF Init, LagInv, Reaches, Present, LedgerNeverAhead, TerminalIsTrue,
                            Terminal
  <1>9. QED
    BY <1>1, <1>6, <1>7, <1>8 DEF IInv

\* Only the connection changes.
LEMMA QuietStep ==
  ASSUME IInv, TypeOK', UNCHANGED <<brokerOrders, wire, orderVars, callVars, recVars>>
  PROVE  IInv'
  BY DEF IInv, ClaimInv, AttemptInv, OpenInv, LagInv, Holds, Reaches, Present, Sent,
         LedgerNeverAhead, TerminalIsTrue, orderVars, callVars, recVars

\* The broker's orders do not change, nor what was sent, nor the snapshots and answers.
LEMMA OpenStep ==
  ASSUME IInv, UNCHANGED brokerOrders, \A q \in Requests : attempt[q] > 0 => attempt'[q] > 0
  PROVE  OpenInv'
  BY DEF IInv, OpenInv, Present, Sent

LEMMA ReadContextInv ==
  ASSUME IInv, TypeOK', NEW q \in Requests, ReadContext(q)
  PROVE  IInv'
  <1>1. UNCHANGED <<brokerOrders, wire, ledger, attempt, reply, snap>>
    BY DEF ReadContext, orderVars, recVars
  <1>2. pc' = [pc EXCEPT ![q] = "context"] /\ sawKill' = [sawKill EXCEPT ![q] = killSwitch]
    BY DEF ReadContext
  <1>3. ClaimInv'
    BY <1>1, <1>2 DEF ReadContext, IInv, ClaimInv, Holds, TypeOK, Present
  <1>4. AttemptInv'
    BY <1>1, <1>2 DEF ReadContext, IInv, AttemptInv, TypeOK
  <1>5. OpenInv'
    BY <1>1, OpenStep
  <1>6. LagInv'
    BY <1>1 DEF IInv, LagInv, Reaches, Present, Sent, LedgerNeverAhead, TerminalIsTrue
  <1>7. QED
    BY <1>3, <1>4, <1>5, <1>6 DEF IInv

LEMMA ClaimKeepsInv ==
  ASSUME IInv, TypeOK', NEW q \in Requests, Claim(q)
  PROVE  IInv'
  <1>0. RequestId[q] \in ClientIds /\ RequestId[q] \in Rows /\ RequestId[q] \notin Legs
    BY ConstantsAssumption DEF Rows
  <1>1. UNCHANGED <<brokerOrders, wire, sawKill, attempt, reply, snap>>
    BY DEF Claim, recVars
  <1>2. CASE sawKill[q] \/ Present(ledger[RequestId[q]])
    <2>1. pc' = [pc EXCEPT ![q] = "done"] /\ UNCHANGED ledger
      BY <1>2 DEF Claim
    <2>2. ClaimInv'
      BY <1>1, <2>1 DEF IInv, ClaimInv, Holds, TypeOK, Present
    <2>3. AttemptInv'
      BY <1>1, <2>1 DEF IInv, AttemptInv, TypeOK
    <2>4. OpenInv'
      BY <1>1, OpenStep
    <2>5. LagInv'
      BY <1>1, <2>1 DEF IInv, LagInv, Reaches, Present, Sent, LedgerNeverAhead, TerminalIsTrue
    <2>6. QED
      BY <2>2, <2>3, <2>4, <2>5 DEF IInv
  <1>3. CASE ~(sawKill[q] \/ Present(ledger[RequestId[q]]))
    <2>1. /\ pc' = [pc EXCEPT ![q] = "claimed"]
          /\ ledger' = [ledger EXCEPT ![RequestId[q]] = [status |-> "pending_submit", filled |-> 0]]
      BY <1>3 DEF Claim
    <2>2. \A p \in Requests : RequestId[p] = RequestId[q] => ~Holds(p)
      BY <1>3 DEF IInv, ClaimInv
    <2>3. ~Present(brokerOrders[RequestId[q]])
      BY <1>0, <2>2 DEF IInv, OpenInv, Sent, Holds
    <2>4. ClaimInv'
      <3>1. \A p \in Requests : Holds(p)' => Holds(p) \/ p = q
        BY <1>1, <2>1 DEF Holds, IInv, TypeOK
      <3>2. \A p \in Requests : RequestId[p] \in Rows
        BY ConstantsAssumption DEF Rows
      <3>3. QED
        BY <1>0, <2>1, <2>2, <3>1, <3>2 DEF IInv, ClaimInv, Present, TypeOK, Holds
    <2>5. AttemptInv'
      BY <1>1, <1>3, <2>1 DEF Claim, IInv, AttemptInv, TypeOK
    <2>6. OpenInv'
      BY <1>1, OpenStep
    <2>7. LagInv'
      <3>1. brokerOrders[RequestId[q]].filled >= 0
        BY <1>0, ConstantsAssumption DEF IInv, TypeOK, Orders, OrderState, Absent
      <3>2. "pending_submit" \notin Terminal
        BY DEF Terminal
      <3>3. \A l \in Legs : ledger'[l] = ledger[l]
        BY <1>0, <2>1
      <3>4. QED
        BY <1>0, <1>1, <2>1, <3>1, <3>2, <3>3
        DEF IInv, TypeOK, LagInv, Reaches, Present, Sent, LedgerNeverAhead, TerminalIsTrue
    <2>8. QED
      BY <2>4, <2>5, <2>6, <2>7 DEF IInv
  <1>4. QED
    BY <1>2, <1>3

LEMMA RiskRejectInv ==
  ASSUME IInv, TypeOK', NEW q \in Requests, RiskReject(q)
  PROVE  IInv'
  <1>0. RequestId[q] \in ClientIds /\ RequestId[q] \in Rows /\ RequestId[q] \notin Legs
    BY ConstantsAssumption DEF Rows
  <1>1. UNCHANGED <<brokerOrders, wire, sawKill, attempt, reply, snap>>
    BY DEF RiskReject, recVars
  <1>2. /\ pc[q] = "claimed"
        /\ pc' = [pc EXCEPT ![q] = "done"]
        /\ ledger' = [ledger EXCEPT ![RequestId[q]].status = "rejected"]
    BY DEF RiskReject
  <1>3. ~Sent(RequestId[q]) /\ ~Present(brokerOrders[RequestId[q]])
    BY <1>0, <1>2 DEF IInv, ClaimInv, AttemptInv, OpenInv, Holds, Sent
  <1>4. ClaimInv'
    <2>1. \A p \in Requests : Holds(p)' => Holds(p) /\ p # q
      BY <1>1, <1>2 DEF Holds, IInv, TypeOK, AttemptInv
    <2>2. \A p \in Requests : RequestId[p] \in Rows
      BY ConstantsAssumption DEF Rows
    <2>3. \A p \in Requests : Holds(p)' => ledger'[RequestId[p]] = ledger[RequestId[p]]
      BY <1>0, <1>2, <2>1, <2>2 DEF IInv, ClaimInv, Holds, TypeOK
    <2>4. QED
      BY <1>2, <2>1, <2>3 DEF IInv, ClaimInv, Present, TypeOK, Holds
  <1>5. AttemptInv'
    BY <1>1, <1>2 DEF IInv, AttemptInv, TypeOK
  <1>6. OpenInv'
    BY <1>1, OpenStep
  <1>7. LagInv'
    <2>1. \A l \in Legs : ledger'[l] = ledger[l]
      BY <1>0, <1>2
    <2>2. \A o \in Rows : ledger'[o].filled = ledger[o].filled
      BY <1>0, <1>2 DEF IInv, TypeOK, RowState, Absent
    <2>3. \A o \in Rows : o # RequestId[q] => ledger'[o] = ledger[o]
      BY <1>2
    <2>4. ledger'[RequestId[q]].status = "rejected"
      BY <1>0, <1>2 DEF IInv, TypeOK, RowState, Absent
    <2>5. LedgerNeverAhead' /\ TerminalIsTrue'
      BY <1>1, <1>3, <2>2, <2>3, <2>4 DEF IInv, LagInv, LedgerNeverAhead, TerminalIsTrue, Present, Sent
    <2>6. QED
      BY <1>1, <2>1, <2>5 DEF IInv, LagInv, Reaches, Present
  <1>8. QED
    BY <1>4, <1>5, <1>6, <1>7 DEF IInv

LEMMA SubmitInv ==
  ASSUME IInv, TypeOK', NEW q \in Requests, Submit(q) \/ RetryPost(q)
  PROVE  IInv'
  <1>1. UNCHANGED <<brokerOrders, ledger, sawKill, reply, snap>>
    BY DEF Submit, RetryPost, orderVars, recVars
  <1>2. /\ pc[q] \in {"claimed", "posting"}
        /\ pc' = [pc EXCEPT ![q] = "posting"]
        /\ \E n \in Nat \ {0} : attempt' = [attempt EXCEPT ![q] = n] /\ wire' = wire \union {<<q, n>>}
    <2>1. attempt[q] \in Nat
      BY ConstantsAssumption DEF IInv, TypeOK
    <2>2. CASE Submit(q)
      <3>1. 1 \in Nat \ {0} /\ pc[q] = "claimed" /\ pc' = [pc EXCEPT ![q] = "posting"]
        BY <2>2 DEF Submit
      <3>2. attempt' = [attempt EXCEPT ![q] = 1] /\ wire' = wire \union {<<q, 1>>}
        BY <2>2 DEF Submit
      <3>3. QED
        BY <3>1, <3>2
    <2>3. CASE RetryPost(q)
      <3>1. attempt[q] + 1 \in Nat \ {0}
        BY <2>1
      <3>2. pc' = [pc EXCEPT ![q] = "posting"] /\ pc[q] = "posting"
        BY <2>3 DEF RetryPost, IInv, TypeOK
      <3>3. attempt' = [attempt EXCEPT ![q] = attempt[q] + 1] /\ wire' = wire \union {<<q, attempt[q] + 1>>}
        BY <2>3 DEF RetryPost
      <3>4. QED
        BY <3>1, <3>2, <3>3
    <2>4. QED
      BY <2>2, <2>3
  <1>3. attempt'[q] > 0 /\ pc'[q] = "posting" /\ Holds(q)
    BY <1>2 DEF IInv, TypeOK, AttemptInv, Holds
  <1>4. \A p \in Requests : p # q => attempt'[p] = attempt[p] /\ pc'[p] = pc[p]
    BY <1>2 DEF IInv, TypeOK
  <1>5. ClaimInv'
    <2>1. \A p \in Requests : Holds(p)' => Holds(p)
      BY <1>3, <1>4 DEF Holds
    <2>2. QED
      BY <1>1, <1>3, <1>4, <2>1 DEF IInv, ClaimInv, Present
  <1>6. AttemptInv'
    <2>1. ~sawKill[q]
      BY <1>2 DEF IInv, AttemptInv, ClaimInv, Submit, RetryPost
    <2>2. \A w \in wire' : attempt'[w[1]] > 0
      <3>1. \A w \in wire : w[1] \in Requests
        BY DEF IInv, TypeOK
      <3>2. \A w \in wire' : w \in wire \/ w[1] = q
        BY <1>2
      <3>3. QED
        BY <1>3, <1>4, <3>1, <3>2 DEF IInv, AttemptInv
    <2>3. QED
      BY <1>1, <1>3, <1>4, <2>1, <2>2 DEF IInv, AttemptInv
  <1>7. OpenInv'
    BY <1>1, <1>3, <1>4, OpenStep
  <1>8. LagInv'
    <2>1. ledger[RequestId[q]].status \notin Terminal \/ attempt[q] > 0
      BY <1>2 DEF IInv, ClaimInv, AttemptInv, Terminal
    <2>2. \A o \in Rows : ledger[o].status \in Terminal => (Sent(o)' => Sent(o))
      BY <1>3, <1>4, <2>1 DEF Sent
    <2>3. TerminalIsTrue'
      BY <1>1, <2>2 DEF IInv, LagInv, TerminalIsTrue, Present
    <2>4. QED
      BY <1>1, <2>3 DEF IInv, LagInv, LedgerNeverAhead, Reaches, Present
  <1>9. QED
    BY <1>5, <1>6, <1>7, <1>8 DEF IInv

\* A call that holds its id writes its own row and is done: what is left to show is
\* that the row it writes is present and no further than the broker.
LEMMA RecordInv ==
  ASSUME IInv, TypeOK', NEW q \in Requests, NEW row \in RowState,
         Holds(q), Present(row), row.filled <= brokerOrders[RequestId[q]].filled,
         row.status \in Terminal => brokerOrders[RequestId[q]].status = row.status,
         pc' = [pc EXCEPT ![q] = "done"],
         ledger' = [ledger EXCEPT ![RequestId[q]] = row],
         UNCHANGED <<brokerOrders, wire, sawKill, attempt, reply, snap>>
  PROVE  IInv'
  <1>0. RequestId[q] \in ClientIds /\ RequestId[q] \in Rows /\ RequestId[q] \notin Legs
    BY ConstantsAssumption DEF Rows
  <1>1. \A p \in Requests : RequestId[p] \in Rows
    BY ConstantsAssumption DEF Rows
  <1>2. ledger'[RequestId[q]] = row /\ \A o \in Rows : o # RequestId[q] => ledger'[o] = ledger[o]
    BY <1>0 DEF IInv, TypeOK
  <1>3. ClaimInv'
    <2>1. \A p \in Requests : Holds(p)' => Holds(p)
      BY DEF Holds, IInv, TypeOK
    <2>2. \A p \in Requests : pc'[p] = "claimed" => pc[p] = "claimed" /\ p # q
      BY DEF IInv, TypeOK
    <2>3. \A p \in Requests : pc[p] = "claimed" /\ p # q => RequestId[p] # RequestId[q]
      BY DEF IInv, ClaimInv, Holds
    <2>4. QED
      BY <1>1, <1>2, <2>1, <2>2, <2>3 DEF IInv, ClaimInv, Present
  <1>4. AttemptInv'
    BY DEF IInv, AttemptInv, TypeOK
  <1>5. OpenInv'
    BY OpenStep
  <1>6. LedgerNeverAhead' /\ TerminalIsTrue'
    BY <1>2 DEF IInv, LagInv, LedgerNeverAhead, TerminalIsTrue, Present, Sent
  <1>7. LagInv'
    <2>1. \A l \in Legs : l \in Rows
      BY DEF Rows
    <2>2. \A l \in Legs : ledger'[l] = ledger[l]
      BY <1>0, <1>2, <2>1
    <2>3. QED
      BY <1>6, <2>2 DEF IInv, LagInv, Reaches, Present
  <1>8. QED
    BY <1>3, <1>4, <1>5, <1>7 DEF IInv

LEMMA RecordUnknownInv ==
  ASSUME IInv, TypeOK', NEW q \in Requests, RecordUnknown(q)
  PROVE  IInv'
  <1> DEFINE row == [ledger[RequestId[q]] EXCEPT !.status = "pending_unknown"]
  <1>0. RequestId[q] \in Rows
    BY ConstantsAssumption DEF Rows
  <1>1. ledger[RequestId[q]] \in RowState /\ "pending_unknown" \in LedgerStatus
    BY <1>0 DEF IInv, TypeOK, LedgerStatus
  <1>2. /\ row \in RowState
        /\ row.status = "pending_unknown" /\ row.filled = ledger[RequestId[q]].filled
    BY <1>1, StatusWrite
  <1>3. Present(row) /\ row.status \notin Terminal
    BY <1>2 DEF Present, Terminal
  <1>4. row.filled <= brokerOrders[RequestId[q]].filled
    BY <1>0, <1>2 DEF IInv, LagInv, LedgerNeverAhead
  <1>5. Holds(q)
    BY DEF RecordUnknown, Holds
  <1>6. pc' = [pc EXCEPT ![q] = "done"] /\ ledger' = [ledger EXCEPT ![RequestId[q]] = row]
    BY DEF RecordUnknown
  <1>7. UNCHANGED <<brokerOrders, wire, sawKill, attempt, reply, snap>>
    BY DEF RecordUnknown, recVars
  <1> HIDE DEF row
  <1>8. QED
    BY <1>2, <1>3, <1>4, <1>5, <1>6, <1>7, RecordInv

LEMMA RecordSubmissionInv ==
  ASSUME IInv, TypeOK', NEW q \in Requests, RecordSubmission(q)
  PROVE  IInv'
  <1> DEFINE i == RequestId[q]
             mine == [status |-> "submitted", filled |-> 0]
             duplicate == <<i, reply[q]>> \in events
             after == ApplyEvent(mine, duplicate, reply[q])
             row == IF after = mine THEN [ledger[i] EXCEPT !.status = "submitted"] ELSE after
  <1>0. i \in Rows /\ i \in Orders /\ Qty \in Nat
    BY ConstantsAssumption DEF Rows, Orders
  <1>1. mine \in RowState /\ reply[q] \in OrderState
    BY <1>0 DEF IInv, TypeOK, RowState, LedgerStatus
  <1>2. /\ brokerOrders[i].filled \in 0..Qty
        /\ ledger[i].filled \in 0..Qty
        /\ reply[q].filled \in 0..Qty
    BY <1>0, <1>1 DEF IInv, TypeOK, OrderState, RowState, Absent
  <1>3. \/ after = mine
        \/ /\ Present(reply[q]) /\ Present(after)
           /\ after.status = reply[q].status
           /\ after.filled = Larger(0, reply[q].filled)
    <2>1. mine.filled = 0
      OBVIOUS
    <2> HIDE DEF mine, duplicate
    <2>2. QED
      BY <1>1, <2>1, ApplyEventCases DEF after
  <1>4. row \in RowState
    <2>1. [ledger[i] EXCEPT !.status = "submitted"] \in RowState
      BY <1>0, StatusWrite DEF IInv, TypeOK, LedgerStatus
    <2>2. after \in RowState
      BY <1>1, ApplyEventType
    <2>3. QED
      BY <2>1, <2>2
  <1>5. CASE after = mine
    <2>1. row.status = "submitted" /\ row.filled = ledger[i].filled
      BY <1>0, <1>5 DEF IInv, TypeOK, RowState, Absent
    <2>2. QED
      BY <1>0, <1>4, <2>1, RecordInv DEF RecordSubmission, Present, Terminal, Holds, recVars,
                                         IInv, LagInv, LedgerNeverAhead
  <1>6. CASE after # mine
    <2>1. /\ Present(reply[q]) /\ Present(row)
          /\ row.status = reply[q].status
          /\ row.filled = reply[q].filled
      BY <1>2, <1>3, <1>6 DEF Larger
    <2>2. /\ row.filled <= brokerOrders[i].filled
          /\ row.status \in Terminal => brokerOrders[i].status = row.status
      BY <2>1 DEF IInv, LagInv, Reaches
    <2>3. /\ Holds(q) /\ pc' = [pc EXCEPT ![q] = "done"]
          /\ ledger' = [ledger EXCEPT ![i] = row]
          /\ UNCHANGED <<brokerOrders, wire, sawKill, attempt, reply, snap>>
      BY DEF RecordSubmission, Holds, recVars
    <2> HIDE DEF row
    <2>4. QED
      BY <1>4, <2>1, <2>2, <2>3, RecordInv
  <1>7. QED
    BY <1>5, <1>6

\* The broker moves on: no order it held goes back or disappears, and a terminal order
\* stays as it is.
LEMMA BrokerStep ==
  ASSUME IInv, TypeOK',
         \A o \in Orders :
            \/ brokerOrders'[o] = brokerOrders[o]
            \/ /\ brokerOrders[o].status \notin Terminal
               /\ Present(brokerOrders'[o])
               /\ brokerOrders[o].filled <= brokerOrders'[o].filled,
         UNCHANGED <<ledger, attempt, snap>>
  PROVE  /\ \A r \in Reconcilers, o \in Orders : Reaches(snap[r][o], brokerOrders'[o])
         /\ \A q \in Requests : Reaches(reply[q], brokerOrders'[RequestId[q]])
         /\ LedgerNeverAhead'
         /\ \A l \in Legs : ledger[l].status \in Terminal => brokerOrders'[l].status = ledger[l].status
  <1>0. Qty \in Nat
    BY ConstantsAssumption
  <1>1. ASSUME NEW state \in OrderState, NEW o \in Orders, Reaches(state, brokerOrders[o])
        PROVE  Reaches(state, brokerOrders'[o])
    <2>1. /\ state.filled \in 0..Qty /\ brokerOrders[o].filled \in 0..Qty
          /\ brokerOrders'[o].filled \in 0..Qty
      BY <1>0 DEF IInv, TypeOK, OrderState, Absent
    <2>2. QED
      BY <1>1, <2>1 DEF Reaches
  <1>2. \A q \in Requests : RequestId[q] \in Orders /\ reply[q] \in OrderState
    BY ConstantsAssumption DEF Orders, IInv, TypeOK
  <1>3. \A r \in Reconcilers, o \in Orders : snap[r][o] \in OrderState
    BY DEF IInv, TypeOK
  <1>4. LedgerNeverAhead'
    <2>1. ASSUME NEW o \in Rows PROVE ledger[o].filled <= brokerOrders'[o].filled
      <3>1. o \in Orders
        BY DEF Rows, Orders
      <3>2. /\ ledger[o].filled \in 0..Qty /\ brokerOrders[o].filled \in 0..Qty
            /\ brokerOrders'[o].filled \in 0..Qty
        BY <1>0, <3>1 DEF IInv, TypeOK, OrderState, RowState, Absent
      <3>3. QED
        BY <3>1, <3>2 DEF IInv, LagInv, LedgerNeverAhead
    <2>2. QED
      BY <2>1 DEF LedgerNeverAhead
  <1>5. \A l \in Legs : ledger[l].status \in Terminal => brokerOrders'[l].status = ledger[l].status
    BY DEF IInv, LagInv, Orders
  <1>6. QED
    BY <1>1, <1>2, <1>3, <1>4, <1>5 DEF IInv, LagInv

\* The orders only the broker moves: neither the gateway's calls nor its rows change.
LEMMA BrokerAloneInv ==
  ASSUME IInv, TypeOK',
         \A o \in Orders :
            \/ brokerOrders'[o] = brokerOrders[o]
            \/ /\ brokerOrders[o].status \notin Terminal
               /\ Present(brokerOrders'[o])
               /\ brokerOrders[o].filled <= brokerOrders'[o].filled
               /\ o \in Foreign \/ Present(brokerOrders[o]),
         UNCHANGED <<wire, ledger, pc, sawKill, attempt, reply, snap>>
  PROVE  IInv'
  <1>1. ClaimInv' /\ AttemptInv'
    BY DEF IInv, ClaimInv, AttemptInv, Holds, Present
  <1>2. \A o \in Rows : o \in Orders /\ o \notin Foreign
    BY ConstantsAssumption DEF Rows, Orders
  <1>3. \A o \in Rows : Present(brokerOrders'[o]) <=> Present(brokerOrders[o])
    BY <1>2
  <1>4. OpenInv'
    <2>1. \A l \in Legs : l \in Rows /\ Parent[l] \in Rows
      BY ConstantsAssumption DEF Rows
    <2>2. \A i \in ClientIds : i \in Rows
      BY DEF Rows
    <2>3. QED
      BY <1>3, <2>1, <2>2 DEF IInv, OpenInv, Sent, Present
  <1>5. TerminalIsTrue'
    BY <1>2, <1>3 DEF IInv, LagInv, TerminalIsTrue, Sent, Present
  <1>6. LagInv'
    BY <1>5, BrokerStep DEF LagInv, Reaches, Present
  <1>7. QED
    BY <1>1, <1>4, <1>6 DEF IInv

LEMMA MovesForward ==
  ASSUME NEW state \in OrderState, NEW after \in BrokerMoves(state)
  PROVE  /\ state.status \in Unfinished /\ state.status \notin Terminal
         /\ Present(state) /\ Present(after)
         /\ state.filled <= after.filled
  <1>0. Qty \in Nat \ {0} /\ state.filled \in 0..Qty
    BY ConstantsAssumption DEF OrderState, Absent
  <1>1. state.status \in Unfinished
    BY DEF BrokerMoves
  <1>2. Present(state) /\ state.status \notin Terminal
    BY <1>1 DEF Present, Unfinished, Working, Terminal
  <1>3. Present(after)
    BY MovesType DEF Present, BrokerStatus, Unfinished, Working, Terminal
  <1>4. state.filled <= after.filled
    BY <1>0 DEF BrokerMoves
  <1>5. QED
    BY <1>1, <1>2, <1>3, <1>4

LEMMA BrokerAcceptsInv ==
  ASSUME IInv, TypeOK', NEW q \in Requests, NEW n \in 1..MaxAttempts, BrokerAccepts(q, n)
  PROVE  IInv'
  <1> DEFINE i == RequestId[q]
  <1>0. Qty \in Nat /\ i \in ClientIds /\ i \in Orders
    BY ConstantsAssumption DEF Orders
  <1>1. UNCHANGED <<ledger, sawKill, attempt, snap>>
    BY DEF BrokerAccepts, orderVars, recVars, callVars
  <1>2. attempt[q] > 0 /\ Sent(i)
    BY DEF BrokerAccepts, IInv, AttemptInv, Sent
  <1>3. ASSUME NEW o \in Orders
        PROVE  \/ brokerOrders'[o] = brokerOrders[o]
               \/ /\ ~Present(brokerOrders[o]) /\ Present(brokerOrders'[o])
                  /\ brokerOrders[o].status \notin Terminal
                  /\ brokerOrders[o].filled <= brokerOrders'[o].filled
                  /\ ~Present(brokerOrders[i])
                  /\ o = i \/ (o \in Legs /\ Parent[o] = i)
    <2>1. CASE Present(brokerOrders[i])
      BY <2>1 DEF BrokerAccepts
    <2>2. CASE ~Present(brokerOrders[i]) /\ (o = i \/ (o \in Legs /\ Parent[o] = i))
      <3>1. ~Present(brokerOrders[o])
        BY <2>2 DEF IInv, OpenInv
      <3>2. brokerOrders[o].status \notin Terminal /\ brokerOrders[o].filled = 0
        BY <3>1 DEF IInv, TypeOK, OrderState, Absent, Present, Terminal, BrokerStatus,
                    Unfinished, Working
      <3>3. brokerOrders'[o] \in {[status |-> "accepted", filled |-> 0],
                                  [status |-> "held", filled |-> 0]}
        BY <2>2 DEF BrokerAccepts
      <3>4. Present(brokerOrders'[o]) /\ brokerOrders'[o].filled = 0
        BY <3>3 DEF Present
      <3>5. QED
        BY <2>2, <3>1, <3>2, <3>4
    <2>3. CASE ~Present(brokerOrders[i]) /\ ~(o = i \/ (o \in Legs /\ Parent[o] = i))
      BY <2>3 DEF BrokerAccepts
    <2>4. QED
      BY <2>1, <2>2, <2>3
  <1>4. Present(brokerOrders'[i])
    BY <1>0 DEF BrokerAccepts, Present
  <1>5. ASSUME Waiting(q, n)
        PROVE  /\ ClaimInv' /\ AttemptInv'
               /\ \A p \in Requests : reply'[p] = reply[p] \/ Reaches(reply'[p], brokerOrders'[RequestId[p]])
    <2>1. /\ pc[q] = "posting" /\ pc' = [pc EXCEPT ![q] = "answered"]
          /\ reply' = [reply EXCEPT ![q] = brokerOrders'[i]]
      BY <1>5 DEF BrokerAccepts, Waiting
    <2>2. \A p \in Requests : (Holds(p)' <=> Holds(p)) /\ (pc'[p] = "claimed" <=> pc[p] = "claimed")
      BY <1>1, <2>1 DEF Holds, IInv, TypeOK
    <2>3. ClaimInv'
      BY <1>1, <2>2 DEF IInv, ClaimInv, Present
    <2>4. AttemptInv'
      BY <1>1, <1>2, <2>1 DEF BrokerAccepts, IInv, AttemptInv, TypeOK
    <2>5. reply'[q] = brokerOrders'[i] /\ \A p \in Requests : p # q => reply'[p] = reply[p]
      BY <2>1 DEF IInv, TypeOK
    <2>6. Reaches(reply'[q], brokerOrders'[i])
      <3>1. brokerOrders'[i].filled \in 0..Qty
        BY <1>0 DEF TypeOK, OrderState, Absent
      <3>2. QED
        BY <1>0, <1>4, <2>5, <3>1 DEF Reaches
    <2>7. QED
      BY <2>3, <2>4, <2>5, <2>6
  <1>6. ASSUME ~Waiting(q, n)
        PROVE  /\ ClaimInv' /\ AttemptInv'
               /\ \A p \in Requests : reply'[p] = reply[p] \/ Reaches(reply'[p], brokerOrders'[RequestId[p]])
    <2>1. UNCHANGED <<pc, reply>>
      BY <1>6 DEF BrokerAccepts
    <2>2. ClaimInv'
      BY <1>1, <2>1 DEF IInv, ClaimInv, Present, Holds
    <2>3. AttemptInv'
      BY <1>1, <2>1 DEF BrokerAccepts, IInv, AttemptInv
    <2>4. QED
      BY <2>1, <2>2, <2>3
  <1>7. OpenInv'
    <2>1. \A j \in ClientIds : j \in Orders /\ j \notin Legs
      BY ConstantsAssumption DEF Orders
    <2>2. \A j \in ClientIds : Present(brokerOrders'[j]) => Sent(j)
      BY <1>2, <1>3, <2>1 DEF IInv, OpenInv
    <2>3. \A l \in Legs : Present(brokerOrders'[l]) => Present(brokerOrders'[Parent[l]])
      <3>1. ASSUME NEW l \in Legs, Present(brokerOrders'[l])
            PROVE  Present(brokerOrders'[Parent[l]])
        <4>1. l \in Orders /\ Parent[l] \in Orders
          BY ConstantsAssumption DEF Orders
        <4>2. CASE Parent[l] = i
          BY <1>4, <4>2
        <4>3. CASE Parent[l] # i
          <5>1. l # i
            BY <2>1, <1>0
          <5>2. Present(brokerOrders[l])
            BY <1>3, <3>1, <4>1, <4>3, <5>1
          <5>3. QED
            BY <1>3, <4>1, <5>2 DEF IInv, OpenInv
        <4>4. QED
          BY <4>2, <4>3
      <3>2. QED
        BY <3>1
    <2>4. QED
      BY <1>1, <2>2, <2>3 DEF OpenInv, Sent, Present
  <1>8. LagInv'
    <2>1. /\ \A r \in Reconcilers, o \in Orders : Reaches(snap[r][o], brokerOrders'[o])
          /\ \A p \in Requests : Reaches(reply[p], brokerOrders'[RequestId[p]])
          /\ LedgerNeverAhead'
          /\ \A l \in Legs : ledger[l].status \in Terminal => brokerOrders'[l].status = ledger[l].status
      BY <1>1, <1>3, BrokerStep
    <2>2. \A p \in Requests : Reaches(reply'[p], brokerOrders'[RequestId[p]])
      BY <1>5, <1>6, <2>1 DEF IInv, TypeOK
    <2>3. TerminalIsTrue'
      <3>1. ASSUME NEW o \in Rows, ledger[o].status \in Terminal
            PROVE  \/ brokerOrders'[o].status = ledger[o].status
                   \/ ledger[o].status = "rejected" /\ ~Present(brokerOrders'[o]) /\ ~Sent(o)
        <4>1. o \in Orders
          BY DEF Rows, Orders
        <4>2. CASE o \in Legs
          BY <2>1, <3>1, <4>2
        <4>3. CASE o \in ClientIds
          <5>1. brokerOrders'[o] = brokerOrders[o] \/ o = i
            BY <1>3, <4>1, <4>3, ConstantsAssumption
          <5>2. CASE brokerOrders'[o] = brokerOrders[o]
            BY <3>1, <5>2 DEF IInv, LagInv, TerminalIsTrue
          <5>3. CASE o = i /\ brokerOrders'[o] # brokerOrders[o]
            <6>1. ~Present(brokerOrders[o]) /\ Sent(o)
              BY <1>2, <1>3, <4>1, <5>3
            <6>2. brokerOrders[o].status = ledger[o].status
              BY <3>1, <6>1 DEF IInv, LagInv, TerminalIsTrue
            <6>3. QED
              BY <3>1, <6>1, <6>2 DEF Present, Terminal
          <5>4. QED
            BY <5>1, <5>2, <5>3
        <4>4. QED
          BY <4>2, <4>3 DEF Rows
      <3>2. QED
        BY <1>1, <3>1 DEF TerminalIsTrue, Sent, Present
    <2>4. QED
      BY <1>1, <2>1, <2>2, <2>3 DEF LagInv, Reaches, Present
  <1>9. QED
    BY <1>5, <1>6, <1>7, <1>8 DEF IInv

LEMMA BrokerInv ==
  ASSUME IInv, TypeOK', Broker
  PROVE  IInv'
  <1>1. ASSUME NEW q \in Requests, NEW n \in 1..MaxAttempts, BrokerRefuses(q, n)
        PROVE  IInv'
    <2>1. UNCHANGED <<brokerOrders, ledger, sawKill, attempt, reply, snap>> /\ wire' \subseteq wire
      BY <1>1 DEF BrokerRefuses, orderVars, recVars
    <2>2. \A p \in Requests :
            \/ pc'[p] = pc[p]
            \/ pc[p] = "posting" /\ pc'[p] = "refused"
      <3>1. pc \in [Requests -> {"new", "context", "claimed", "posting", "answered", "refused", "done"}]
        BY DEF IInv, TypeOK
      <3>2. \/ pc' = pc
            \/ pc[q] = "posting" /\ pc' = [pc EXCEPT ![q] = "refused"]
        BY <1>1 DEF BrokerRefuses, Waiting
      <3>3. QED
        BY <3>1, <3>2
    <2>3. \A p \in Requests : Holds(p)' <=> Holds(p)
      BY <2>1, <2>2 DEF Holds
    <2>4. ClaimInv'
      BY <2>1, <2>2, <2>3 DEF IInv, ClaimInv, Present
    <2>5. AttemptInv'
      BY <2>1, <2>2 DEF IInv, AttemptInv
    <2>6. OpenInv' /\ LagInv'
      BY <2>1 DEF IInv, OpenInv, LagInv, LedgerNeverAhead, TerminalIsTrue, Reaches, Present, Sent
    <2>7. QED
      BY <2>4, <2>5, <2>6 DEF IInv
  <1>2. ASSUME NEW o \in Orders, BrokerUpdates(o)
        PROVE  IInv'
    <2>1. PICK state \in BrokerMoves(brokerOrders[o]) :
            brokerOrders' = [brokerOrders EXCEPT ![o] = state]
      BY <1>2 DEF BrokerUpdates
    <2>2. /\ brokerOrders[o].status \notin Terminal
          /\ Present(brokerOrders[o]) /\ Present(state)
          /\ brokerOrders[o].filled <= state.filled
      BY MovesForward DEF IInv, TypeOK
    <2>3. \A p \in Orders : brokerOrders'[p] = IF p = o THEN state ELSE brokerOrders[p]
      BY <2>1 DEF IInv, TypeOK
    <2>4. UNCHANGED <<wire, ledger, pc, sawKill, attempt, reply, snap>>
      BY <1>2 DEF BrokerUpdates, orderVars, callVars, recVars
    <2>5. QED
      BY <2>2, <2>3, <2>4, BrokerAloneInv
  <1>3. ASSUME NEW f \in Foreign, ForeignOrder(f)
        PROVE  IInv'
    <2>1. /\ brokerOrders' = [brokerOrders EXCEPT ![f] = [status |-> "accepted", filled |-> 0]]
          /\ ~Present(brokerOrders[f])
          /\ UNCHANGED <<wire, ledger, pc, sawKill, attempt, reply, snap>>
      BY <1>3 DEF ForeignOrder, orderVars, callVars, recVars
    <2>2. brokerOrders[f].status \notin Terminal /\ brokerOrders[f].filled = 0
      BY <2>1 DEF IInv, TypeOK, Orders, OrderState, Absent, Present, Terminal, BrokerStatus,
                  Unfinished, Working
    <2>3. \A p \in Orders : p # f => brokerOrders'[p] = brokerOrders[p]
      BY <2>1 DEF IInv, TypeOK
    <2>4. Present(brokerOrders'[f]) /\ brokerOrders'[f].filled = 0
      BY <2>1 DEF IInv, TypeOK, Orders, Present
    <2>5. QED
      BY <2>1, <2>2, <2>3, <2>4, BrokerAloneInv
  <1>4. QED
    BY <1>1, <1>2, <1>3, BrokerAcceptsInv DEF Broker

LEMMA SnapshotInv ==
  ASSUME IInv, TypeOK', NEW r \in Reconcilers, FetchSnapshot(r) \/ ReconcileFails(r)
  PROVE  IInv'
  <1>1. /\ UNCHANGED <<brokerOrders, wire, ledger, pc, sawKill, attempt, reply>>
        /\ \/ snap' = [snap EXCEPT ![r] = brokerOrders]
           \/ snap' = [snap EXCEPT ![r] = [o \in Orders |-> Absent]]
    BY DEF FetchSnapshot, ReconcileFails, orderVars, callVars
  <1>2. ClaimInv' /\ AttemptInv' /\ OpenInv'
    BY <1>1 DEF IInv, ClaimInv, AttemptInv, OpenInv, Holds, Present, Sent
  <1>3. ASSUME NEW s \in Reconcilers, NEW o \in Orders
        PROVE  Reaches(snap'[s][o], brokerOrders[o])
    <2>1. snap'[s][o] \in {snap[s][o], brokerOrders[o], Absent}
      BY <1>1 DEF IInv, TypeOK
    <2>2. Reaches(Absent, brokerOrders[o])
      BY DEF Reaches, Absent, Present
    <2>3. Reaches(brokerOrders[o], brokerOrders[o])
      <3>1. brokerOrders[o].filled \in 0..Qty /\ Qty \in Nat /\ brokerOrders[o] \in OrderState
        BY ConstantsAssumption DEF IInv, TypeOK, OrderState, Absent
      <3>2. ~Present(brokerOrders[o]) => brokerOrders[o].filled = 0
        BY <3>1 DEF OrderState, Absent, Present, BrokerStatus, Unfinished, Working, Terminal
      <3>3. QED
        BY <3>1, <3>2 DEF Reaches
    <2>4. QED
      BY <2>1, <2>2, <2>3 DEF IInv, LagInv
  <1>4. LagInv'
    BY <1>1, <1>3 DEF IInv, LagInv, LedgerNeverAhead, TerminalIsTrue, Reaches, Present, Sent
  <1>5. QED
    BY <1>2, <1>4 DEF IInv

\* What a commit does to one row: nothing, or it takes over what the snapshot says.
LEMMA CommitRow ==
  ASSUME IInv, NEW r \in Reconcilers, CommitReconcile(r), NEW o \in Rows
  PROVE  \/ ledger'[o] = ledger[o]
         \/ /\ o \in Legs /\ ~Present(ledger[o]) /\ Present(snap[r][o])
            /\ ledger'[o] = [status |-> "submitted", filled |-> 0]
         \/ /\ Present(snap[r][o]) /\ Present(ledger'[o])
            /\ ledger'[o].status = snap[r][o].status
            /\ ledger'[o].filled = Larger(RowFor(o).filled, snap[r][o].filled)
            /\ Progresses(RowFor(o), snap[r][o])
            /\ o \in ClientIds => Present(ledger[o])
  <1> DEFINE duplicate == <<o, snap[r][o]>> \in events
  <1>0. o \in Orders
    BY DEF Rows, Orders
  <1>1. ledger'[o] = IF o \in Owned(snap[r]) THEN ApplyEvent(RowFor(o), duplicate, snap[r][o])
                                             ELSE ledger[o]
    BY DEF CommitReconcile
  <1>2. CASE o \notin Owned(snap[r])
    BY <1>1, <1>2
  <1>3. CASE o \in Owned(snap[r])
    <2>1. RowFor(o) \in RowState /\ snap[r][o] \in OrderState
      BY <1>0, ConstantsAssumption DEF IInv, TypeOK, RowFor, RowState, LedgerStatus
    <2>2. Present(snap[r][o]) /\ (o \in ClientIds => Present(ledger[o]))
      BY <1>3, ConstantsAssumption DEF Owned, Rows
    <2>3. \/ RowFor(o) = ledger[o]
          \/ o \in Legs /\ ~Present(ledger[o]) /\ RowFor(o) = [status |-> "submitted", filled |-> 0]
      BY DEF RowFor
    <2> HIDE DEF duplicate
    <2>4. QED
      BY <1>1, <1>3, <2>1, <2>2, <2>3, ApplyEventCases
  <1>4. QED
    BY <1>2, <1>3

LEMMA CommitInv ==
  ASSUME IInv, TypeOK', NEW r \in Reconcilers, CommitReconcile(r)
  PROVE  IInv'
  <1>0. Qty \in Nat /\ (\A o \in Rows : o \in Orders)
    BY ConstantsAssumption DEF Rows, Orders
  <1>1. UNCHANGED <<brokerOrders, wire, pc, sawKill, attempt, reply>>
    BY DEF CommitReconcile, callVars
  <1>2. ASSUME NEW o \in Rows
        PROVE  /\ ledger[o].filled \in 0..Qty /\ snap[r][o].filled \in 0..Qty
               /\ brokerOrders[o].filled \in 0..Qty
               /\ RowFor(o).filled \in {0, ledger[o].filled}
    BY <1>0 DEF IInv, TypeOK, RowState, OrderState, Absent, RowFor
  <1>3. ASSUME NEW o \in Rows
        PROVE  /\ Present(ledger[o]) => Present(ledger'[o])
               /\ ledger'[o].filled <= brokerOrders[o].filled
               /\ \/ ledger'[o] = ledger[o]
                  \/ ledger'[o].status \notin Terminal
                  \/ ledger'[o].status = brokerOrders[o].status
    <2>1. Reaches(snap[r][o], brokerOrders[o]) /\ ledger[o].filled <= brokerOrders[o].filled
      BY <1>0 DEF IInv, LagInv, LedgerNeverAhead
    <2>2. CASE ledger'[o] = ledger[o]
      BY <2>1, <2>2
    <2>3. CASE ledger'[o] = [status |-> "submitted", filled |-> 0]
      BY <1>2, <2>3 DEF Present, Terminal
    <2>4. CASE /\ Present(snap[r][o]) /\ Present(ledger'[o])
               /\ ledger'[o].status = snap[r][o].status
               /\ ledger'[o].filled = Larger(RowFor(o).filled, snap[r][o].filled)
      BY <1>2, <2>1, <2>4 DEF Larger, Reaches
    <2>5. QED
      BY <2>2, <2>3, <2>4, CommitRow
  <1>4. ClaimInv'
    <2>1. \A q \in Requests : RequestId[q] \in ClientIds /\ RequestId[q] \in Rows /\ RequestId[q] \notin Legs
      BY ConstantsAssumption DEF Rows
    <2>2. ASSUME NEW q \in Requests, pc[q] = "claimed"
          PROVE  ledger'[RequestId[q]] = ledger[RequestId[q]]
      <3>1. ~Present(brokerOrders[RequestId[q]])
        BY <2>1, <2>2 DEF IInv, OpenInv, ClaimInv, AttemptInv, Holds, Sent
      <3>2. ~Present(snap[r][RequestId[q]])
        BY <1>0, <2>1, <3>1 DEF IInv, LagInv, Reaches
      <3>3. QED
        BY <2>1, <3>2, CommitRow
    <2>3. QED
      BY <1>1, <1>3, <2>1, <2>2 DEF IInv, ClaimInv, Holds, Present
  <1>5. AttemptInv' /\ OpenInv'
    BY <1>1 DEF IInv, AttemptInv, OpenInv, Sent, Present
  <1>6. LedgerNeverAhead' /\ TerminalIsTrue'
    BY <1>1, <1>3 DEF IInv, LagInv, LedgerNeverAhead, TerminalIsTrue, Present, Sent
  <1>7. \A l \in Legs : ledger'[l].status \in Terminal => brokerOrders'[l].status = ledger'[l].status
    <2>1. \A l \in Legs : l \in Rows
      BY DEF Rows
    <2>2. QED
      BY <1>1, <1>3, <2>1 DEF IInv, LagInv
  <1>8. \A s \in Reconcilers, o \in Orders : Reaches(snap'[s][o], brokerOrders[o])
    <2>1. snap' = [snap EXCEPT ![r] = [o \in Orders |-> Absent]]
      BY DEF CommitReconcile
    <2>2. \A s \in Reconcilers, o \in Orders : snap'[s][o] \in {snap[s][o], Absent}
      BY <2>1 DEF IInv, TypeOK
    <2>3. \A o \in Orders : Reaches(Absent, brokerOrders[o])
      BY DEF Reaches, Absent, Present
    <2>4. QED
      BY <2>2, <2>3 DEF IInv, LagInv
  <1>9. LagInv'
    BY <1>1, <1>6, <1>7, <1>8 DEF IInv, LagInv, Reaches, Present
  <1>10. QED
    BY <1>4, <1>5, <1>9 DEF IInv

LEMMA ConnectionInv ==
  ASSUME IInv, TypeOK', Connection
  PROVE  IInv'
  <1>1. CASE CancelAll
    <2>1. UNCHANGED <<wire, ledger, pc, sawKill, attempt, reply, snap>>
      BY <1>1 DEF CancelAll, orderVars, callVars, recVars
    <2>2. ASSUME NEW o \in Orders
          PROVE  \/ brokerOrders'[o] = brokerOrders[o]
                 \/ /\ brokerOrders[o].status \notin Terminal
                    /\ Present(brokerOrders[o]) /\ Present(brokerOrders'[o])
                    /\ brokerOrders[o].filled <= brokerOrders'[o].filled
      <3>1. CASE brokerOrders[o].status \in Unfinished
        <4>1. /\ brokerOrders[o] \in [status: BrokerStatus, filled: 0..Qty] /\ Qty \in Nat
              /\ brokerOrders[o].status \notin Terminal /\ Present(brokerOrders[o])
          BY <3>1, ConstantsAssumption
          DEF IInv, TypeOK, OrderState, Absent, Unfinished, Working, Terminal, Present
        <4>2. \/ brokerOrders'[o] = brokerOrders[o]
              \/ brokerOrders'[o] = [brokerOrders[o] EXCEPT !.status = "pending_cancel"]
          BY <1>1 DEF CancelAll
        <4>3. QED
          BY <4>1, <4>2 DEF Present
      <3>2. CASE brokerOrders[o].status \notin Unfinished
        BY <1>1, <3>2 DEF CancelAll
      <3>3. QED
        BY <3>1, <3>2
    <2>3. QED
      BY <2>1, <2>2, BrokerAloneInv
  <1>2. CASE Flatten
    <2>1. UNCHANGED <<wire, ledger, pc, sawKill, attempt, reply, snap>>
      BY <1>2 DEF Flatten, orderVars, callVars, recVars
    <2>2. CASE UNCHANGED brokerOrders
      BY <2>1, <2>2, BrokerAloneInv
    <2>3. ASSUME NEW f \in Foreign, ~Present(brokerOrders[f]),
                 brokerOrders' = [brokerOrders EXCEPT ![f] = [status |-> "accepted", filled |-> 0]]
          PROVE  IInv'
      <3>1. brokerOrders[f].status \notin Terminal /\ brokerOrders[f].filled = 0
        BY <2>3 DEF IInv, TypeOK, Orders, OrderState, Absent, Present, Terminal, BrokerStatus,
                    Unfinished, Working
      <3>2. \A p \in Orders : p # f => brokerOrders'[p] = brokerOrders[p]
        BY <2>3 DEF IInv, TypeOK
      <3>3. Present(brokerOrders'[f]) /\ brokerOrders'[f].filled = 0
        BY <2>3 DEF IInv, TypeOK, Orders, Present
      <3>4. QED
        BY <2>1, <3>1, <3>2, <3>3, BrokerAloneInv
    <2>4. QED
      BY <1>2, <2>2, <2>3 DEF Flatten
  <1>3. CASE \/ \E mode \in {"drill", "incident"} : EngageKillSwitch(mode)
             \/ ResetKillSwitch \/ Reauthenticate \/ Reconnect \/ ReconciliationAges
    BY <1>3, QuietStep
    DEF EngageKillSwitch, ResetKillSwitch, Reauthenticate, Reconnect, ReconciliationAges
  <1>4. QED
    BY <1>1, <1>2, <1>3 DEF Connection

LEMMA CrashInv ==
  ASSUME IInv, TypeOK', Crash
  PROVE  IInv'
  <1>1. /\ UNCHANGED <<brokerOrders, wire, ledger, sawKill, attempt, reply>>
        /\ snap' = [r \in Reconcilers |-> [o \in Orders |-> Absent]]
        /\ \A q \in Requests : pc'[q] = IF pc[q] = "new" THEN "new" ELSE "done"
    BY DEF Crash, orderVars
  <1>2. ClaimInv' /\ AttemptInv' /\ OpenInv'
    BY <1>1 DEF IInv, ClaimInv, AttemptInv, OpenInv, Holds, Present, Sent
  <1>3. \A r \in Reconcilers, o \in Orders : Reaches(snap'[r][o], brokerOrders[o])
    BY <1>1 DEF Reaches, Absent, Present
  <1>4. LagInv'
    BY <1>1, <1>3 DEF IInv, LagInv, LedgerNeverAhead, TerminalIsTrue, Reaches, Present, Sent
  <1>5. QED
    BY <1>2, <1>4 DEF IInv

LEMMA NextIInv == IInv /\ [Next]_vars => IInv'
  <1> SUFFICES ASSUME IInv, [Next]_vars PROVE IInv'
    OBVIOUS
  <1>1. TypeOK'
    BY NextType DEF IInv
  <1>2. CASE UNCHANGED vars
    BY <1>1, <1>2, QuietStep DEF vars
  <1>3. ASSUME NEW q \in Requests, Call(q)
        PROVE  IInv'
    BY <1>1, <1>3, ReadContextInv, ClaimKeepsInv, RiskRejectInv, SubmitInv, RecordUnknownInv,
       RecordSubmissionInv DEF Call
  <1>4. ASSUME NEW r \in Reconcilers, Reconcile(r)
        PROVE  IInv'
    BY <1>1, <1>4, SnapshotInv, CommitInv DEF Reconcile
  <1>5. QED
    BY <1>1, <1>2, <1>3, <1>4, BrokerInv, CrashInv, ConnectionInv DEF Next, LedgerNext

LEMMA InvariantHolds == Spec => []IInv
  BY InitIInv, NextIInv, PTL DEF Spec

-----------------------------------------------------------------------------
(***************************************************************************)
(* The safety properties of OrderLedger.                                   *)
(***************************************************************************)

\* What was sent, or is held by the broker, has its ledger row.
THEOREM Durable == Spec => []DurableBeforeSubmit
  <1>1. IInv => DurableBeforeSubmit
    BY DEF IInv, ClaimInv, OpenInv, Holds, Sent, DurableBeforeSubmit
  <1>2. QED
    BY <1>1, InvariantHolds, PTL

\* No two calls submit the same client order id.
THEOREM OneSubmission == Spec => []SubmittedOnce
  <1>1. IInv => SubmittedOnce
    BY DEF IInv, ClaimInv, Holds, SubmittedOnce
  <1>2. QED
    BY <1>1, InvariantHolds, PTL

\* No fill is recorded that the broker has not made.
THEOREM FillsAreReal == Spec => []LedgerNeverAhead
  <1>1. IInv => LedgerNeverAhead
    BY DEF IInv, LagInv
  <1>2. QED
    BY <1>1, InvariantHolds, PTL

\* A terminal row is the broker's terminal order, or an order never sent.
THEOREM TerminalRowsAreTrue == Spec => []TerminalIsTrue
  <1>1. IInv => TerminalIsTrue
    BY DEF IInv, LagInv
  <1>2. QED
    BY <1>1, InvariantHolds, PTL

\* Reconciliation finds no orphan among the gateway's own orders.
THEOREM OrphansAreForeign == Spec => []OrphanIsForeign
  <1>1. IInv => OrphanIsForeign
    <2> SUFFICES ASSUME IInv, NEW r \in Reconcilers, NEW i \in ClientIds, Present(snap[r][i])
                 PROVE  Present(ledger[i])
      BY DEF OrphanIsForeign, Orphans
    <2>1. Present(brokerOrders[i])
      BY DEF IInv, LagInv, Reaches, Orders
    <2>2. QED
      BY <2>1 DEF IInv, ClaimInv, OpenInv, Holds, Sent
  <1>2. QED
    BY <1>1, InvariantHolds, PTL

\* A call that saw the kill switch on sends nothing.
THEOREM SeenSwitchStops == Spec => []SawKillNeverSends
  <1>1. IInv => SawKillNeverSends
    BY DEF IInv, AttemptInv, SawKillNeverSends
  <1>2. QED
    BY <1>1, InvariantHolds, PTL

LEMMA CommitForward ==
  ASSUME IInv, NEW r \in Reconcilers, CommitReconcile(r), NEW o \in Rows
  PROVE  \/ ledger'[o] = ledger[o]
         \/ ledger'[o].filled > ledger[o].filled
         \/ /\ ledger'[o].filled = ledger[o].filled
            /\ Rank(ledger'[o].status) >= Rank(ledger[o].status)
                /\ Rank(ledger'[o].status) >= Rank(ledger[o].status)
  <1>0. o \in Orders /\ Qty \in Nat
    BY ConstantsAssumption DEF Rows, Orders
  <1>1. ledger[o].filled \in 0..Qty /\ snap[r][o].filled \in 0..Qty
    BY <1>0 DEF IInv, TypeOK, RowState, OrderState, Absent
  <1>2. ~Present(ledger[o]) => ledger[o].filled = 0 /\ Rank(ledger[o].status) = 0
    BY AbsentRank DEF IInv, TypeOK, RowState, Absent, Present, LedgerStatus, BrokerStatus,
                      Unfinished, Working, Terminal
  <1>3. RowFor(o) = ledger[o] \/ (~Present(ledger[o]) /\ RowFor(o).filled = 0)
    BY DEF RowFor
  <1>4. CASE ledger'[o] = ledger[o]
    BY <1>4
  <1>5. CASE ~Present(ledger[o]) /\ ledger'[o] = [status |-> "submitted", filled |-> 0]
    BY <1>2, <1>5, RankType
  <1>6. CASE /\ ledger'[o].status = snap[r][o].status
             /\ ledger'[o].filled = Larger(RowFor(o).filled, snap[r][o].filled)
             /\ Progresses(RowFor(o), snap[r][o])
    <2>1. RowFor(o).filled = ledger[o].filled
      BY <1>2, <1>3
    <2>2. CASE snap[r][o].filled > ledger[o].filled
      BY <1>1, <1>6, <2>1, <2>2 DEF Larger
    <2>3. CASE ~(snap[r][o].filled > ledger[o].filled)
      <3>1. ledger'[o].filled = ledger[o].filled
        BY <1>1, <1>6, <2>1, <2>3 DEF Larger
      <3>2. Rank(ledger'[o].status) > Rank(RowFor(o).status)
        BY <1>6, <2>1, <2>3 DEF Progresses
      <3>3. Rank(ledger'[o].status) >= Rank(ledger[o].status)
        BY <1>2, <1>3, <3>2, RankType
      <3>4. QED
        BY <3>1, <3>3
    <2>4. QED
      BY <2>2, <2>3
  <1>7. QED
    BY <1>4, <1>5, <1>6, CommitRow

\* A commit of a stale snapshot takes back neither a fill nor, without one, a status.
THEOREM NoRegress == Spec => ReconcileNeverRegresses
  <1> DEFINE Forward(r) ==
        rec[r] = "fetched" /\ rec'[r] = "idle" =>
          \A o \in Rows :
             \/ ledger'[o] = ledger[o]
             \/ ledger'[o].filled > ledger[o].filled
             \/ /\ ledger'[o].filled = ledger[o].filled
                /\ Rank(ledger'[o].status) >= Rank(ledger[o].status)
  <1>2. IInv /\ [Next]_vars => [\A r \in Reconcilers : Forward(r)]_vars
    <2> SUFFICES ASSUME IInv, [Next]_vars, NEW r \in Reconcilers, rec[r] = "fetched", rec'[r] = "idle"
                 PROVE  Forward(r)
      BY DEF Forward
    <2>1. CASE UNCHANGED ledger
      BY <2>1
    <2>2. CASE CommitReconcile(r)
      BY <2>2, CommitForward
    <2>3. CASE \E q \in Requests : Call(q)
      <3>1. rec' = rec
        BY <2>3 DEF Call, ReadContext, Claim, RiskReject, Submit, RetryPost, RecordUnknown,
                    RecordSubmission, recVars
      <3>2. QED
        BY <3>1
    <2>4. CASE Broker \/ Connection \/ Crash \/ UNCHANGED vars
      <3>1. UNCHANGED ledger
        BY <2>4 DEF Broker, Connection, Crash, vars, orderVars, BrokerAccepts, BrokerRefuses,
                    BrokerUpdates, ForeignOrder, EngageKillSwitch, CancelAll, Flatten,
                    ResetKillSwitch, Reauthenticate, Reconnect, ReconciliationAges
      <3>2. QED
        BY <2>1, <3>1
    <2>5. CASE \E s \in Reconcilers : Reconcile(s)
      <3>1. PICK s \in Reconcilers : Reconcile(s)
        BY <2>5
      <3>2. CASE FetchSnapshot(s) \/ ReconcileFails(s)
        BY <2>1, <3>2 DEF FetchSnapshot, ReconcileFails, orderVars
      <3>3. CASE CommitReconcile(s)
        <4>1. s = r
          BY <3>3 DEF CommitReconcile, IInv, TypeOK
        <4>2. QED
          BY <2>2, <3>3, <4>1
      <3>4. QED
        BY <3>1, <3>2, <3>3 DEF Reconcile
    <2>6. QED
      BY <2>3, <2>4, <2>5 DEF Next, LedgerNext
  <1>3. QED
    BY <1>2, InvariantHolds, PTL DEF Spec, ReconcileNeverRegresses

-----------------------------------------------------------------------------
(***************************************************************************)
(* The gateway implements SubmissionProtocol.                              *)
(***************************************************************************)

\* Some call has recorded the id and has not gone on.
Claimed(i) == \E q \in Requests : RequestId[q] = i /\ pc[q] = "claimed"

\* The concrete reading of the protocol's phases.
PhaseReading ==
    \A i \in ClientIds :
       /\ Phase(i) \in {"unused", "sent", "recorded", "closed"}
       /\ Phase(i) = "unused" <=> ~Present(ledger[i])
       /\ Phase(i) = "sent" <=> Sent(i)
       /\ Phase(i) = "recorded" <=> Claimed(i)

\* What the protocol knows of an id, besides what the broker holds, does not change.
Unmoved(i) ==
    /\ Present(ledger[i])' <=> Present(ledger[i])
    /\ Sent(i)' <=> Sent(i)
    /\ Claimed(i)' <=> Claimed(i)

LEMMA PhaseCases == IInv => PhaseReading
  <1> SUFFICES ASSUME IInv, NEW i \in ClientIds
               PROVE  /\ Phase(i) \in {"unused", "sent", "recorded", "closed"}
                      /\ Phase(i) = "unused" <=> ~Present(ledger[i])
                      /\ Phase(i) = "sent" <=> Sent(i)
                      /\ Phase(i) = "recorded" <=> Claimed(i)
    BY DEF PhaseReading
  <1>1. Sent(i) => Present(ledger[i])
    BY DEF IInv, ClaimInv, Holds, Sent
  <1>2. Claimed(i) => Present(ledger[i]) /\ ~Sent(i)
    BY DEF Claimed, IInv, ClaimInv, AttemptInv, Holds, Sent
  <1>3. CASE ~Present(ledger[i])
    BY <1>1, <1>2, <1>3 DEF Phase
  <1>4. CASE Present(ledger[i]) /\ Sent(i)
    BY <1>2, <1>4 DEF Phase
  <1>5. CASE Present(ledger[i]) /\ ~Sent(i)
    BY <1>5 DEF Phase, Claimed
  <1>6. QED
    BY <1>3, <1>4, <1>5

\* Nothing the protocol speaks of changes.
LEMMA Stutters ==
  ASSUME PhaseReading, PhaseReading',
         \A i \in ClientIds : Unmoved(i),
         \A i \in ClientIds : Present(brokerOrders[i])' <=> Present(brokerOrders[i])
  PROVE  UNCHANGED Protocol!vars
  <1>1. \A i \in ClientIds : Phase(i)' = Phase(i)
    BY DEF PhaseReading, Unmoved
  <1>2. QED
    BY <1>1 DEF Protocol!vars

\* One id moves from one phase to another.
LEMMA MovesPhase ==
  ASSUME NEW i \in ClientIds, NEW from, NEW to, PhaseReading, PhaseReading',
         Phase(i) = from, Phase(i)' = to,
         \A j \in ClientIds : j # i => Unmoved(j),
         UNCHANGED brokerOrders
  PROVE  Protocol!Move(i, from, to)
  <1>1. \A j \in ClientIds : j # i => Phase(j)' = Phase(j)
    BY DEF PhaseReading, Unmoved
  <1>2. {j \in ClientIds : Present(brokerOrders[j])}' = {j \in ClientIds : Present(brokerOrders[j])}
    BY DEF Present
  <1> DEFINE before == [j \in ClientIds |-> Phase(j)]
             after == [j \in ClientIds |-> Phase(j)']
  <1>3. before[i] = from /\ after = [before EXCEPT ![i] = to]
    <2>1. \A j \in ClientIds : after[j] = [before EXCEPT ![i] = to][j]
      BY <1>1
    <2>2. QED
      BY <2>1
  <1>4. QED
    BY <1>2, <1>3 DEF Protocol!Move

LEMMA BothReadings == IInv /\ IInv' => PhaseReading /\ PhaseReading'
  BY PhaseCases, PTL

LEMMA CallRefines ==
  ASSUME IInv, IInv', NEW q \in Requests, Call(q)
  PROVE  [Protocol!Next]_(Protocol!vars)
  <1> DEFINE i == RequestId[q]
             Elsewhere == \A j \in ClientIds : j # i => Unmoved(j)
             Same == Unmoved(i)
  <1>1. PhaseReading /\ PhaseReading'
    BY BothReadings
  <1>2. i \in ClientIds /\ i \in Rows
    BY ConstantsAssumption DEF Rows
  <1>3. UNCHANGED brokerOrders
    BY DEF Call, ReadContext, Claim, RiskReject, Submit, RetryPost, RecordUnknown, RecordSubmission
  <1>4. \A j \in ClientIds : j # i => ledger'[j] = ledger[j]
    BY <1>2 DEF Call, ReadContext, Claim, RiskReject, Submit, RetryPost, RecordUnknown,
                RecordSubmission, orderVars, IInv, TypeOK, Rows
  <1>5. \A p \in Requests : p # q => pc'[p] = pc[p] /\ attempt'[p] = attempt[p]
    BY DEF Call, ReadContext, Claim, RiskReject, Submit, RetryPost, RecordUnknown,
           RecordSubmission, IInv, TypeOK
  <1>6. Elsewhere
    BY <1>4, <1>5 DEF Unmoved, Present, Sent, Claimed
  <1>7. ASSUME Same PROVE UNCHANGED Protocol!vars
    BY <1>1, <1>3, <1>6, <1>7, Stutters DEF Present
  <1>8. ASSUME NEW from, NEW to, Phase(i) = from, Phase(i)' = to
        PROVE  Protocol!Move(i, from, to)
    BY <1>1, <1>2, <1>3, <1>6, <1>8, MovesPhase
  <1>9. \A p \in Requests : p # q /\ RequestId[p] = i => ~(Holds(p) /\ Holds(q)) /\ ~(Holds(p)' /\ Holds(q)')
    BY DEF IInv, ClaimInv
  <1>10. /\ Phase(i) = "unused" <=> ~Present(ledger[i])
         /\ Phase(i)' = "unused" <=> ~Present(ledger[i])'
         /\ Phase(i) = "sent" <=> Sent(i)
         /\ Phase(i)' = "sent" <=> Sent(i)'
         /\ Phase(i) = "recorded" <=> Claimed(i)
         /\ Phase(i)' = "recorded" <=> Claimed(i)'
         /\ Phase(i)' \in {"unused", "sent", "recorded", "closed"}
    BY <1>1, <1>2 DEF PhaseReading
  <1> HIDE DEF Elsewhere
  <1>11. CASE ReadContext(q) \/ (Claim(q) /\ UNCHANGED ledger)
    <2>1. pc[q] # "claimed" /\ pc'[q] # "claimed" /\ UNCHANGED <<ledger, attempt>>
      <3>1. CASE ReadContext(q)
        BY <3>1 DEF ReadContext, IInv, TypeOK, orderVars
      <3>2. CASE Claim(q) /\ UNCHANGED ledger
        <4>1. sawKill[q] \/ Present(ledger[i])
          BY <1>2, <3>2 DEF Claim, IInv, TypeOK, Present
        <4>2. QED
          BY <3>2, <4>1 DEF Claim, IInv, TypeOK
      <3>3. QED
        BY <1>11, <3>1, <3>2
    <2>2. Same
      BY <1>5, <2>1 DEF Unmoved, Claimed, Sent, Present
    <2>3. QED
      BY <1>7, <2>2
  <1>12. CASE Claim(q) /\ ledger' # ledger
    <2>1. pc'[q] = "claimed" /\ ~Present(ledger[i])
      BY <1>12 DEF Claim, IInv, TypeOK
    <2>2. Claimed(i)'
      BY <2>1 DEF Claimed
    <2>3. Protocol!Record(i)
      BY <1>8, <1>10, <2>1, <2>2 DEF Protocol!Record
    <2>4. QED
      BY <1>2, <2>3 DEF Protocol!Next
  <1>13. CASE RiskReject(q) \/ (RecordUnknown(q) /\ pc[q] = "claimed")
    <2>1. pc[q] = "claimed" /\ pc'[q] = "done" /\ attempt' = attempt /\ Holds(q)
      BY <1>13 DEF RiskReject, RecordUnknown, IInv, TypeOK, Holds
    <2>2. Claimed(i) /\ ~Sent(i)
      BY <2>1, <1>1, <1>2 DEF Claimed, PhaseReading
    <2>3. ~Sent(i)' /\ Present(ledger[i])'
      <3>1. ~Sent(i)'
        BY <2>1, <2>2 DEF Sent
      <3>2. ledger'[i].status \in {"rejected", "pending_unknown"}
        <4>1. /\ ledger \in [Rows -> RowState]
              /\ "rejected" \in LedgerStatus /\ "pending_unknown" \in LedgerStatus
          BY DEF IInv, TypeOK, LedgerStatus, BrokerStatus, Terminal
        <4>2. \E status \in {"rejected", "pending_unknown"} :
                 ledger'[i] = [ledger[i] EXCEPT !.status = status]
          BY <1>2, <1>13, <4>1 DEF RiskReject, RecordUnknown
        <4>3. QED
          BY <1>2, <4>1, <4>2, StatusWrite
      <3>3. QED
        BY <3>1, <3>2 DEF Present
    <2>4. ~Claimed(i)'
      BY <1>5, <1>9, <2>1 DEF Claimed, Holds
    <2>5. Phase(i) = "recorded" /\ Phase(i)' = "closed"
      BY <1>10, <2>2, <2>3, <2>4
    <2>6. Protocol!Refuse(i)
      BY <1>8, <2>5 DEF Protocol!Refuse
    <2>7. QED
      BY <1>2, <2>6 DEF Protocol!Next
  <1>14. CASE Submit(q)
    <2>1. pc[q] = "claimed" /\ attempt'[q] > 0
      BY <1>14, ConstantsAssumption DEF Submit, IInv, TypeOK
    <2>2. Claimed(i) /\ Sent(i)'
      BY <2>1 DEF Claimed, Sent
    <2>3. Protocol!Send(i)
      BY <1>8, <1>10, <2>2 DEF Protocol!Send
    <2>4. QED
      BY <1>2, <2>3 DEF Protocol!Next
  <1>15. CASE RetryPost(q) \/ RecordSubmission(q) \/ (RecordUnknown(q) /\ pc[q] # "claimed")
    <2>1. /\ pc[q] \in {"posting", "answered", "refused"} /\ pc'[q] # "claimed"
          /\ attempt[q] > 0
      BY <1>15 DEF RetryPost, RecordSubmission, RecordUnknown, IInv, TypeOK, AttemptInv
    <2>2. attempt'[q] > 0
      BY <1>15, <2>1 DEF RetryPost, RecordSubmission, RecordUnknown, IInv, TypeOK
    <2>3. Sent(i) /\ Sent(i)'
      BY <2>1, <2>2 DEF Sent
    <2>4. QED
      <3>1. /\ Present(ledger[i]) /\ Present(ledger[i])'
            /\ ~Claimed(i) /\ ~Claimed(i)'
        BY <1>10, <2>3
      <3>2. QED
        BY <1>7, <2>3, <3>1 DEF Unmoved
  <1>16. QED
    BY <1>11, <1>12, <1>13, <1>14, <1>15 DEF Call

LEMMA BrokerRefines ==
  ASSUME IInv, IInv', Broker
  PROVE  [Protocol!Next]_(Protocol!vars)
  <1>1. PhaseReading /\ PhaseReading'
    BY BothReadings
  <1>2. /\ UNCHANGED <<ledger, attempt>>
        /\ \A p \in Requests : pc'[p] = "claimed" <=> pc[p] = "claimed"
    <2>1. ASSUME NEW q \in Requests, NEW n \in 1..MaxAttempts, BrokerAccepts(q, n) \/ BrokerRefuses(q, n)
          PROVE  /\ UNCHANGED <<ledger, attempt>>
                 /\ \A p \in Requests : pc'[p] = "claimed" <=> pc[p] = "claimed"
      <3>1. /\ UNCHANGED <<ledger, attempt>>
            /\ \/ pc' = pc
               \/ pc[q] = "posting" /\ pc' = [pc EXCEPT ![q] = "answered"]
               \/ pc[q] = "posting" /\ pc' = [pc EXCEPT ![q] = "refused"]
        BY <2>1 DEF BrokerAccepts, BrokerRefuses, Waiting, orderVars
      <3>2. QED
        BY <3>1 DEF IInv, TypeOK
    <2>2. QED
      BY <2>1 DEF Broker, BrokerUpdates, ForeignOrder, orderVars, callVars
  <1>3. \A i \in ClientIds : Unmoved(i)
    BY <1>2 DEF Unmoved, Present, Sent, Claimed
  <1>4. ASSUME \A i \in ClientIds : Present(brokerOrders[i])' <=> Present(brokerOrders[i])
        PROVE  UNCHANGED Protocol!vars
    BY <1>1, <1>3, <1>4, Stutters
  <1>5. \A i \in ClientIds : i \in Orders /\ i \notin Foreign /\ i \notin Legs
    BY ConstantsAssumption DEF Orders
  <1>6. ASSUME NEW q \in Requests, NEW n \in 1..MaxAttempts, BrokerAccepts(q, n)
        PROVE  [Protocol!Next]_(Protocol!vars)
    <2> DEFINE i == RequestId[q]
    <2>0. i \in ClientIds /\ i \in Orders
      BY <1>5, ConstantsAssumption
    <2>1. CASE Present(brokerOrders[i])
      <3>1. UNCHANGED brokerOrders
        BY <1>6, <2>1 DEF BrokerAccepts
      <3>2. QED
        BY <1>4, <3>1 DEF Present
    <2>2. CASE ~Present(brokerOrders[i])
      <3>1. /\ Present(brokerOrders'[i])
            /\ \A j \in ClientIds : j # i => brokerOrders'[j] = brokerOrders[j]
        BY <1>5, <1>6, <2>0, <2>2 DEF BrokerAccepts, Present
      <3>2. {j \in ClientIds : Present(brokerOrders[j])}' =
              {j \in ClientIds : Present(brokerOrders[j])} \union {i}
        BY <2>0, <3>1 DEF Present
      <3>3. Sent(i)
        BY <1>6 DEF BrokerAccepts, IInv, AttemptInv, Sent
      <3>4. \A j \in ClientIds : Phase(j)' = Phase(j)
        BY <1>1, <1>3 DEF PhaseReading, Unmoved
      <3>5. Phase(i) = "sent"
        BY <1>1, <2>0, <3>3 DEF PhaseReading
      <3>6. Protocol!Open(i)
        BY <2>0, <3>2, <3>4, <3>5 DEF Protocol!Open
      <3>7. QED
        BY <2>0, <3>6 DEF Protocol!Next
    <2>3. QED
      BY <2>1, <2>2
  <1>7. ASSUME NEW q \in Requests, NEW n \in 1..MaxAttempts, BrokerRefuses(q, n)
        PROVE  [Protocol!Next]_(Protocol!vars)
    BY <1>4, <1>7 DEF BrokerRefuses, Present
  <1>8. ASSUME NEW o \in Orders, BrokerUpdates(o)
        PROVE  [Protocol!Next]_(Protocol!vars)
    <2>1. PICK state \in BrokerMoves(brokerOrders[o]) :
            brokerOrders' = [brokerOrders EXCEPT ![o] = state]
      BY <1>8 DEF BrokerUpdates
    <2>2. Present(brokerOrders[o]) /\ Present(state)
      BY MovesForward DEF IInv, TypeOK
    <2>3. \A i \in ClientIds : Present(brokerOrders'[i]) <=> Present(brokerOrders[i])
      BY <1>5, <2>1, <2>2 DEF IInv, TypeOK
    <2>4. QED
      BY <1>4, <2>3 DEF Present
  <1>9. ASSUME NEW f \in Foreign, ForeignOrder(f)
        PROVE  [Protocol!Next]_(Protocol!vars)
    <2>1. \A i \in ClientIds : brokerOrders'[i] = brokerOrders[i]
      BY <1>5, <1>9 DEF ForeignOrder, IInv, TypeOK
    <2>2. QED
      BY <1>4, <2>1 DEF Present
  <1>10. QED
    BY <1>6, <1>7, <1>8, <1>9 DEF Broker

LEMMA OthersRefine ==
  ASSUME IInv, IInv',
         (\E r \in Reconcilers : Reconcile(r)) \/ Connection \/ UNCHANGED vars
  PROVE  UNCHANGED Protocol!vars
  <1>1. PhaseReading /\ PhaseReading'
    BY BothReadings
  <1>2. UNCHANGED <<pc, attempt>>
    BY DEF Reconcile, FetchSnapshot, CommitReconcile, ReconcileFails, Connection, EngageKillSwitch,
           CancelAll, Flatten, ResetKillSwitch, Reauthenticate, Reconnect, ReconciliationAges,
           vars, callVars
  <1>3. \A i \in ClientIds : i \in Rows /\ i \in Orders /\ i \notin Legs /\ i \notin Foreign
    BY ConstantsAssumption DEF Rows, Orders
  <1>4. ASSUME NEW i \in ClientIds
        PROVE  Present(ledger[i])' <=> Present(ledger[i])
    <2>1. CASE UNCHANGED ledger
      BY <2>1 DEF Present
    <2>2. ASSUME NEW r \in Reconcilers, CommitReconcile(r)
          PROVE  Present(ledger[i])' <=> Present(ledger[i])
      <3>1. \/ ledger'[i] = ledger[i]
            \/ Present(ledger'[i]) /\ Present(ledger[i])
        BY <1>3, <2>2, CommitRow
      <3>2. QED
        BY <3>1 DEF Present
    <2>3. CASE \E r \in Reconcilers : FetchSnapshot(r) \/ ReconcileFails(r)
      BY <2>1, <2>3 DEF FetchSnapshot, ReconcileFails, orderVars
    <2>4. CASE Connection \/ UNCHANGED vars
      <3>1. UNCHANGED ledger
        BY <2>4 DEF Connection, EngageKillSwitch, CancelAll, Flatten, ResetKillSwitch,
                    Reauthenticate, Reconnect, ReconciliationAges, vars, orderVars
      <3>2. QED
        BY <2>1, <3>1
    <2>5. QED
      BY <2>2, <2>3, <2>4 DEF Reconcile
  <1>5. ASSUME NEW i \in ClientIds
        PROVE  Present(brokerOrders[i])' <=> Present(brokerOrders[i])
    <2>1. CASE UNCHANGED brokerOrders
      BY <2>1 DEF Present
    <2>2. CASE CancelAll
      <3>1. CASE brokerOrders[i].status \in Unfinished
        <4>1. /\ brokerOrders[i] \in [status: BrokerStatus, filled: 0..Qty]
              /\ Present(brokerOrders[i])
          BY <1>3, <3>1 DEF IInv, TypeOK, OrderState, Absent, Present, Unfinished, Working
        <4>2. \/ brokerOrders'[i] = brokerOrders[i]
              \/ brokerOrders'[i] = [brokerOrders[i] EXCEPT !.status = "pending_cancel"]
          BY <1>3, <2>2 DEF CancelAll
        <4>3. QED
          BY <4>1, <4>2 DEF Present
      <3>2. CASE brokerOrders[i].status \notin Unfinished
        BY <1>3, <2>2, <3>2 DEF CancelAll, Present
      <3>3. QED
        BY <3>1, <3>2
    <2>3. CASE Flatten
      <3>1. brokerOrders'[i] = brokerOrders[i]
        BY <1>3, <2>3 DEF Flatten, IInv, TypeOK
      <3>2. QED
        BY <3>1 DEF Present
    <2>4. CASE ~CancelAll /\ ~Flatten
      <3>1. UNCHANGED brokerOrders
        BY <2>4 DEF Reconcile, FetchSnapshot, CommitReconcile, ReconcileFails, Connection,
                    EngageKillSwitch, ResetKillSwitch, Reauthenticate, Reconnect,
                    ReconciliationAges, vars
      <3>2. QED
        BY <2>1, <3>1
    <2>5. QED
      BY <2>2, <2>3, <2>4
  <1>6. \A i \in ClientIds : Unmoved(i)
    BY <1>2, <1>4 DEF Unmoved, Sent, Claimed
  <1>7. QED
    BY <1>1, <1>5, <1>6, Stutters

LEMMA CrashRefines ==
  ASSUME IInv, IInv', Crash
  PROVE  Protocol!Abandon
  <1>1. PhaseReading /\ PhaseReading'
    BY BothReadings
  <1>2. /\ UNCHANGED <<brokerOrders, ledger, attempt>>
        /\ \A q \in Requests : pc'[q] # "claimed"
    BY DEF Crash, orderVars
  <1>3. \A i \in ClientIds : Phase(i)' = IF Phase(i) = "recorded" THEN "closed" ELSE Phase(i)
    <2>1. \A i \in ClientIds : /\ Present(ledger[i])' <=> Present(ledger[i])
                               /\ Sent(i)' <=> Sent(i)
                               /\ ~Claimed(i)'
      BY <1>2 DEF Present, Sent, Claimed
    <2>2. QED
      BY <1>1, <2>1 DEF PhaseReading
  <1>4. {i \in ClientIds : Present(brokerOrders[i])}' = {i \in ClientIds : Present(brokerOrders[i])}
    BY <1>2 DEF Present
  <1>5. QED
    BY <1>3, <1>4 DEF Protocol!Abandon

\* Every behaviour of the gateway is one of the submission protocol.
THEOREM GatewayImplementsProtocol == Spec => ImplementsProtocol
  <1>1. Init => Protocol!Init
    <2> SUFFICES ASSUME Init PROVE Protocol!Init
      OBVIOUS
    <2>1. \A i \in ClientIds : i \in Rows /\ i \in Orders
      BY DEF Rows, Orders
    <2>2. \A i \in ClientIds : Phase(i) = "unused" /\ ~Present(brokerOrders[i])
      <3>1. PhaseReading
        BY InitIInv, PhaseCases
      <3>2. \A i \in ClientIds : ~Present(ledger[i]) /\ ~Present(brokerOrders[i])
        BY <2>1 DEF Init, Absent, Present
      <3>3. QED
        BY <3>1, <3>2 DEF PhaseReading
    <2>3. QED
      BY <2>2 DEF Protocol!Init
  <1>2. IInv /\ IInv' /\ [Next]_vars => [Protocol!Next]_(Protocol!vars)
    <2> SUFFICES ASSUME IInv, IInv', [Next]_vars PROVE [Protocol!Next]_(Protocol!vars)
      OBVIOUS
    <2>1. CASE (\E r \in Reconcilers : Reconcile(r)) \/ Connection \/ UNCHANGED vars
      BY <2>1, OthersRefine
    <2>2. CASE Crash
      BY <2>2, CrashRefines DEF Protocol!Next
    <2>3. QED
      BY <2>1, <2>2, CallRefines, BrokerRefines DEF Next, LedgerNext
  <1>3. QED
    BY <1>1, <1>2, InvariantHolds, PTL DEF Spec, ImplementsProtocol, Protocol!Spec
=============================================================================
