--------------------------- MODULE LiveActivation ---------------------------
(***************************************************************************)
(* The live-trading authorization of server/services/brokerGovernance.js:  *)
(* activations the owner of a connection requests and two supervisors      *)
(* approve, and the gate a live order passes (assertExecutionReady).       *)
(*                                                                         *)
(* Every handler works on a copy of the row it read and writes back later, *)
(* so each await is a step of its own.  LIVE_TRADING_ENABLED is 'true' and *)
(* the disclosure is accepted; requests without them change nothing.       *)
(***************************************************************************)
EXTENDS Naturals

CONSTANTS
    People,        \* users with their roles, the owner of the connection among them
    Owner,
    Role,          \* User.role of each
    Nobody,        \* a null operatorApprovedBy or complianceApprovedBy
    Activations,   \* one-shot calls of requestLiveActivation, and the row each makes
    Approvals,     \* approveLiveActivation calls that may be under way at once
    LiveOrders     \* executeGovernedOrder calls in the live environment

Roles == {"user", "operator", "compliance", "admin"}

ASSUME PeopleAssumption ==
    /\ Owner \in People
    /\ Nobody \notin People
    /\ Role \in [People -> Roles]

VARIABLES
    request,       \* where each requestLiveActivation call is
    act,           \* LiveActivation rows: status, operatorApprovedBy, complianceApprovedBy
    expired,       \* activations whose expiresAt has passed
    approval,      \* where each approval is: its approver and its copy of the row
    conn,          \* BrokerConnection: whether it is active, killSwitchActive
    order,         \* where each live order is
    signed         \* history: who ever wrote which approval of an activation

requestVars == <<request, act, expired>>
vars == <<requestVars, approval, conn, order, signed>>

Row == [status: {"none", "pending", "approved", "expired", "revoked"},
        op: People \union {Nobody}, comp: People \union {Nobody}]

NoCall == [at |-> "none"]

Call == [at: {"read", "expiring", "signed"}, who: People, of: Activations,
         op: People \union {Nobody}, comp: People \union {Nobody}]

NoRow == [status |-> "none", op |-> Nobody, comp |-> Nobody]

Init ==
    /\ request = [a \in Activations |-> "new"]
    /\ act = [a \in Activations |-> NoRow]
    /\ expired = {}
    /\ approval = [x \in Approvals |-> NoCall]
    /\ conn = [active |-> TRUE, kill |-> FALSE]
    /\ order = [o \in LiveOrders |-> "new"]
    /\ signed = [a \in Activations |-> {}]

(***************************************************************************)
(* requestLiveActivation                                                   *)
(***************************************************************************)

\* The connection is active; the strategy validation, which other handlers write,
\* is passed and current (a request that finds it otherwise changes nothing).
CheckRequest(a) ==
    /\ request[a] = "new"
    /\ conn.active
    /\ request' = [request EXCEPT ![a] = "checked"]
    /\ UNCHANGED <<act, expired, approval, conn, order, signed>>

\* Mutant: the revoked rows get the status of a declined request.
RevokeOthersAsRejected(a) ==
    /\ request[a] = "checked"
    /\ request' = [request EXCEPT ![a] = "revoked"]
    /\ act' = [b \in Activations |->
                 IF act[b].status \in {"pending", "approved"}
                 THEN [act[b] EXCEPT !.status = "rejected"] ELSE act[b]]
    /\ UNCHANGED <<expired, approval, conn, order, signed>>

\* Every pending or approved activation of the connection is revoked.
RevokeOthers(a) ==
    /\ request[a] = "checked"
    /\ request' = [request EXCEPT ![a] = "revoked"]
    /\ act' = [b \in Activations |->
                 IF act[b].status \in {"pending", "approved"}
                 THEN [act[b] EXCEPT !.status = "revoked"] ELSE act[b]]
    /\ UNCHANGED <<expired, approval, conn, order, signed>>

CreateActivation(a) ==
    /\ request[a] = "revoked"
    /\ request' = [request EXCEPT ![a] = "done"]
    /\ act' = [act EXCEPT ![a].status = "pending"]
    /\ UNCHANGED <<expired, approval, conn, order, signed>>

\* 24 hours pass.
Expire(a) ==
    /\ act[a].status # "none"
    /\ expired' = expired \union {a}
    /\ UNCHANGED <<request, act, approval, conn, order, signed>>

(***************************************************************************)
(* approveLiveActivation                                                   *)
(***************************************************************************)

\* Mutant: the activation need not be pending.
ReadActivationInAnyStatus(x, p, a) ==
    /\ approval[x] = NoCall
    /\ Role[p] \in {"operator", "compliance", "admin"}
    /\ act[a].status # "none"
    /\ p # Owner
    /\ approval' = [approval EXCEPT ![x] =
          [at |-> IF a \in expired THEN "expiring" ELSE "read",
           who |-> p, of |-> a, op |-> act[a].op, comp |-> act[a].comp]]
    /\ UNCHANGED <<requestVars, conn, order, signed>>

\* A supervisor who is not the requester reads a pending activation.
ReadActivation(x, p, a) ==
    /\ approval[x] = NoCall
    /\ Role[p] \in {"operator", "compliance", "admin"}
    /\ act[a].status = "pending"
    /\ p # Owner
    /\ approval' = [approval EXCEPT ![x] =
          [at |-> IF a \in expired THEN "expiring" ELSE "read",
           who |-> p, of |-> a, op |-> act[a].op, comp |-> act[a].comp]]
    /\ UNCHANGED <<requestVars, conn, order, signed>>

MarkExpired(x) ==
    /\ approval[x].at = "expiring"
    /\ approval' = [approval EXCEPT ![x] = NoCall]
    /\ act' = [act EXCEPT ![approval[x].of].status = "expired"]
    /\ UNCHANGED <<request, expired, conn, order, signed>>

\* Which approvals a copy c gets from its approver: an admin stands in for
\* the operator first, and for compliance once an operator is there.
SignsAsOperator(c) == Role[c.who] = "operator" \/ (Role[c.who] = "admin" /\ c.op = Nobody)
SignsAsCompliance(c) ==
    Role[c.who] = "compliance" \/ (Role[c.who] = "admin" /\ c.op # Nobody /\ c.comp = Nobody)

\* Mutant: the two approvals may be one person's.
BothSignedByAnyone(c) == c.op # Nobody /\ c.comp # Nobody

BothSigned(c) == c.op # Nobody /\ c.comp # Nobody /\ c.op # c.comp

\* The first update writes the approver's own columns, of row and copy.
Sign(x) ==
    LET c == approval[x]
        a == c.of
        copy == [c EXCEPT !.op = IF SignsAsOperator(c) THEN c.who ELSE @,
                          !.comp = IF SignsAsCompliance(c) THEN c.who ELSE @]
    IN
    /\ c.at = "read"
    /\ act' = [act EXCEPT ![a].op = IF SignsAsOperator(c) THEN c.who ELSE @,
                          ![a].comp = IF SignsAsCompliance(c) THEN c.who ELSE @]
    /\ signed' = [signed EXCEPT ![a] = @
                    \union (IF SignsAsOperator(c) THEN {<<c.who, "operator">>} ELSE {})
                    \union (IF SignsAsCompliance(c) THEN {<<c.who, "compliance">>} ELSE {})]
    /\ approval' = [approval EXCEPT ![x] =
          IF BothSigned(copy) THEN [copy EXCEPT !.at = "signed"] ELSE NoCall]
    /\ UNCHANGED <<request, expired, conn, order>>

\* The second update: the copy has both approvals.
Approve(x) ==
    LET a == approval[x].of IN
    /\ approval[x].at = "signed"
    /\ approval' = [approval EXCEPT ![x] = NoCall]
    /\ act' = [act EXCEPT ![a].status = "approved"]
    /\ UNCHANGED <<request, expired, conn, order, signed>>

(***************************************************************************)
(* The connection                                                          *)
(***************************************************************************)

\* The ages of the last re-authentication, reconciliation and broker limit
\* attestation are left out: at any time each is recent or too old, and a call that
\* finds one too old changes nothing.
SetConnection(active, kill) ==
    /\ conn' = [active |-> active, kill |-> kill]
    /\ UNCHANGED <<requestVars, approval, order, signed>>

Reauthenticate == SetConnection(TRUE, conn.kill)

\* activateKillSwitch, or a reconciliation that finds orphans or fails.
EngageKillSwitch == conn.active /\ SetConnection(TRUE, TRUE)

\* connectBroker over the existing row.
Reconnect == SetConnection(TRUE, FALSE)

ResetKillSwitch == SetConnection(FALSE, FALSE)

(***************************************************************************)
(* getBrokerContext and assertExecutionReady for a live order              *)
(***************************************************************************)

CheckConnection(o) ==
    /\ order[o] = "new"
    /\ conn.active /\ ~conn.kill
    /\ order' = [order EXCEPT ![o] = "checked"]
    /\ UNCHANGED <<requestVars, approval, conn, signed>>

\* Mutant: a pending activation will do.
UsableWhilePending(a) == act[a].status \in {"pending", "approved"} /\ a \notin expired

Usable(a) == act[a].status = "approved" /\ a \notin expired

CheckActivation(o) ==
    /\ order[o] = "checked"
    /\ order' = [order EXCEPT ![o] =
          IF \E a \in Activations : Usable(a) THEN "authorized" ELSE "new"]
    /\ UNCHANGED <<requestVars, approval, conn, signed>>

-----------------------------------------------------------------------------
Request(a) ==
    \/ CheckRequest(a) \/ RevokeOthers(a) \/ CreateActivation(a) \/ Expire(a)

Supervise(x) ==
    \/ \E p \in People, a \in Activations : ReadActivation(x, p, a)
    \/ MarkExpired(x) \/ Sign(x) \/ Approve(x)

Connection == Reauthenticate \/ EngageKillSwitch \/ Reconnect \/ ResetKillSwitch

Gate(o) == CheckConnection(o) \/ CheckActivation(o)

Next ==
    \/ \E a \in Activations : Request(a)
    \/ \E x \in Approvals : Supervise(x)
    \/ Connection
    \/ \E o \in LiveOrders : Gate(o)

Spec == Init /\ [][Next]_vars

-----------------------------------------------------------------------------
(***************************************************************************)
(* Properties                                                              *)
(***************************************************************************)

\* Every variable has its type.
TypeOK ==
    /\ request \in [Activations -> {"new", "checked", "revoked", "done"}]
    /\ act \in [Activations -> Row]
    /\ expired \subseteq Activations
    /\ approval \in [Approvals -> Call \union {NoCall}]
    /\ conn \in [active: BOOLEAN, kill: BOOLEAN]
    /\ order \in [LiveOrders -> {"new", "checked", "authorized"}]
    /\ signed \in [Activations -> SUBSET (People \X {"operator", "compliance"})]

\* Two different people, neither of them the requester, approved a: one in the
\* operator's place and one in the compliance reviewer's.
TwoSigners(a) ==
    \E p, q \in People \ {Owner} :
        /\ p # q
        /\ <<p, "operator">> \in signed[a] /\ Role[p] \in {"operator", "admin"}
        /\ <<q, "compliance">> \in signed[a] /\ Role[q] \in {"compliance", "admin"}

\* Whatever approvals, requests and expiries race, an approved activation was
\* approved by two people ("requires two distinct supervision roles").
TwoPeople == \A a \in Activations : act[a].status = "approved" => TwoSigners(a)

\* No live order is authorized unless two people approved an activation that has
\* not expired.
LiveOrderHasTwoSigners ==
    [][ \A o \in LiveOrders : order[o] # "authorized" /\ order'[o] = "authorized" =>
          \E a \in Activations \ expired : TwoSigners(a) ]_vars

\* A revoked activation which no approver has in hand stays revoked: only a
\* supervisor who read it before the revocation can bring it back.
Withdrawn(a) ==
    /\ act[a].status = "revoked"
    /\ \A x \in Approvals : approval[x] = NoCall \/ approval[x].of # a

WithdrawnStays == [][ \A a \in Activations : Withdrawn(a) => Withdrawn(a)' ]_vars

-----------------------------------------------------------------------------
(***************************************************************************)
(* Claims of the documentation and the tests                               *)
(***************************************************************************)

\* "re-authentication and activation approval are repeated": a reset leaves no
\* activation that authorizes live orders once the owner has re-authenticated.
ResetNeedsNewApproval ==
    [][ conn.kill /\ ~conn'.kill /\ ~conn'.active => \A a \in Activations : ~Usable(a)' ]_vars

=============================================================================
