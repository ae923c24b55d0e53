------------------------- MODULE StrategyValidation -------------------------
(***************************************************************************)
(* The evidence a strategy needs before it may trade live                  *)
(* (server/services/brokerGovernance.js): its submission by the owner, the *)
(* promotion decision, and an operator's approval, which decides on a copy *)
(* of the row read before.  One row.                                       *)
(***************************************************************************)
EXTENDS Integers, FiniteSets

CONSTANTS
    Submissions,     \* the evidence the owner may submit
    Approvals,       \* requests to approve, one-shot
    Operators,       \* the approvers they come from
    NoOne,           \* approvedBy before any approval
    SaveBound        \* bound: submissions

Scenarios == {"gapDown", "volatilitySpike", "delayedFill", "liquidityShock"}

ASSUME ValidationAssumption ==
    /\ SaveBound \in Nat \ {0} /\ NoOne \notin Operators
    /\ \A s \in Submissions :
         s \in [survivorshipSafe : BOOLEAN, licensed : BOOLEAN, windows : Nat, costed : BOOLEAN,
                stressed : SUBSET Scenarios, paperDays : Nat, paperTrades : Nat, drawdown : Nat]

VARIABLES
    evidence,    \* the evidence columns of the row
    status, approvedBy,
    approval,    \* each approval: where it is and its copy of the row
    saves,       \* submissions so far
    overtaken    \* history: approvals written over a submission that came after their read

validationVars == <<evidence, status, approvedBy, approval, saves, overtaken>>

\* strategyPromotionDecision: TRUE when there is no reason against.  The drawdown is in
\* percent.
PromotionDecision(s) ==
    /\ s.survivorshipSafe /\ s.licensed /\ s.costed
    /\ s.windows >= 5 /\ s.paperDays >= 30 /\ s.paperTrades >= 100
    /\ Scenarios \subseteq s.stressed
    /\ s.drawdown <= 15

NoApproval == [at |-> "new", copy |-> <<>>]

ValidationInit ==
    /\ evidence \in Submissions
    /\ status = IF PromotionDecision(evidence) THEN "paper_monitoring" ELSE "failed"
    /\ approvedBy = NoOne
    /\ approval = [a \in Approvals |-> NoApproval]
    /\ saves = 1 /\ overtaken = {}

\* Mutant: the approval of earlier evidence is kept.
SaveKeepsApproval(s) ==
    /\ evidence' = s
    /\ status' = IF PromotionDecision(s) /\ approvedBy # NoOne THEN "passed"
                 ELSE IF PromotionDecision(s) THEN "paper_monitoring" ELSE "failed"
    /\ UNCHANGED approvedBy

\* saveStrategyValidation: one upsert, which resets an approval (no route gives it an
\* approver).
SaveValidation(s) ==
    /\ evidence' = s
    /\ status' = IF PromotionDecision(s) THEN "paper_monitoring" ELSE "failed"
    /\ approvedBy' = NoOne

Submit(s) ==
    /\ saves < SaveBound
    /\ SaveValidation(s)
    /\ saves' = saves + 1
    /\ UNCHANGED <<approval, overtaken>>

\* approveStrategyValidation: the row is read and the decision made on the copy.
ReadValidation(a) ==
    /\ approval[a].at = "new"
    /\ approval' = [approval EXCEPT ![a] =
                      [at |-> "read", copy |-> <<evidence, status, approvedBy, saves>>]]
    /\ UNCHANGED <<evidence, status, approvedBy, saves, overtaken>>

\* Then written; only the columns that differ from the copy are.
Approve(a, o) ==
    /\ approval[a].at = "read"
    /\ LET copy == approval[a].copy
           passed == PromotionDecision(copy[1])
           decided == <<IF passed THEN "passed" ELSE "failed", IF passed THEN o ELSE NoOne>>
       IN  /\ status' = IF decided[1] = copy[2] THEN status ELSE decided[1]
           /\ approvedBy' = IF decided[2] = copy[3] THEN approvedBy ELSE decided[2]
           /\ overtaken' = IF copy[4] = saves THEN overtaken ELSE overtaken \union {a}
    /\ approval' = [approval EXCEPT ![a] = [NoApproval EXCEPT !.at = "done"]]
    /\ UNCHANGED <<evidence, saves>>

ValidationNext ==
    \/ \E s \in Submissions : Submit(s)
    \/ \E a \in Approvals : ReadValidation(a) \/ \E o \in Operators : Approve(a, o)

ValidationSpec == ValidationInit /\ [][ValidationNext]_validationVars

(***************************************************************************)
(* Properties                                                              *)
(***************************************************************************)

ValidationTypeOK ==
    /\ evidence \in Submissions /\ status \in {"paper_monitoring", "failed", "passed"}
    /\ approvedBy \in Operators \union {NoOne}
    /\ saves \in 1 .. SaveBound /\ overtaken \subseteq Approvals
    /\ \A a \in Approvals : approval[a].at \in {"new", "read", "done"}

\* A validation passes exactly while it carries an approver, and then its evidence has
\* every scenario passed, unless an approval was written over a submission later than the
\* one it read.
PassedIsApproved ==
    overtaken = {} =>
        /\ status = "passed" <=> approvedBy # NoOne
        /\ status = "passed" => evidence.stressed = Scenarios /\ evidence.survivorshipSafe
=============================================================================
