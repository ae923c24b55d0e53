-------------------------- MODULE WebhookDelivery --------------------------
(***************************************************************************)
(* Outbound webhooks (server/services/webhookDispatcher.js and the routes  *)
(* of server/routes/outboundWebhooks.js): one receiver's configuration row *)
(* and the deliveries that run on copies of it, each with three attempts,  *)
(* while its owner edits and deletes the row.                              *)
(*                                                                         *)
(* A write of the row saves the columns whose value differs from the copy, *)
(* as Sequelize's instance.update does.                                    *)
(***************************************************************************)
EXTENDS Integers, FiniteSets

CONSTANTS
    Deliveries,      \* one-shot deliveries: events dispatched, and pings
    MaxAttempts,     \* MAX_ATTEMPTS
    MaxFailCount,    \* MAX_FAIL_COUNT
    EditBound,       \* bound: edits by the owner
    NoRow            \* the row is deleted; a delivery has no copy

Statuses == {"none", "ok", "error", "disabled"}
ConfigRows == [active : BOOLEAN, failCount : Nat, lastStatus : Statuses]

ASSUME WebhookAssumption ==
    /\ MaxAttempts \in Nat \ {0} /\ MaxFailCount \in Nat \ {0} /\ EditBound \in Nat
    /\ NoRow \notin ConfigRows

VARIABLES
    config,      \* the WebhookConfig row: active, failCount, lastStatus
    delivery,    \* each delivery: where it is, its copy of the row, attempts made
    works,       \* the receiver accepts requests
    edits,       \* number of edits
    failed       \* history: deliveries whose three attempts failed

hookVars == <<config, delivery, works, edits, failed>>

NewRow == [active |-> TRUE, failCount |-> 0, lastStatus |-> "none"]

HookInit ==
    /\ config = NewRow
    /\ delivery = [d \in Deliveries |-> [at |-> "new", copy |-> NoRow, tried |-> 0]]
    /\ works \in BOOLEAN
    /\ edits = 0
    /\ failed = 0

\* dispatch: the active configurations are loaded; an inactive one gets nothing.
\* A test ping loads the row whatever its state.
Dispatch(d, ping) ==
    /\ delivery[d].at = "new" /\ config # NoRow
    /\ delivery' = [delivery EXCEPT ![d] =
                      IF config.active \/ ping
                      THEN [at |-> "trying", copy |-> config, tried |-> 0]
                      ELSE [@ EXCEPT !.at = "done"]]
    /\ UNCHANGED <<config, works, edits, failed>>

\* One POST is answered with an error, or times out; the next one waits its turn.
AttemptFails(d) ==
    /\ delivery[d].at = "trying" /\ ~works
    /\ delivery' = [delivery EXCEPT ![d] =
                      [at |-> IF @.tried + 1 < MaxAttempts THEN "trying" ELSE "failed",
                       copy |-> @.copy, tried |-> @.tried + 1]]
    /\ UNCHANGED <<config, works, edits, failed>>

AttemptSucceeds(d) ==
    /\ delivery[d].at = "trying" /\ works
    /\ delivery' = [delivery EXCEPT ![d].at = "accepted"]
    /\ UNCHANGED <<config, works, edits, failed>>

\* instance.update(new): the columns that differ from the copy, onto the row.
Save(copy, new) ==
    IF config = NoRow THEN config
    ELSE [c \in DOMAIN config |-> IF new[c] # copy[c] THEN new[c] ELSE config[c]]

RecordSuccess(d) ==
    /\ delivery[d].at = "accepted"
    /\ LET copy == delivery[d].copy IN
       config' = Save(copy, [copy EXCEPT !.lastStatus = "ok", !.failCount = 0])
    /\ delivery' = [delivery EXCEPT ![d] = [at |-> "done", copy |-> NoRow, tried |-> 0]]
    /\ UNCHANGED <<works, edits, failed>>

\* Mutant: the configuration is given up one failure early.
AfterFailureEarly(copy) ==
    LET n == copy.failCount + 1 IN
    [active |-> copy.active /\ n + 1 < MaxFailCount, failCount |-> n,
     lastStatus |-> IF n + 1 < MaxFailCount THEN "error" ELSE "disabled"]

\* The count of the copy plus one; at the limit the configuration is switched off.
AfterFailure(copy) ==
    LET n == copy.failCount + 1 IN
    [active |-> copy.active /\ n < MaxFailCount, failCount |-> n,
     lastStatus |-> IF n < MaxFailCount THEN "error" ELSE "disabled"]

RecordFailure(d) ==
    /\ delivery[d].at = "failed"
    /\ config' = Save(delivery[d].copy, AfterFailure(delivery[d].copy))
    /\ delivery' = [delivery EXCEPT ![d] = [at |-> "done", copy |-> NoRow, tried |-> 0]]
    /\ failed' = failed + 1
    /\ UNCHANGED <<works, edits>>

\* PUT: active unless switched off by hand, and the count starts again.  The route
\* loads and saves at once, so its copy is the row.
Edit(active) ==
    /\ config # NoRow /\ edits < EditBound
    /\ config' = [config EXCEPT !.active = active, !.failCount = 0]
    /\ edits' = edits + 1
    /\ UNCHANGED <<delivery, works, failed>>

Remove ==
    /\ config # NoRow
    /\ config' = NoRow
    /\ UNCHANGED <<delivery, works, edits, failed>>

ReceiverTurns == works' = ~works /\ UNCHANGED <<config, delivery, edits, failed>>

HookNext ==
    \/ \E d \in Deliveries :
         \/ \E ping \in BOOLEAN : Dispatch(d, ping)
         \/ AttemptFails(d) \/ AttemptSucceeds(d) \/ RecordSuccess(d) \/ RecordFailure(d)
    \/ \E active \in BOOLEAN : Edit(active)
    \/ Remove \/ ReceiverTurns

HookSpec == HookInit /\ [][HookNext]_hookVars

(***************************************************************************)
(* Properties                                                              *)
(***************************************************************************)

HookTypeOK ==
    /\ config \in ConfigRows \union {NoRow}
    /\ delivery \in [Deliveries -> [at : {"new", "trying", "failed", "accepted", "done"},
                                    copy : ConfigRows \union {NoRow}, tried : 0..MaxAttempts]]
    /\ works \in BOOLEAN /\ edits \in Nat /\ failed \in Nat

\* Deliveries that overlap read the same count and write it plus one over each
\* other, over a success, and over an edit.  Whatever the order, the count never
\* exceeds the deliveries that really failed, so a configuration is switched off by
\* the dispatcher only after MAX_FAIL_COUNT of them.
DisabledOnlyByFailures ==
    config # NoRow =>
      /\ config.failCount <= failed
      /\ config.lastStatus = "disabled" => failed >= MaxFailCount
=============================================================================
