--------------------------- MODULE ServicesProofs -----------------------------
(***************************************************************************)
(* The background services and the tables they keep, for any requests,     *)
(* deliveries, loops, alerts, rows, viewers and syncs.  They share no      *)
(* variable; each has a section and an inductive invariant of its own.     *)
(***************************************************************************)
EXTENDS AccountsProofs

(***************************************************************************)
(* Webhook deliveries                                                      *)
(* The failure counter never runs ahead of the deliveries that failed,     *)
(* although each one counts on a copy of the row.                          *)
(***************************************************************************)

\* What a row, or a copy of one, may say of the past: failures only grow, so a copy
\* that was true when it was taken stays true.
Counted(written, n) ==
    /\ written.failCount <= n
    /\ written.lastStatus = "disabled" => n >= MaxFailCount

\* A delivery that is under way holds a copy, and has an attempt left while it tries.
CopiesHeld ==
    \A d \in Deliveries :
        /\ delivery[d].at \in {"trying", "failed", "accepted"} => delivery[d].copy \in ConfigRows
        /\ delivery[d].at = "trying" => delivery[d].tried < MaxAttempts

\* The inductive invariant: the row and every copy of it are accounted for.
HookInv ==
    /\ HookTypeOK
    /\ CopiesHeld
    /\ config \in ConfigRows => Counted(config, failed)
    /\ \A d \in Deliveries :
         delivery[d].copy \in ConfigRows => Counted(delivery[d].copy, failed)

-----------------------------------------------------------------------------

\* A row stays accounted for when one more delivery has failed.
LEMMA CountedGrows ==
    ASSUME NEW written \in ConfigRows, NEW n \in Nat, Counted(written, n)
    PROVE  Counted(written, n + 1)
BY WebhookAssumption DEF Counted, ConfigRows

\* What Sequelize's update leaves in the row: each column is the row's own or the new one.
LEMMA SavedColumns ==
    ASSUME config \in ConfigRows, NEW old \in ConfigRows, NEW new \in ConfigRows
    PROVE  /\ Save(old, new) \in ConfigRows
           /\ Save(old, new).failCount =
                IF new.failCount # old.failCount THEN new.failCount ELSE config.failCount
           /\ Save(old, new).lastStatus =
                IF new.lastStatus # old.lastStatus THEN new.lastStatus ELSE config.lastStatus
<1> DEFINE saved == [c \in DOMAIN config |-> IF new[c] # old[c] THEN new[c] ELSE config[c]]
<1>1. DOMAIN config = {"active", "failCount", "lastStatus"}
  BY DEF ConfigRows
<1>2. /\ config.active \in BOOLEAN /\ config.failCount \in Nat /\ config.lastStatus \in Statuses
      /\ new.active \in BOOLEAN /\ new.failCount \in Nat /\ new.lastStatus \in Statuses
  BY DEF ConfigRows
<1>3. saved \in ConfigRows
  <2>1. saved = [active |-> saved.active, failCount |-> saved.failCount,
                 lastStatus |-> saved.lastStatus]
    BY <1>1
  <2>2. saved.active \in BOOLEAN /\ saved.failCount \in Nat /\ saved.lastStatus \in Statuses
    BY <1>1, <1>2
  <2> QED
    BY <2>1, <2>2 DEF ConfigRows
<1>4. /\ saved.failCount = IF new.failCount # old.failCount THEN new.failCount ELSE config.failCount
      /\ saved.lastStatus = IF new.lastStatus # old.lastStatus THEN new.lastStatus ELSE config.lastStatus
  BY <1>1
<1>5. config # NoRow
  BY WebhookAssumption
<1> QED
  BY <1>3, <1>4, <1>5 DEF Save

\* What is written after a failure counts it, on top of a copy that was accounted for.
LEMMA FailureCounted ==
    ASSUME NEW old \in ConfigRows, NEW n \in Nat, Counted(old, n)
    PROVE  /\ AfterFailure(old) \in ConfigRows
           /\ Counted(AfterFailure(old), n + 1)
           /\ AfterFailure(old).failCount = old.failCount + 1
<1>1. old.failCount \in Nat /\ old.active \in BOOLEAN
  BY DEF ConfigRows
<1>2. AfterFailure(old) \in ConfigRows
  <2>1. (old.active /\ old.failCount + 1 < MaxFailCount) \in BOOLEAN
    OBVIOUS
  <2>2. old.failCount + 1 \in Nat
    BY <1>1
  <2>3. (IF old.failCount + 1 < MaxFailCount THEN "error" ELSE "disabled") \in Statuses
    BY DEF Statuses
  <2> QED
    BY <2>1, <2>2, <2>3 DEF AfterFailure, ConfigRows
<1>3. AfterFailure(old).failCount = old.failCount + 1
  BY DEF AfterFailure
<1>4. Counted(AfterFailure(old), n + 1)
  BY <1>1, WebhookAssumption DEF AfterFailure, Counted
<1> QED
  BY <1>2, <1>3, <1>4

-----------------------------------------------------------------------------

LEMMA InitHookInv == HookInit => HookInv
BY WebhookAssumption
   DEF HookInit, HookInv, HookTypeOK, CopiesHeld, Counted, NewRow, ConfigRows, Statuses

\* The steps that leave the row alone, or write a row that counts what it should.
LEMMA HookStep == HookInv /\ [HookNext]_hookVars => HookInv'
<1> SUFFICES ASSUME HookInv, [HookNext]_hookVars
             PROVE  HookInv'
  OBVIOUS
<1> USE WebhookAssumption
<1>1. ASSUME NEW d \in Deliveries, NEW ping \in BOOLEAN, Dispatch(d, ping)
      PROVE  HookInv'
  BY <1>1 DEF Dispatch, HookInv, HookTypeOK, CopiesHeld
<1>2. ASSUME NEW d \in Deliveries, AttemptFails(d)
      PROVE  HookInv'
  <2> DEFINE left == delivery[d].tried + 1 < MaxAttempts
             next == [at |-> IF left THEN "trying" ELSE "failed",
                      copy |-> delivery[d].copy, tried |-> delivery[d].tried + 1]
  <2>1. /\ delivery[d].at = "trying" /\ delivery' = [delivery EXCEPT ![d] = next]
        /\ UNCHANGED <<config, works, edits, failed>>
    BY <1>2 DEF AttemptFails, HookInv, HookTypeOK
  <2>2. delivery[d].tried < MaxAttempts /\ delivery[d].tried \in 0 .. MaxAttempts
        /\ delivery[d].copy \in ConfigRows
    BY <2>1 DEF HookInv, HookTypeOK, CopiesHeld
  <2>3. /\ next.tried \in 0 .. MaxAttempts /\ next.copy = delivery[d].copy
        /\ next.at \in {"trying", "failed"} /\ (next.at = "trying" => next.tried < MaxAttempts)
        /\ next = [at |-> next.at, copy |-> next.copy, tried |-> next.tried]
    BY <2>2
  <2> HIDE DEF next
  <2>4. next \in [at : {"new", "trying", "failed", "accepted", "done"},
                  copy : ConfigRows \union {NoRow}, tried : 0 .. MaxAttempts]
    BY <2>2, <2>3
  <2>5. HookTypeOK'
    BY <2>1, <2>4 DEF HookInv, HookTypeOK
  <2>6. \A e \in Deliveries : delivery'[e] = IF e = d THEN next ELSE delivery[e]
    BY <2>1 DEF HookInv, HookTypeOK
  <2>7. CopiesHeld'
    BY <2>2, <2>3, <2>6 DEF HookInv, CopiesHeld
  <2>8. \A e \in Deliveries :
          delivery'[e].copy \in ConfigRows => Counted(delivery'[e].copy, failed)
    BY <2>2, <2>3, <2>6 DEF HookInv
  <2> QED
    BY <2>1, <2>5, <2>7, <2>8 DEF HookInv
<1>3. ASSUME NEW d \in Deliveries, AttemptSucceeds(d)
      PROVE  HookInv'
  BY <1>3 DEF AttemptSucceeds, HookInv, HookTypeOK, CopiesHeld
<1>4. ASSUME NEW d \in Deliveries, RecordSuccess(d)
      PROVE  HookInv'
  <2> DEFINE old == delivery[d].copy
             new == [old EXCEPT !.lastStatus = "ok", !.failCount = 0]
  <2>1. old \in ConfigRows /\ Counted(old, failed) /\ failed \in Nat
    BY <1>4 DEF RecordSuccess, HookInv, CopiesHeld, HookTypeOK
  <2>2. new \in ConfigRows /\ new.failCount = 0 /\ new.lastStatus = "ok"
    BY <2>1 DEF ConfigRows, Statuses
  <2>3. config' = Save(old, new) /\ failed' = failed
    BY <1>4 DEF RecordSuccess
  <2>4. config' \in ConfigRows \union {NoRow} /\ (config' \in ConfigRows => Counted(config', failed))
    <3>1. CASE config = NoRow
      BY <3>1, <2>3 DEF Save
    <3>2. CASE config \in ConfigRows
      <4> HIDE DEF new
      <4>1. /\ config' \in ConfigRows /\ config'.failCount \in {0, config.failCount}
            /\ config'.lastStatus \in {"ok", config.lastStatus}
        BY <3>2, <2>1, <2>2, <2>3, SavedColumns
      <4> QED
        BY <3>2, <4>1, <2>1, <2>3 DEF Counted, HookInv
    <3> QED
      BY <3>1, <3>2 DEF HookInv, HookTypeOK
  <2> QED
    BY <1>4, <2>3, <2>4 DEF RecordSuccess, HookInv, HookTypeOK, CopiesHeld
<1>5. ASSUME NEW d \in Deliveries, RecordFailure(d)
      PROVE  HookInv'
  <2> DEFINE old == delivery[d].copy
  <2>1. old \in ConfigRows /\ Counted(old, failed) /\ failed \in Nat
    BY <1>5 DEF RecordFailure, HookInv, CopiesHeld, HookTypeOK
  <2>2. /\ AfterFailure(old) \in ConfigRows
        /\ Counted(AfterFailure(old), failed + 1)
        /\ AfterFailure(old).failCount = old.failCount + 1
    BY <2>1, FailureCounted
  <2>3. config' = Save(old, AfterFailure(old)) /\ failed' = failed + 1
    BY <1>5 DEF RecordFailure
  <2>4. config' \in ConfigRows \union {NoRow} /\ (config' \in ConfigRows => Counted(config', failed'))
    <3>1. CASE config = NoRow
      BY <3>1, <2>3 DEF Save
    <3>2. CASE config \in ConfigRows
      BY <3>2, <2>1, <2>2, <2>3, SavedColumns, CountedGrows DEF Counted, HookInv
    <3> QED
      BY <3>1, <3>2 DEF HookInv, HookTypeOK
  <2>5. \A e \in Deliveries :
          delivery[e].copy \in ConfigRows => Counted(delivery[e].copy, failed')
    BY <2>1, <2>3, CountedGrows DEF HookInv
  <2> QED
    BY <1>5, <2>1, <2>3, <2>4, <2>5 DEF RecordFailure, HookInv, HookTypeOK, CopiesHeld
<1>6. ASSUME NEW active \in BOOLEAN, Edit(active)
      PROVE  HookInv'
  <2>1. config \in ConfigRows
    BY <1>6 DEF Edit, HookInv, HookTypeOK
  <2>2. config' \in ConfigRows /\ config'.failCount = 0 /\ config'.lastStatus = config.lastStatus
    BY <1>6, <2>1 DEF Edit, ConfigRows
  <2> QED
    BY <1>6, <2>1, <2>2 DEF Edit, HookInv, HookTypeOK, CopiesHeld, Counted
<1>7. CASE Remove
  BY <1>7 DEF Remove, HookInv, HookTypeOK, CopiesHeld
<1>8. CASE ReceiverTurns
  BY <1>8 DEF ReceiverTurns, HookInv, HookTypeOK, CopiesHeld
<1>9. CASE UNCHANGED hookVars
  BY <1>9 DEF hookVars, HookInv, HookTypeOK, CopiesHeld
<1> QED
  BY <1>1, <1>2, <1>3, <1>4, <1>5, <1>6, <1>7, <1>8, <1>9 DEF HookNext

\* The dispatcher's state is accounted for in every behaviour (dispatchEvent and deliver of
\* webhookDispatcher.js, with the owner's routes).
THEOREM HookInductive == HookSpec => []HookInv
BY InitHookInv, HookStep, PTL DEF HookSpec

\* A configuration that says disabled has seen MAX_FAIL_COUNT deliveries fail, whatever
\* copies they counted on.
THEOREM OnlyFailuresDisable == HookSpec => []DisabledOnlyByFailures
<1>1. HookInv => DisabledOnlyByFailures
  BY DEF HookInv, HookTypeOK, Counted, DisabledOnlyByFailures
<1> QED
  BY <1>1, HookInductive, PTL

(***************************************************************************)
(* The validation of a strategy                                            *)
(* Evidence passes only with an approver, and only if it deserves to, as   *)
(* long as no approval is written over evidence that came after its read.  *)
(***************************************************************************)

\* The row agrees with itself: it is passed exactly when somebody approved, and failed
\* exactly when its evidence does not allow a promotion.
RowAgrees ==
    /\ status = "passed" <=> approvedBy # NoOne
    /\ status = "failed" <=> ~PromotionDecision(evidence)

\* A copy of the evidence that is still current: what it says was approved is approved
\* still, since only a submission takes an approval back.
CopyAgrees(taken) ==
    taken[4] = saves =>
        /\ taken[1] = evidence
        /\ taken[2] = "failed" <=> ~PromotionDecision(evidence)
        /\ taken[2] = "passed" => status = "passed"
        /\ taken[3] # NoOne => approvedBy # NoOne /\ PromotionDecision(evidence)

\* The inductive invariant.  A copy is never of a submission that is still to come.
ValidationInv ==
    /\ evidence \in Submissions /\ saves \in Nat
    /\ approval = [a \in Approvals |-> approval[a]]
    /\ status \in {"paper_monitoring", "failed", "passed"}
    /\ approvedBy \in Operators \union {NoOne}
    /\ \A a \in Approvals : approval[a].at = "read" => approval[a].copy[4] \in Nat /\ approval[a].copy[4] <= saves
    /\ overtaken = {} =>
         /\ RowAgrees
         /\ \A a \in Approvals : approval[a].at = "read" => CopyAgrees(approval[a].copy)

-----------------------------------------------------------------------------

LEMMA InitValidationInv == ValidationInit => ValidationInv
BY DEF ValidationInit, ValidationInv, RowAgrees, NoApproval

\* A submission leaves no copy current, and takes the approval back.
LEMMA SubmitStep ==
    ASSUME ValidationInv, NEW s \in Submissions, Submit(s)
    PROVE  ValidationInv'
<1>1. /\ evidence' = s /\ approvedBy' = NoOne /\ saves' = saves + 1
      /\ status' = IF PromotionDecision(s) THEN "paper_monitoring" ELSE "failed"
      /\ approval' = approval /\ overtaken' = overtaken
  BY DEF Submit, SaveValidation
<1>2. PromotionDecision(evidence)' <=> PromotionDecision(s)
  BY <1>1 DEF PromotionDecision
<1>3. RowAgrees'
  BY <1>1, <1>2 DEF RowAgrees
<1>4. \A a \in Approvals : approval'[a].at = "read" => approval'[a].copy[4] \in Nat /\ approval'[a].copy[4] <= saves
  BY <1>1 DEF ValidationInv
<1>5. \A a \in Approvals : approval'[a].at = "read" => CopyAgrees(approval[a].copy)'
  BY <1>1, <1>4 DEF CopyAgrees, ValidationInv
<1> QED
  BY <1>1, <1>3, <1>4, <1>5 DEF ValidationInv

\* A copy is current when it is made.
LEMMA ReadStep ==
    ASSUME ValidationInv, NEW a \in Approvals, ReadValidation(a)
    PROVE  ValidationInv'
<1> DEFINE taken == <<evidence, status, approvedBy, saves>>
<1>1. /\ approval' = [approval EXCEPT ![a] = [at |-> "read", copy |-> taken]]
      /\ UNCHANGED <<evidence, status, approvedBy, saves, overtaken>>
  BY DEF ReadValidation
<1>2. PromotionDecision(evidence)' <=> PromotionDecision(evidence)
  BY <1>1 DEF PromotionDecision
<1>3. overtaken = {} => CopyAgrees(taken)
  BY DEF CopyAgrees, ValidationInv, RowAgrees
<1>5. \A x \in Approvals : approval'[x] = IF x = a THEN [at |-> "read", copy |-> taken] ELSE approval[x]
  BY <1>1 DEF ValidationInv
<1>6. approval' = [x \in Approvals |-> approval'[x]]
  BY <1>1 DEF ValidationInv
<1>7. overtaken = {} => RowAgrees'
  BY <1>1, <1>2 DEF RowAgrees, ValidationInv
<1>8. taken[4] \in Nat /\ taken[4] <= saves
  BY DEF ValidationInv
<1>9. overtaken = {} =>
        \A x \in Approvals : approval'[x].at = "read" => CopyAgrees(approval[x].copy)'
  <2> HIDE DEF taken
  <2> SUFFICES ASSUME overtaken = {}, NEW x \in Approvals, approval'[x].at = "read"
               PROVE  CopyAgrees(approval[x].copy)'
    OBVIOUS
  <2>1. CopyAgrees(approval'[x].copy)
    BY <1>3, <1>5 DEF ValidationInv
  <2> QED
    BY <2>1, <1>1, <1>2 DEF CopyAgrees
<1> HIDE DEF taken
<1>10. \A x \in Approvals : approval'[x].at = "read" => approval'[x].copy[4] \in Nat /\ approval'[x].copy[4] <= saves
  BY <1>5, <1>8 DEF ValidationInv
<1> QED
  BY <1>1, <1>6, <1>7, <1>9, <1>10 DEF ValidationInv

\* An approval of current evidence passes it, or leaves it failed; one that is not current
\* shows in overtaken.
LEMMA ApproveStep ==
    ASSUME ValidationInv, NEW a \in Approvals, NEW o \in Operators, Approve(a, o)
    PROVE  ValidationInv'
<1> DEFINE taken == approval[a].copy
           verdict == IF PromotionDecision(taken[1]) THEN "passed" ELSE "failed"
           signer == IF PromotionDecision(taken[1]) THEN o ELSE NoOne
           over == [NoApproval EXCEPT !.at = "done"]
<1>1. /\ approval[a].at = "read"
      /\ status' = IF verdict = taken[2] THEN status ELSE verdict
      /\ approvedBy' = IF signer = taken[3] THEN approvedBy ELSE signer
      /\ overtaken' = IF taken[4] = saves THEN overtaken ELSE overtaken \union {a}
      /\ approval' = [approval EXCEPT ![a] = over]
      /\ UNCHANGED <<evidence, saves>>
  BY DEF Approve
<1>2. over = [at |-> "done", copy |-> <<>>]
  BY DEF NoApproval
<1>3. \A x \in Approvals : approval'[x] = IF x = a THEN over ELSE approval[x]
  BY <1>1 DEF ValidationInv
<1>4. \A x \in Approvals : approval'[x].at = "read" => x # a /\ approval'[x] = approval[x] /\ approval[x].at = "read"
  BY <1>2, <1>3
<1>5. /\ status' \in {"paper_monitoring", "failed", "passed"}
      /\ approvedBy' \in Operators \union {NoOne}
      /\ evidence' \in Submissions /\ saves' \in Nat
  BY <1>1 DEF ValidationInv
<1>6. approval' = [x \in Approvals |-> approval'[x]]
  BY <1>1 DEF ValidationInv
<1>7. PromotionDecision(evidence)' <=> PromotionDecision(evidence)
  BY <1>1 DEF PromotionDecision
<1>8. ASSUME overtaken' = {}
      PROVE  /\ RowAgrees'
             /\ status = "passed" => status' = "passed"
             /\ approvedBy # NoOne => approvedBy' # NoOne
  <2>1. overtaken = {} /\ taken[4] = saves
    BY <1>1, <1>8
  <2>2. RowAgrees /\ CopyAgrees(taken)
    BY <1>1, <2>1 DEF ValidationInv
  <2>3. taken[1] = evidence
    BY <2>1, <2>2 DEF CopyAgrees
  <2> HIDE DEF taken
  <2>4. CASE PromotionDecision(evidence)
    <3>1. verdict = "passed" /\ signer = o /\ o # NoOne
      BY <2>3, <2>4, ValidationAssumption
    <3>2. status' = "passed"
      BY <1>1, <2>1, <2>2, <3>1 DEF CopyAgrees
    <3>3. approvedBy' # NoOne
      BY <1>1, <2>1, <2>2, <3>1 DEF CopyAgrees
    <3> QED
      BY <3>2, <3>3, <1>7, <2>4 DEF RowAgrees
  <2>5. CASE ~PromotionDecision(evidence)
    <3>1. verdict = "failed" /\ signer = NoOne
      BY <2>3, <2>5
    <3>2. status = "failed" /\ approvedBy = NoOne
      BY <2>2, <2>5 DEF RowAgrees
    <3>3. status' = "failed" /\ approvedBy' = NoOne
      BY <1>1, <3>1, <3>2
    <3> QED
      BY <3>2, <3>3, <1>7, <2>5 DEF RowAgrees
  <2> QED
    BY <2>4, <2>5
<1>9. ASSUME overtaken' = {}, NEW x \in Approvals, approval'[x].at = "read"
      PROVE  CopyAgrees(approval[x].copy)'
  <2>1. overtaken = {}
    BY <1>1, <1>9
  <2>2. CopyAgrees(approval[x].copy) /\ approval'[x] = approval[x]
    BY <1>4, <1>9, <2>1 DEF ValidationInv
  <2> QED
    BY <1>1, <1>7, <1>8, <1>9, <2>2 DEF CopyAgrees
<1>10. \A x \in Approvals : approval'[x].at = "read" => approval'[x].copy[4] \in Nat /\ approval'[x].copy[4] <= saves'
  BY <1>1, <1>4 DEF ValidationInv
<1> QED
  BY <1>5, <1>6, <1>8, <1>9, <1>10 DEF ValidationInv

LEMMA ValidationStep == ValidationInv /\ [ValidationNext]_validationVars => ValidationInv'
<1> SUFFICES ASSUME ValidationInv, [ValidationNext]_validationVars
             PROVE  ValidationInv'
  OBVIOUS
<1>1. CASE UNCHANGED validationVars
  BY <1>1 DEF validationVars, ValidationInv, RowAgrees, CopyAgrees, PromotionDecision
<1> QED
  BY <1>1, SubmitStep, ReadStep, ApproveStep DEF ValidationNext

\* The row and every copy of it agree in every behaviour of saveStrategyValidation and
\* approveStrategyValidation.
THEOREM ValidationInductive == ValidationSpec => []ValidationInv
BY InitValidationInv, ValidationStep, PTL DEF ValidationSpec

\* Nothing counts as passed that nobody approved or that did not pass every stress test,
\* unless an approval overtook a submission.
THEOREM ApprovalIsOfEvidence == ValidationSpec => []PassedIsApproved
<1>1. ValidationInv => PassedIsApproved
  BY ValidationAssumption DEF ValidationInv, RowAgrees, PromotionDecision, PassedIsApproved
<1> QED
  BY <1>1, ValidationInductive, PTL

\* What ValidationInv does not bound: the number of submissions, the phase of an approval
\* and the names in overtaken.
ValidationBounds ==
    /\ saves \in 1 .. SaveBound /\ overtaken \subseteq Approvals
    /\ approval = [a \in Approvals |-> approval[a]]
    /\ \A a \in Approvals : approval[a].at \in {"new", "read", "done"}

LEMMA ValidationBounded == ValidationSpec => []ValidationBounds
<1>1. ValidationInit => ValidationBounds
  BY ValidationAssumption DEF ValidationInit, ValidationBounds, NoApproval
<1>2. ASSUME ValidationBounds, [ValidationNext]_validationVars
      PROVE  ValidationBounds'
  <2>1. ASSUME NEW s \in Submissions, Submit(s)
        PROVE  ValidationBounds'
    BY <1>2, <2>1, ValidationAssumption DEF Submit, ValidationBounds
  <2>2. ASSUME NEW a \in Approvals, ReadValidation(a)
        PROVE  ValidationBounds'
    BY <1>2, <2>2 DEF ReadValidation, ValidationBounds
  <2>3. ASSUME NEW a \in Approvals, NEW o \in Operators, Approve(a, o)
        PROVE  ValidationBounds'
    <3>1. /\ saves' = saves /\ overtaken' \subseteq overtaken \union {a}
          /\ approval' = [approval EXCEPT ![a] = [NoApproval EXCEPT !.at = "done"]]
      BY <2>3 DEF Approve
    <3>2. [NoApproval EXCEPT !.at = "done"].at = "done"
      BY DEF NoApproval
    <3> QED
      BY <1>2, <3>1, <3>2 DEF ValidationBounds
  <2>4. CASE UNCHANGED validationVars
    BY <1>2, <2>4 DEF validationVars, ValidationBounds
  <2> QED
    BY <1>2, <2>1, <2>2, <2>3, <2>4 DEF ValidationNext
<1> QED
  BY <1>1, <1>2, PTL DEF ValidationSpec

(***************************************************************************)
(* The Telegram bot                                                        *)
(* The offset of a row, and of the copies of it, tells what was executed.  *)
(***************************************************************************)

\* A loop past the top works on the copy of the row it read.
HasCopy(l) == loop[l].at \in {"polling", "handling", "saving"}

\* Identities of rows are not used twice, and a batch is what follows the copy.
CopiesKnown ==
    /\ tgConfig # NoEntry => tgConfig.id < trouble
    /\ \A l \in Loops : HasCopy(l) =>
         /\ loop[l].copy \in TgRows /\ loop[l].copy.id < trouble
         /\ loop[l].at = "handling" => \A u \in loop[l].batch : loop[l].copy.last < u /\ forgotten < u

\* What may still be executed without another failure was executed less often than there
\* were failures: by the row when the loop comes back to it, by the copy while it works on
\* that; once more often when the row was replaced under the loop.
ByRow == tgConfig # NoEntry => \A u \in Updates : tgConfig.last < u /\ forgotten < u => handled[u] < trouble
ByCopy(l, slack) ==
    \A u \in Updates : loop[l].copy.last < u /\ forgotten < u => handled[u] + slack < trouble
Replaced(l) == tgConfig # NoEntry /\ tgConfig.id # loop[l].copy.id

OffsetsTell ==
    \A l \in Loops :
        /\ loop[l].at \in {"top", "polling"} => ByRow
        /\ HasCopy(l) => ByCopy(l, 0)
        /\ HasCopy(l) /\ Replaced(l) => ByCopy(l, 1) /\ \A u \in Updates : handled[u] < trouble

TgInv == TgTypeOK /\ OneLoop /\ ExecutedOnce /\ CopiesKnown /\ OffsetsTell

LoopStates == [at : {"off", "top", "polling", "handling", "saving"}, cancelled : BOOLEAN,
               copy : TgRows \union {NoEntry}, batch : SUBSET Updates]

-----------------------------------------------------------------------------

LEMMA StartsAtTop == /\ [Off EXCEPT !.at = "top"] \in LoopStates /\ Off \in LoopStates
                     /\ [Off EXCEPT !.at = "top"].at = "top"
BY DEF Off, LoopStates

LEMMA TgInit_Inv == TgInit => TgInv
<1> SUFFICES ASSUME TgInit PROVE TgInv
  OBVIOUS
<1>1. TgTypeOK
  BY TelegramAssumption DEF TgInit, TgTypeOK, Off, Updates
<1> QED
  BY <1>1, TelegramAssumption
  DEF TgInit, TgInv, OneLoop, Running, Off, ExecutedOnce, Updates, CopiesKnown, HasCopy, OffsetsTell

\* Whatever was executed, one more failure leaves room for once more.
LEMMA RoomAfterTrouble ==
    ASSUME TgTypeOK, ExecutedOnce, trouble' = trouble + 1, handled' = handled
    PROVE  /\ ExecutedOnce' /\ \A u \in Updates : handled'[u] < trouble'
           /\ \A u \in Updates : handled[u] < trouble => handled'[u] + 1 < trouble'
BY DEF TgTypeOK, ExecutedOnce

LEMMA UserSends_Inv == ASSUME TgInv, UserSends PROVE TgInv'
<1> USE DEF TgInv, UserSends
<1>1. TgTypeOK'
  BY DEF TgTypeOK
<1> QED
  BY <1>1 DEF OneLoop, Running, ExecutedOnce, CopiesKnown, HasCopy, OffsetsTell, ByRow, ByCopy, Replaced

\* Cancelling a loop changes nothing else of it.
LEMMA DeleteStops_Inv == ASSUME TgInv, DeleteStops PROVE TgInv'
<1> USE DEF TgInv, DeleteStops, StopLoop
<1>1. TgTypeOK'
  BY DEF TgTypeOK
<1>2. \A l \in Loops : loop'[l].at = loop[l].at /\ loop'[l].copy = loop[l].copy /\ loop'[l].batch = loop[l].batch
  BY DEF TgTypeOK
<1>3. OneLoop'
  BY <1>2 DEF OneLoop, Running
<1>4. CopiesKnown'
  BY <1>2 DEF CopiesKnown, HasCopy
<1>5. OffsetsTell'
  BY <1>2 DEF OffsetsTell, HasCopy, ByRow, ByCopy, Replaced
<1> QED
  BY <1>1, <1>3, <1>4, <1>5 DEF ExecutedOnce

LEMMA Destroyed_Inv == ASSUME TgInv, Destroyed PROVE TgInv'
<1> USE DEF TgInv, Destroyed
<1>1. TgTypeOK'
  BY DEF TgTypeOK
<1>4. CopiesKnown'
  BY DEF CopiesKnown, HasCopy
<1>5. OffsetsTell'
  BY DEF OffsetsTell, HasCopy, ByRow, ByCopy, Replaced
<1> QED
  BY <1>1, <1>4, <1>5 DEF ExecutedOnce, OneLoop, Running

\* A loop that starts is the only one, and at the top.
LEMMA Configure_Inv == ASSUME TgInv, NEW l \in Loops, Configure(l) PROVE TgInv'
<1> USE DEF TgInv, Configure, Troubled
<1>0. /\ \A m \in Loops : loop'[m] = loop[m] \/ (m = l /\ loop'[m] = [Off EXCEPT !.at = "top"])
      /\ loop' \in [Loops -> LoopStates]
      /\ tgConfig' \in TgRows
  <2>1. loop \in [Loops -> LoopStates]
    BY DEF TgTypeOK, LoopStates
  <2>2. loop' = loop \/ loop' = [loop EXCEPT ![l] = [Off EXCEPT !.at = "top"]]
    BY DEF StartLoop
  <2>3. tgConfig' \in TgRows
    BY DEF TgTypeOK, TgRows
  <2> QED
    BY <2>1, <2>2, <2>3, StartsAtTop
<1>1. TgTypeOK'
  BY <1>0 DEF TgTypeOK, StartLoop, LoopStates
<1>2. OneLoop'
  <2>1. CASE tgEntry # NoEntry
    BY <2>1 DEF OneLoop, Running, StartLoop
  <2>2. CASE tgEntry = NoEntry
    <3>1. Running = {}
      BY <2>2, TelegramAssumption DEF OneLoop, Running
    <3>2. Running' \subseteq {l} /\ tgEntry' = l
      BY <2>2, <3>1, <1>0 DEF Running, StartLoop
    <3> QED
      BY <3>2 DEF OneLoop
  <2> QED
    BY <2>1, <2>2
<1>3. \A m \in Loops : HasCopy(m)' => HasCopy(m) /\ loop'[m] = loop[m]
  BY <1>0 DEF HasCopy, Off
<1>4. /\ tgConfig'.id < trouble' /\ \A u \in Updates : handled'[u] < trouble'
      /\ \A u \in Updates : handled[u] < trouble => handled'[u] + 1 < trouble'
      /\ ExecutedOnce'
  BY RoomAfterTrouble DEF CopiesKnown, TgTypeOK, TgRows
<1>5. CopiesKnown'
  BY <1>3, <1>4 DEF CopiesKnown, TgTypeOK, TgRows, HasCopy
<1>6. OffsetsTell'
  <2>1. ByRow'
    BY <1>4 DEF ByRow
  <2>2. ASSUME NEW m \in Loops, HasCopy(m)' PROVE ByCopy(m, 0)' /\ ByCopy(m, 1)'
    <3>1. ByCopy(m, 0) /\ loop'[m] = loop[m] /\ forgotten' = forgotten
      BY <1>3, <2>2 DEF OffsetsTell
    <3>2. \A u \in Updates : loop[m].copy.last < u /\ forgotten < u => handled[u] < trouble
      BY <3>1 DEF ByCopy, TgTypeOK
    <3>3. \A u \in Updates : loop[m].copy.last < u /\ forgotten < u => handled'[u] + 1 < trouble' /\ handled'[u] + 0 < trouble'
      BY <3>2, <1>4 DEF TgTypeOK
    <3> QED
      BY <3>1, <3>3 DEF ByCopy
  <2> QED
    BY <1>4, <2>1, <2>2 DEF OffsetsTell
<1> QED
  BY <1>1, <1>2, <1>4, <1>5, <1>6

\* A loop that ends was the only one.
LEMMA NoneLeft ==
    ASSUME TgInv, NEW l \in Loops, loop[l].at # "off", loop' = [loop EXCEPT ![l] = Off]
    PROVE  /\ \A m \in Loops : loop'[m].at = "off"
           /\ Running' = {}
<1>1. \A m \in Loops \ {l} : loop[m].at = "off"
  BY DEF TgInv, OneLoop, Running
<1> QED
  BY <1>1 DEF TgInv, TgTypeOK, Off, Running

LEMMA LoopGone_Inv == ASSUME TgInv, NEW l \in Loops, LoopEnds(l) \/ LoopCrashes(l) PROVE TgInv'
<1>0. /\ loop[l].at = "top" /\ loop' = [loop EXCEPT ![l] = Off]
      /\ tgEntry' \in {tgEntry, NoEntry} /\ trouble' \in {trouble, trouble + 1}
      /\ UNCHANGED <<tgConfig, deleting, sent, forgotten, handled>>
  BY DEF LoopEnds, LoopCrashes, Troubled
<1>1. TgTypeOK'
  <2>1. Off \in [at : {"off", "top", "polling", "handling", "saving"}, cancelled : BOOLEAN,
                 copy : TgRows \union {NoEntry}, batch : SUBSET Updates]
    BY DEF Off
  <2> QED
    BY <1>0, <2>1 DEF TgInv, TgTypeOK
<1>2. \A m \in Loops : loop'[m].at = "off"
  BY <1>0, NoneLeft
<1>3. OneLoop'
  BY <1>0, NoneLeft DEF OneLoop
<1>4. CopiesKnown'
  BY <1>0, <1>2 DEF CopiesKnown, HasCopy, TgInv, TgTypeOK, TgRows
<1>5. OffsetsTell'
  BY <1>2 DEF OffsetsTell, HasCopy
<1>6. ExecutedOnce'
  BY <1>0 DEF ExecutedOnce, TgInv, TgTypeOK
<1> QED
  BY <1>1, <1>3, <1>4, <1>5, <1>6 DEF TgInv

LEMMA Restarts_Inv == ASSUME TgInv, NEW l \in Loops, Restarts(l) PROVE TgInv'
<1> USE DEF TgInv, Restarts, Troubled
<1>0. loop' \in [Loops -> LoopStates]
  <2>1. loop' = [m \in Loops |-> IF m = l /\ tgConfig # NoEntry THEN [Off EXCEPT !.at = "top"] ELSE Off]
    OBVIOUS
  <2> QED
    BY ONLY <2>1, StartsAtTop
<1>1. TgTypeOK'
  <2>1. deleting' \in BOOLEAN
    OBVIOUS
  <2>2. /\ tgConfig' \in TgRows \union {NoEntry} /\ tgEntry' \in Loops \union {NoEntry}
        /\ sent' \in Nat /\ forgotten' \in Nat /\ handled' \in [Updates -> Nat] /\ trouble' \in Nat
    BY DEF TgTypeOK
  <2> QED
    BY ONLY <1>0, <2>1, <2>2 DEF TgTypeOK, LoopStates
<1>2. \A m \in Loops : loop'[m].at \in {"off", "top"} /\ (loop'[m].at = "top" => m = l /\ tgConfig # NoEntry)
  BY DEF Off
<1>3. OneLoop'
  BY <1>2 DEF OneLoop, Running
<1>4. CopiesKnown'
  BY <1>2 DEF CopiesKnown, HasCopy, TgTypeOK, TgRows
<1>5. ExecutedOnce' /\ \A u \in Updates : handled'[u] < trouble'
  BY RoomAfterTrouble
<1>6. OffsetsTell'
  BY <1>2, <1>5 DEF OffsetsTell, HasCopy, ByRow
<1> QED
  BY <1>1, <1>3, <1>4, <1>5, <1>6

\* A step of the running loop l that leaves every other loop alone leaves l the only one.
LEMMA StaysAlone ==
    ASSUME TgInv, NEW l \in Loops, loop[l].at # "off", tgEntry' = tgEntry,
           \A m \in Loops \ {l} : loop'[m] = loop[m]
    PROVE  OneLoop' /\ \A m \in Loops \ {l} : loop'[m].at = "off"
BY DEF TgInv, OneLoop, Running

LEMMA ReadsConfig_Inv == ASSUME TgInv, NEW l \in Loops, ReadsConfig(l) PROVE TgInv'
<1> USE DEF TgInv, ReadsConfig
<1>1. TgTypeOK'
  BY DEF TgTypeOK
<1>2. /\ loop'[l].at = "polling" /\ loop'[l].copy = tgConfig /\ tgConfig \in TgRows
      /\ \A m \in Loops \ {l} : loop'[m] = loop[m]
  BY DEF TgTypeOK
<1>3. OneLoop' /\ \A m \in Loops \ {l} : loop'[m].at = "off"
  BY <1>2, StaysAlone
<1>4. CopiesKnown'
  BY <1>2, <1>3 DEF CopiesKnown, HasCopy
<1>5. ByRow /\ ByRow'
  BY DEF OffsetsTell, ByRow
<1>6. ByCopy(l, 0)' /\ ~Replaced(l)'
  BY <1>2, <1>5 DEF ByRow, ByCopy, Replaced, TgTypeOK
<1>7. OffsetsTell'
  BY <1>2, <1>3, <1>5, <1>6 DEF OffsetsTell, HasCopy
<1> QED
  BY <1>1, <1>3, <1>4, <1>7 DEF ExecutedOnce

LEMMA PollAnswers_Inv == ASSUME TgInv, NEW l \in Loops, PollAnswers(l) PROVE TgInv'
<1> USE DEF TgInv
<1> DEFINE last == loop[l].copy.last
           from == IF forgotten > last THEN forgotten ELSE last
           batch == {u \in Updates : from < u /\ u <= sent}
<1>0. /\ loop[l].at = "polling" /\ forgotten' = from
      /\ UNCHANGED <<tgConfig, tgEntry, deleting, sent, handled, trouble>>
      /\ loop' = IF batch = {} THEN [loop EXCEPT ![l].at = "top", ![l].copy = NoEntry]
                 ELSE [loop EXCEPT ![l].at = "handling", ![l].batch = batch]
  BY DEF PollAnswers
<1>a. loop[l].copy \in TgRows /\ last \in Nat /\ from \in Nat /\ forgotten <= from /\ last <= from
  BY <1>0 DEF CopiesKnown, HasCopy, TgTypeOK, TgRows
<1>b. batch \subseteq Updates /\ \A u \in batch : last < u /\ from < u
  BY <1>a DEF Updates
<1>1. TgTypeOK'
  BY <1>0, <1>a, <1>b DEF TgTypeOK
<1>2. \A m \in Loops \ {l} : loop'[m] = loop[m]
  BY <1>0 DEF TgTypeOK
<1>3. OneLoop' /\ \A m \in Loops \ {l} : loop'[m].at = "off"
  BY <1>0, <1>2, StaysAlone
<1>4. CASE batch = {}
  <2>1. loop'[l].at = "top"
    BY <1>0, <1>4 DEF TgTypeOK
  <2>2. ByRow'
    <3>1. ByRow
      BY <1>0 DEF OffsetsTell
    <3> QED
      BY <3>1, <1>0, <1>a DEF ByRow, TgTypeOK, TgRows, Updates
  <2>3. CopiesKnown'
    BY <1>0, <1>3, <2>1 DEF CopiesKnown, HasCopy
  <2>4. OffsetsTell'
    BY <1>3, <2>1, <2>2 DEF OffsetsTell, HasCopy
  <2> QED
    BY <1>0, <1>1, <1>3, <2>3, <2>4 DEF ExecutedOnce
<1>5. CASE batch # {}
  <2>1. loop'[l].at = "handling" /\ loop'[l].copy = loop[l].copy /\ loop'[l].batch = batch
    BY <1>0, <1>5 DEF TgTypeOK
  <2>2. ASSUME NEW k \in {0, 1}, ByCopy(l, k) PROVE ByCopy(l, k)'
    BY <1>0, <1>a, <2>1, <2>2 DEF ByCopy, Updates, TgTypeOK
  <2>3. CopiesKnown'
    BY <1>0, <1>b, <1>3, <2>1 DEF CopiesKnown, HasCopy
  <2>4. OffsetsTell'
    BY <1>0, <1>3, <2>1, <2>2 DEF OffsetsTell, HasCopy, Replaced
  <2> QED
    BY <1>0, <1>1, <1>3, <2>3, <2>4 DEF ExecutedOnce
<1> QED
  BY <1>4, <1>5

LEMMA HandleUpdate_Inv == ASSUME TgInv, NEW l \in Loops, HandleUpdate(l) PROVE TgInv'
<1> USE DEF TgInv
<1>0. PICK u \in loop[l].batch :
        /\ \A v \in loop[l].batch : u <= v
        /\ handled' = [handled EXCEPT ![u] = @ + 1]
        /\ loop' = [loop EXCEPT ![l].batch = @ \ {u},
                      ![l].at = IF loop[l].batch = {u} THEN "saving" ELSE "handling",
                      ![l].copy.last = u]
  BY DEF HandleUpdate
<1>a. /\ loop[l].at = "handling" /\ UNCHANGED <<tgConfig, tgEntry, deleting, sent, forgotten, trouble>>
      /\ u \in Updates /\ u \in Nat /\ loop[l].copy \in TgRows
      /\ loop[l].copy.last < u /\ forgotten < u
  <2>1. loop[l].at = "handling" /\ UNCHANGED <<tgConfig, tgEntry, deleting, sent, forgotten, trouble>>
    BY DEF HandleUpdate
  <2>2. u \in Updates
    BY DEF TgTypeOK
  <2>3. loop[l].copy \in TgRows /\ loop[l].copy.last < u /\ forgotten < u
    BY <2>1 DEF CopiesKnown, HasCopy
  <2> QED
    BY <2>1, <2>2, <2>3, TelegramAssumption DEF Updates
<1>b. /\ loop'[l].at \in {"handling", "saving"} /\ loop'[l].copy.id = loop[l].copy.id /\ loop'[l].copy.last = u
      /\ loop'[l].copy \in TgRows /\ loop'[l].batch = loop[l].batch \ {u}
      /\ \A m \in Loops \ {l} : loop'[m] = loop[m]
      /\ loop'[l] \in LoopStates
  <2> DEFINE r == [at |-> IF loop[l].batch = {u} THEN "saving" ELSE "handling",
                   cancelled |-> loop[l].cancelled,
                   copy |-> [id |-> loop[l].copy.id, last |-> u],
                   batch |-> loop[l].batch \ {u}]
  <2>1. loop[l].copy = [id |-> loop[l].copy.id, last |-> loop[l].copy.last] /\ loop[l].copy.id \in Nat
    BY <1>a DEF TgRows
  <2>2. [loop[l].copy EXCEPT !.last = u] = [id |-> loop[l].copy.id, last |-> u]
    BY <2>1
  <2>3. loop'[l] = r
    <3>1. loop[l] \in LoopStates /\ loop \in [Loops -> LoopStates]
      BY DEF TgTypeOK, LoopStates
    <3>2. loop'[l] = [loop[l] EXCEPT !.batch = @ \ {u},
                        !.at = IF loop[l].batch = {u} THEN "saving" ELSE "handling", !.copy.last = u]
      BY <1>0, <3>1
    <3>3. loop[l] = [at |-> loop[l].at, cancelled |-> loop[l].cancelled, copy |-> loop[l].copy,
                     batch |-> loop[l].batch]
      BY <3>1 DEF LoopStates
    <3> QED
      BY <3>2, <3>3, <2>2
  <2>4. r \in LoopStates /\ r.copy \in TgRows
    BY <1>a, <2>1 DEF LoopStates, TgTypeOK, TgRows
  <2>5. \A m \in Loops \ {l} : loop'[m] = loop[m]
    BY <1>0 DEF TgTypeOK
  <2> QED
    BY <2>3, <2>4, <2>5
<1>c. handled'[u] = handled[u] + 1 /\ \A v \in Updates \ {u} : handled'[v] = handled[v]
  BY <1>0, <1>a DEF TgTypeOK
<1>1. TgTypeOK'
  <2>0. loop \in [Loops -> LoopStates]
    BY DEF TgTypeOK, LoopStates
  <2>1. loop' \in [Loops -> LoopStates]
    <3>1. loop' = [m \in Loops |-> loop'[m]]
      BY <1>0, <2>0
    <3>2. \A m \in Loops : loop'[m] \in LoopStates
      BY <1>b, <2>0
    <3> QED
      BY <3>1, <3>2
  <2>2. handled' \in [Updates -> Nat]
    <3>1. handled \in [Updates -> Nat] /\ handled[u] + 1 \in Nat
      BY <1>a DEF TgTypeOK
    <3> QED
      BY <1>0, <3>1
  <2> QED
    BY <1>a, <2>1, <2>2 DEF TgTypeOK, LoopStates
<1>2. OneLoop' /\ \A m \in Loops \ {l} : loop'[m].at = "off"
  BY <1>a, <1>b, StaysAlone
<1>3. CopiesKnown'
  <2>0. loop[l].batch \subseteq Nat
    BY TelegramAssumption DEF TgTypeOK, Updates
  <2>1. \A v \in loop[l].batch \ {u} : u < v /\ forgotten < v
    <3>1. \A v \in loop[l].batch : forgotten < v /\ u <= v
      BY <1>0, <1>a DEF CopiesKnown, HasCopy
    <3> QED
      BY <2>0, <3>1, <1>a
  <2> QED
    BY <1>a, <1>b, <1>2, <2>1 DEF CopiesKnown, HasCopy
<1>4. /\ \A v \in Updates : u < v => v \in Nat /\ handled'[v] = handled[v] /\ loop[l].copy.last < v
      /\ \A v \in Updates : handled[v] \in Nat /\ handled'[v] \in Nat
      /\ trouble \in Nat /\ forgotten \in Nat
  BY <1>1, <1>a, <1>c DEF TgTypeOK, Updates, TgRows
<1>5. ASSUME NEW k \in {0, 1}, ByCopy(l, k) PROVE ByCopy(l, k)' /\ handled'[u] + k <= trouble
  <2>1. \A v \in Updates : loop[l].copy.last < v /\ forgotten < v => handled[v] + k < trouble
    BY <1>5 DEF ByCopy
  <2>2. \A v \in Updates : u < v /\ forgotten < v => handled'[v] + k < trouble
    BY <2>1, <1>4
  <2>3. handled[u] + k < trouble
    BY <2>1, <1>a
  <2>4. loop'[l].copy.last = u /\ forgotten' = forgotten /\ trouble' = trouble
    BY <1>a, <1>b
  <2>5. ByCopy(l, k)'
    BY ONLY <2>2, <2>4 DEF ByCopy, Updates
  <2>6. handled'[u] + k <= trouble
    BY ONLY <2>3, <1>c, <1>4, <1>a, k \in {0, 1}
  <2> QED
    BY <2>5, <2>6
<1>6. ExecutedOnce'
  <2>1. ByCopy(l, 0)
    BY <1>a DEF OffsetsTell, HasCopy
  <2> QED
    <3>1. handled'[u] + 0 <= trouble
      BY <2>1, <1>5
    <3> QED
      BY ONLY <3>1, <1>c, <1>4, <1>a, ExecutedOnce DEF ExecutedOnce
<1>7. OffsetsTell'
  <2>1. ByCopy(l, 0)'
    BY <1>5, <1>a DEF OffsetsTell, HasCopy
  <2>2. ASSUME Replaced(l)' PROVE ByCopy(l, 1)' /\ \A v \in Updates : handled'[v] < trouble'
    <3>1. Replaced(l)
      BY <2>2, <1>a, <1>b DEF Replaced
    <3>2. ByCopy(l, 1) /\ \A v \in Updates : handled[v] < trouble
      BY <3>1, <1>a DEF OffsetsTell, HasCopy
    <3> QED
      BY <3>2, <1>5, <1>c, <1>4, <1>a
  <2> QED
    BY <1>b, <1>2, <2>1, <2>2 DEF OffsetsTell, HasCopy
<1> QED
  BY <1>1, <1>2, <1>3, <1>6, <1>7

LEMMA SavesOffset_Inv == ASSUME TgInv, NEW l \in Loops, SavesOffset(l) PROVE TgInv'
<1> USE DEF TgInv, SavesOffset
<1>0. loop[l].copy \in TgRows /\ ByCopy(l, 0)
  BY DEF CopiesKnown, HasCopy, OffsetsTell
<1>1. TgTypeOK'
  <2>1. loop' \in [Loops -> LoopStates]
    <3>1. loop \in [Loops -> LoopStates]
      BY DEF TgTypeOK, LoopStates
    <3>2. [loop[l] EXCEPT !.at = "top", !.copy = NoEntry] \in LoopStates
      BY <3>1 DEF LoopStates
    <3>3. loop' = [loop EXCEPT ![l] = [loop[l] EXCEPT !.at = "top", !.copy = NoEntry]]
      BY <3>1
    <3> QED
      BY <3>1, <3>2, <3>3
  <2>2. tgConfig' \in TgRows \union {NoEntry}
    BY <1>0 DEF TgTypeOK, TgRows
  <2> QED
    BY <2>1, <2>2 DEF TgTypeOK, LoopStates
<1>2. loop'[l].at = "top" /\ \A m \in Loops \ {l} : loop'[m] = loop[m]
  BY DEF TgTypeOK
<1>3. OneLoop' /\ \A m \in Loops \ {l} : loop'[m].at = "off"
  BY <1>2, StaysAlone
<1>4. tgConfig' # NoEntry => tgConfig # NoEntry /\ tgConfig'.id = tgConfig.id
  BY DEF TgTypeOK, TgRows
<1>5. CopiesKnown'
  BY <1>2, <1>3, <1>4 DEF CopiesKnown, HasCopy
<1>6. ByRow'
  <2>1. CASE tgConfig # NoEntry /\ tgConfig.id = loop[l].copy.id
    <3>1. tgConfig'.last = loop[l].copy.last
      BY <2>1 DEF TgTypeOK, TgRows
    <3> QED
      BY <3>1, <1>0 DEF ByRow, ByCopy, TgTypeOK
  <2>2. CASE tgConfig = NoEntry
    BY <2>2 DEF ByRow
  <2>3. CASE Replaced(l)
    <3>1. \A u \in Updates : handled[u] < trouble
      BY <2>3 DEF OffsetsTell, HasCopy
    <3> QED
      BY <3>1 DEF ByRow
  <2> QED
    BY <2>1, <2>2, <2>3 DEF Replaced
<1>7. OffsetsTell'
  BY <1>2, <1>3, <1>6 DEF OffsetsTell, HasCopy
<1> QED
  BY <1>1, <1>3, <1>5, <1>7 DEF ExecutedOnce

LEMMA PollFails_Inv == ASSUME TgInv, NEW l \in Loops, PollFails(l) PROVE TgInv'
<1> USE DEF TgInv, PollFails, Troubled
<1>1. TgTypeOK'
  <2>1. loop' \in [Loops -> LoopStates]
    <3>1. loop \in [Loops -> LoopStates]
      BY DEF TgTypeOK, LoopStates
    <3>2. [loop[l] EXCEPT !.at = "top", !.copy = NoEntry] \in LoopStates
      BY <3>1 DEF LoopStates
    <3>3. loop' = [loop EXCEPT ![l] = [loop[l] EXCEPT !.at = "top", !.copy = NoEntry]]
      BY <3>1
    <3> QED
      BY <3>1, <3>2, <3>3
  <2> QED
    BY <2>1 DEF TgTypeOK, LoopStates
<1>2. loop'[l].at = "top" /\ \A m \in Loops \ {l} : loop'[m] = loop[m]
  BY DEF TgTypeOK
<1>3. OneLoop' /\ \A m \in Loops \ {l} : loop'[m].at = "off"
  BY <1>2, StaysAlone
<1>4. CopiesKnown'
  BY <1>2, <1>3 DEF CopiesKnown, HasCopy, TgTypeOK, TgRows
<1>5. ExecutedOnce' /\ \A u \in Updates : handled'[u] < trouble'
  BY RoomAfterTrouble
<1>7. OffsetsTell'
  BY <1>2, <1>3, <1>5 DEF OffsetsTell, HasCopy, ByRow
<1> QED
  BY <1>1, <1>3, <1>4, <1>5, <1>7

\* Inductive invariant of the bot.
THEOREM TgInductive == TgSpec => []TgInv
<1>1. TgInv /\ UNCHANGED tgVars => TgInv'
  BY DEF TgInv, tgVars, TgTypeOK, OneLoop, Running, ExecutedOnce, CopiesKnown, HasCopy, OffsetsTell,
         ByRow, ByCopy, Replaced
<1>2. TgInv /\ [TgNext]_tgVars => TgInv'
  BY <1>1, UserSends_Inv, DeleteStops_Inv, Destroyed_Inv, Configure_Inv, LoopGone_Inv, Restarts_Inv,
     ReadsConfig_Inv, PollAnswers_Inv, HandleUpdate_Inv, SavesOffset_Inv, PollFails_Inv DEF TgNext
<1> QED
  BY TgInit_Inv, <1>2, PTL DEF TgSpec

\* One loop polls for a bot, and a command is executed once unless an offset was forgotten
\* (startTelegramLoop, stopTelegramLoop and pollOnce of telegramBot.js).
THEOREM CommandsRunOnce == TgSpec => []CommandsOnce
<1>1. TgInv => CommandsOnce
  BY DEF TgInv, CommandsOnce
<1> QED
  BY <1>1, TgInductive, PTL

(***************************************************************************)
(* Price alerts                                                            *)
(* A notification belongs to an arming, and is told by the copy it was     *)
(* decided on until the row is written.                                    *)
(***************************************************************************)

\* The evaluators run inside the tick, hold copies only from loading to their end, and none
\* of a triggered row before they have prices.
CopiesOfTick ==
    /\ ~polling => \A e \in Evaluators : phase[e] = "off"
    /\ \A e \in Evaluators : \A a \in RowsOf(e) :
         /\ phase[e] \in {"off", "loading"} => copy[a] = Missing
         /\ phase[e] = "quoting" => copy[a] = Missing \/ copy[a].status = "active"

Copied(a, state) == copy[a] # Missing /\ copy[a].status = state
RowIs(a, state) == alertRow[a] # Missing /\ alertRow[a].status = state

\* A notification that was written and not sent counts as one that was sent.
Told(a) == fired[a] + (IF Copied(a, "triggered") THEN 1 ELSE 0)

\* A copy that may still fire is of a row that may; an alert that may fire has fired less
\* often than it was armed and its writes failed; and what was armed and may not fire was
\* told, or is about to be, or was lost with the process.
ArmingSpent(a) ==
    /\ Copied(a, "active") => alertRow[a] = Missing \/ RowIs(a, "active")
    /\ Told(a) <= armed[a] + lostWrite[a]
    /\ RowIs(a, "active") \/ Copied(a, "active") => Told(a) + 1 <= armed[a] + lostWrite[a]
    /\ RowIs(a, "triggered") => Told(a) + died >= armed[a]
    /\ RowIs(a, "active") => Told(a) + died + 1 >= armed[a]
ArmingsSpent == \A a \in Alerts : ArmingSpent(a)

\* An evaluator that goes through its copies has prices.
PricesOf(e) == [(IF e = "prices" THEN PriceAlerts ELSE Members) -> Levels \union {Missing}]
AlertTypes ==
    /\ AlertTypeOK
    /\ quote = [e \in Evaluators |-> quote[e]]
    /\ \A e \in Evaluators : phase[e] = "evaluating" => quote[e] \in PricesOf(e)

\* What was written as triggered is triggered by the prices it was written for.
WrittenIsTriggered == \A a \in Alerts : Copied(a, "triggered") => Triggered(a)

AlertInv == AlertTypes /\ CopiesOfTick /\ ArmingsSpent /\ WrittenIsTriggered

-----------------------------------------------------------------------------

LEMMA MissingNoRow == ASSUME NEW r \in AlertRows PROVE r.status \in {"active", "triggered"}
BY DEF AlertRows

LEMMA AlertInit_Inv == AlertInit => AlertInv
<1> SUFFICES ASSUME AlertInit PROVE AlertInv
  OBVIOUS
<1>0. /\ alertRow \in [Alerts -> AlertRows \union {Missing}]
      /\ \A a \in Alerts : alertRow[a] # Missing => alertRow[a].status = "active"
  BY AlertAssumption DEF AlertInit
<1>1. AlertTypes
  BY <1>0 DEF AlertInit, AlertTypes, AlertTypeOK, Evaluators
<1>2. CopiesOfTick
  BY DEF AlertInit, CopiesOfTick, Alerts, RowsOf, Evaluators
<1>3. ArmingsSpent
  BY <1>0 DEF AlertInit, ArmingsSpent, ArmingSpent, Copied, RowIs, Told
<1>4. WrittenIsTriggered
  BY DEF AlertInit, WrittenIsTriggered, Copied
<1> QED
  BY <1>1, <1>2, <1>3, <1>4 DEF AlertInv

\* The average of the quotes is of a type the row takes.
LEMMA BasketTyped ==
    ASSUME NEW prices \in [Members -> Levels \union {Missing}]
    PROVE  Basket(prices) \in [sum : Nat, of : Nat]
<1>1. IsFiniteSet(Quoted(prices)) /\ Quoted(prices) \subseteq Members
  BY AlertAssumption, FS_Subset DEF Quoted
<1>2. \A m \in Quoted(prices) : prices[m] \in Nat
  BY AlertAssumption DEF Quoted
<1>3. BasketSum(prices) \in Nat
  BY <1>1, <1>2, SumNat DEF BasketSum
<1>4. Cardinality(Quoted(prices)) \in Nat
  BY <1>1, FS_CardinalityType
<1> QED
  BY <1>3, <1>4 DEF Basket

\* An alert nobody touches keeps its account.
LEMMA SpentKept ==
    ASSUME NEW a, ArmingSpent(a), alertRow'[a] = alertRow[a], copy'[a] = copy[a], armed'[a] = armed[a],
           lostWrite'[a] = lostWrite[a], fired'[a] = fired[a], died' = died
    PROVE  ArmingSpent(a)'
BY DEF ArmingSpent, Copied, RowIs, Told

\* Whether an alert is triggered is a matter of its copy and of the prices of its evaluator.
LEMMA TriggeredKept ==
    ASSUME NEW a \in Alerts, copy'[a] = copy[a], \A e \in Evaluators : a \in RowsOf(e) => quote'[e] = quote[e]
    PROVE  Triggered(a)' = Triggered(a)
<1>1. /\ a \in PriceAlerts => quote'["prices"] = quote["prices"]
      /\ a \notin PriceAlerts => quote'["themes"] = quote["themes"]
  BY DEF Evaluators, RowsOf, Alerts
<1> QED
  BY <1>1 DEF Triggered

LEMMA WrittenKept ==
    ASSUME WrittenIsTriggered, quote' = quote, \A a \in Alerts : Copied(a, "triggered")' => copy'[a] = copy[a]
    PROVE  WrittenIsTriggered'
<1> SUFFICES ASSUME NEW a \in Alerts, Copied(a, "triggered")' PROVE Triggered(a)'
  BY DEF WrittenIsTriggered
<1>1. copy'[a] = copy[a] /\ Copied(a, "triggered")
  BY DEF Copied
<1> QED
  BY <1>1, TriggeredKept DEF WrittenIsTriggered

\* The counts of an alert are numbers.
LEMMA Counts ==
    ASSUME AlertTypeOK, NEW a \in Alerts
    PROVE  /\ fired[a] \in Nat /\ armed[a] \in Nat /\ lostWrite[a] \in Nat /\ died \in Nat
           /\ Told(a) \in Nat
           /\ copy[a] \in AlertRows \union {Missing} /\ alertRow[a] \in AlertRows \union {Missing}
BY DEF AlertTypeOK, Told

\* An alert belongs to one evaluator.
LEMMA OneEvaluator ==
    ASSUME NEW e \in Evaluators, NEW d \in Evaluators, NEW a \in RowsOf(e), a \in RowsOf(d)
    PROVE  e = d /\ a \in Alerts
BY AlertAssumption DEF Evaluators, RowsOf, Alerts

LEMMA TickBounds_Inv ==
    ASSUME AlertInv, TickStarts \/ TickEnds PROVE AlertInv'
<1>0. /\ UNCHANGED <<alertRow, copy, quote, historyVars>> /\ polling' \in BOOLEAN
      /\ phase' \in [Evaluators -> {"off", "loading"}]
      /\ \A e \in Evaluators : phase[e] = "off"
      /\ (phase' = phase \/ polling')
  <2>1. CASE TickStarts
    BY <2>1 DEF TickStarts, AlertInv, CopiesOfTick
  <2>2. CASE TickEnds
    BY <2>2 DEF TickEnds, AlertInv, AlertTypes, AlertTypeOK
  <2> QED
    BY <2>1, <2>2
<1>1. AlertTypes'
  BY <1>0 DEF AlertInv, AlertTypes, AlertTypeOK, historyVars
<1>2. CopiesOfTick'
  BY <1>0 DEF AlertInv, CopiesOfTick
<1>3. ArmingsSpent'
  BY <1>0, SpentKept DEF AlertInv, ArmingsSpent, historyVars
<1>4. WrittenIsTriggered'
  BY <1>0, WrittenKept DEF AlertInv
<1> QED
  BY <1>1, <1>2, <1>3, <1>4 DEF AlertInv

\* Whatever becomes of the copies of an evaluator, the other keeps its own.
LEMMA Load_Inv ==
    ASSUME AlertInv, NEW e \in Evaluators, NEW rows \in SUBSET RowsOf(e), Load(e, rows) PROVE AlertInv'
<1> USE DEF AlertInv
<1>0. /\ phase[e] = "loading"
      /\ \A a \in rows : RowIs(a, "active")
      /\ copy' = [a \in Alerts |-> IF a \in rows THEN alertRow[a] ELSE copy[a]]
      /\ phase' = [phase EXCEPT ![e] = IF rows = {} THEN "off" ELSE "quoting"]
      /\ UNCHANGED <<alertRow, polling, quote, historyVars>>
  BY DEF Load, RowIs
<1>1. AlertTypes'
  BY <1>0 DEF AlertTypes, AlertTypeOK, historyVars
<1>2. CopiesOfTick'
  <2>1. \A d \in Evaluators \ {e} : phase'[d] = phase[d]
    BY <1>0 DEF AlertTypes, AlertTypeOK
  <2>2. \A d \in Evaluators \ {e} : \A a \in RowsOf(d) : copy'[a] = copy[a]
    BY <1>0, OneEvaluator DEF AlertTypes, AlertTypeOK
  <2>3. phase'[e] = IF rows = {} THEN "off" ELSE "quoting"
    BY <1>0 DEF AlertTypes, AlertTypeOK
  <2>4. \A a \in RowsOf(e) : copy'[a] = IF a \in rows THEN alertRow[a] ELSE Missing
    BY <1>0, OneEvaluator DEF CopiesOfTick
  <2>5. polling' = polling /\ (polling \/ phase[e] = "off")
    BY <1>0 DEF CopiesOfTick
  <2> QED
    BY <1>0, <2>1, <2>2, <2>3, <2>4, <2>5 DEF CopiesOfTick, RowIs
<1>3. ASSUME NEW a \in Alerts PROVE ArmingSpent(a)'
  <2>1. CASE a \in rows
    <3>1. copy'[a] = alertRow[a] /\ copy[a] = Missing
      BY <1>0, <2>1 DEF CopiesOfTick
    <3> QED
      BY <1>0, <2>1, <3>1 DEF ArmingsSpent, ArmingSpent, Copied, RowIs, Told, historyVars
  <2>2. CASE a \notin rows
    BY <1>0, <2>2, SpentKept DEF ArmingsSpent, historyVars
  <2> QED
    BY <2>1, <2>2
<1>4. WrittenIsTriggered'
  BY <1>0, WrittenKept DEF Copied, RowIs
<1> QED
  BY <1>1, <1>2, <1>3, <1>4 DEF ArmingsSpent

LEMMA Quotes_Inv == ASSUME AlertInv, NEW e \in Evaluators, Quotes(e) PROVE AlertInv'
<1> USE DEF AlertInv
<1>0. /\ phase[e] = "quoting" /\ phase' = [phase EXCEPT ![e] = "evaluating"]
      /\ UNCHANGED <<alertRow, polling, copy, historyVars>>
  BY DEF Quotes
<1>1. AlertTypes'
  <2>1. PICK q \in [(IF e = "prices" THEN PriceAlerts ELSE Members) -> Levels \union {Missing}] :
          quote' = [quote EXCEPT ![e] = q]
    BY DEF Quotes
  <2>2. /\ quote' = [d \in Evaluators |-> quote'[d]] /\ quote'[e] = q
        /\ \A d \in Evaluators \ {e} : quote'[d] = quote[d]
    BY <2>1 DEF AlertTypes
  <2>3. /\ quote'["prices"] \in [PriceAlerts -> Levels \union {Missing}] \union {Missing}
        /\ quote'["themes"] \in [Members -> Levels \union {Missing}] \union {Missing}
    BY <2>2 DEF AlertTypes, AlertTypeOK, Evaluators
  <2>4. \A d \in Evaluators : phase'[d] = "evaluating" => quote'[d] \in PricesOf(d)
    BY <1>0, <2>2 DEF AlertTypes, AlertTypeOK, PricesOf
  <2> QED
    BY <1>0, <2>2, <2>3, <2>4 DEF AlertTypes, AlertTypeOK, historyVars
<1>2. CopiesOfTick'
  BY <1>0 DEF CopiesOfTick, AlertTypes, AlertTypeOK
<1>3. ArmingsSpent'
  BY <1>0, SpentKept DEF ArmingsSpent, historyVars
<1>4. ASSUME NEW a \in Alerts, Copied(a, "triggered")' PROVE Triggered(a)'
  <2>1. Copied(a, "triggered") /\ a \notin RowsOf(e)
    BY <1>0, <1>4 DEF Copied, CopiesOfTick
  <2>2. \A d \in Evaluators : a \in RowsOf(d) => quote'[d] = quote[d]
    BY <2>1 DEF Quotes, AlertTypes
  <2> QED
    BY <1>0, <2>1, <2>2, TriggeredKept DEF WrittenIsTriggered
<1> QED
  BY <1>1, <1>2, <1>3, <1>4 DEF WrittenIsTriggered

LEMMA QuotesFail_Inv == ASSUME AlertInv, NEW e \in Evaluators, QuotesFail(e) PROVE AlertInv'
<1> USE DEF AlertInv
<1>0. /\ phase[e] = "quoting" /\ phase' = [phase EXCEPT ![e] = "off"]
      /\ copy' = [a \in Alerts |-> IF a \in RowsOf(e) THEN Missing ELSE copy[a]]
      /\ UNCHANGED <<alertRow, polling, quote, historyVars>>
  BY DEF QuotesFail
<1>1. AlertTypes'
  BY <1>0 DEF AlertTypes, AlertTypeOK, historyVars
<1>2. CopiesOfTick'
  <2>1. \A d \in Evaluators \ {e} : \A a \in RowsOf(d) : copy'[a] = copy[a]
    BY <1>0, OneEvaluator
  <2>2. \A a \in RowsOf(e) : copy'[a] = Missing
    BY <1>0, OneEvaluator
  <2>3. phase'[e] = "off" /\ \A d \in Evaluators \ {e} : phase'[d] = phase[d]
    BY <1>0 DEF AlertTypes, AlertTypeOK
  <2> QED
    BY <1>0, <2>1, <2>2, <2>3 DEF CopiesOfTick
<1>3. ASSUME NEW a \in Alerts PROVE ArmingSpent(a)'
  <2>1. CASE a \in RowsOf(e)
    <3>1. copy'[a] = Missing /\ ~Copied(a, "triggered")
      BY <1>0, <2>1 DEF CopiesOfTick, Copied
    <3> QED
      BY <1>0, <3>1 DEF ArmingsSpent, ArmingSpent, Copied, RowIs, Told, historyVars
  <2>2. CASE a \notin RowsOf(e)
    BY <1>0, <2>2, SpentKept DEF ArmingsSpent, historyVars
  <2> QED
    BY <2>1, <2>2
<1>4. WrittenIsTriggered'
  BY <1>0, WrittenKept DEF Copied
<1> QED
  BY <1>1, <1>2, <1>3, <1>4 DEF ArmingsSpent

\* While an evaluator goes through its copies, the tick is on and no rule binds them.
LEMMA CopiesEvaluated ==
    ASSUME AlertInv, NEW e \in Evaluators, phase[e] = "evaluating", NEW a \in RowsOf(e), UNCHANGED <<polling, phase>>,
           \A b \in Alerts \ {a} : copy'[b] = copy[b]
    PROVE  CopiesOfTick'
<1>1. \A d \in Evaluators \ {e} : \A b \in RowsOf(d) : copy'[b] = copy[b]
  BY OneEvaluator
<1> QED
  BY <1>1 DEF AlertInv, CopiesOfTick

LEMMA PassOver_Inv ==
    ASSUME AlertInv, NEW e \in Evaluators, NEW a \in Alerts, PassOver(e, a) PROVE AlertInv'
<1> USE DEF AlertInv
<1>0. /\ phase[e] = "evaluating" /\ a \in RowsOf(e) /\ copy[a] # Missing
      /\ copy' = [copy EXCEPT ![a] = Missing]
      /\ UNCHANGED <<polling, phase, quote, historyVars>>
  BY DEF PassOver, Done
<1>1. /\ alertRow' \in [Alerts -> AlertRows \union {Missing}]
      /\ \A b \in Alerts : alertRow[b] = Missing => alertRow'[b] = Missing
      /\ \A b \in Alerts : alertRow[b] # Missing => alertRow'[b].status = alertRow[b].status
  <2>1. CASE a \in ThemeAlerts /\ NeedsBaseline(copy[a], quote[e]) /\ alertRow[a] # Missing
    <3>1. e = "themes"
      BY <1>0, <2>1, AlertAssumption DEF RowsOf, Evaluators
    <3>2. quote[e] \in [Members -> Levels \union {Missing}]
      BY <1>0, <3>1 DEF AlertTypes, PricesOf
    <3>3. Basket(quote[e]) \in [sum : Nat, of : Nat]
      BY <3>2, BasketTyped
    <3>4. alertRow' = [alertRow EXCEPT ![a].baseline = Basket(quote[e])] /\ alertRow[a] \in AlertRows
      BY <2>1 DEF PassOver, AlertTypes, AlertTypeOK
    <3>5. [alertRow[a] EXCEPT !.baseline = Basket(quote[e])] \in AlertRows
      BY <3>3, <3>4 DEF AlertRows
    <3>6. [alertRow[a] EXCEPT !.baseline = Basket(quote[e])].status = alertRow[a].status
      BY <3>4 DEF AlertRows
    <3>7. alertRow' = [alertRow EXCEPT ![a] = [alertRow[a] EXCEPT !.baseline = Basket(quote[e])]]
      BY <3>4
    <3> QED
      BY ONLY <2>1, <3>5, <3>6, <3>7, AlertTypes, a \in Alerts DEF AlertTypes, AlertTypeOK
  <2>2. CASE ~(a \in ThemeAlerts /\ NeedsBaseline(copy[a], quote[e]) /\ alertRow[a] # Missing)
    <3>1. alertRow' = alertRow
      BY <2>2 DEF PassOver
    <3> QED
      BY <3>1 DEF AlertTypes, AlertTypeOK
  <2> QED
    BY <2>1, <2>2
<1>2. AlertTypes'
  BY <1>0, <1>1 DEF AlertTypes, AlertTypeOK, historyVars
<1>3. CopiesOfTick'
  BY <1>0, CopiesEvaluated DEF AlertTypes, AlertTypeOK
<1>4. copy'[a] = Missing /\ ~Copied(a, "triggered") /\ \A b \in Alerts \ {a} : copy'[b] = copy[b]
  BY <1>0 DEF PassOver, WrittenIsTriggered, AlertTypes, AlertTypeOK
<1>5. ASSUME NEW b \in Alerts PROVE ArmingSpent(b)'
  <2>1. /\ RowIs(b, "active")' => RowIs(b, "active")
        /\ RowIs(b, "triggered")' => RowIs(b, "triggered")
        /\ RowIs(b, "active") => alertRow'[b] = Missing \/ RowIs(b, "active")'
    BY <1>1 DEF RowIs
  <2>2. Told(b)' = Told(b) /\ (Copied(b, "active")' => Copied(b, "active"))
    BY <1>0, <1>4 DEF Told, Copied, historyVars
  <2> QED
    BY <1>0, <1>1, <2>1, <2>2 DEF ArmingsSpent, ArmingSpent, historyVars
<1>6. WrittenIsTriggered'
  BY <1>0, <1>4, WrittenKept DEF Copied
<1> QED
  BY <1>2, <1>3, <1>5, <1>6 DEF ArmingsSpent

LEMMA WriteTriggered_Inv ==
    ASSUME AlertInv, NEW e \in Evaluators, NEW a \in Alerts, NEW written \in BOOLEAN, WriteTriggered(e, a, written)
    PROVE  AlertInv'
<1> USE DEF AlertInv
<1>0. /\ phase[e] = "evaluating" /\ a \in RowsOf(e) /\ copy[a] # Missing
      /\ copy[a].status = "active" /\ Triggered(a)
      /\ copy' = [copy EXCEPT ![a].status = "triggered"]
      /\ UNCHANGED <<polling, phase, quote, armed, fired, died>>
  BY DEF WriteTriggered
<1>1. copy[a] \in AlertRows /\ [copy[a] EXCEPT !.status = "triggered"] \in AlertRows
  BY <1>0 DEF AlertTypes, AlertTypeOK, AlertRows
<1>2. /\ copy' \in [Alerts -> AlertRows \union {Missing}]
      /\ copy'[a] = [copy[a] EXCEPT !.status = "triggered"]
      /\ \A b \in Alerts \ {a} : copy'[b] = copy[b]
  BY <1>0, <1>1 DEF AlertTypes, AlertTypeOK
<1>3. copy'[a].status = "triggered"
  BY <1>1, <1>2 DEF AlertRows
<1>4. \/ written /\ lostWrite' = lostWrite /\ (alertRow[a] = Missing => alertRow' = alertRow)
         /\ (alertRow[a] # Missing => alertRow' = [alertRow EXCEPT ![a] = [alertRow[a] EXCEPT !.status = "triggered"]])
      \/ alertRow' = alertRow /\ lostWrite' = [lostWrite EXCEPT ![a] = @ + 1]
  BY DEF WriteTriggered
<1>5. alertRow[a] # Missing => /\ [alertRow[a] EXCEPT !.status = "triggered"] \in AlertRows
                               /\ [alertRow[a] EXCEPT !.status = "triggered"].status = "triggered"
  BY DEF AlertTypes, AlertTypeOK, AlertRows
<1>6. AlertTypes'
  <2>1. alertRow' \in [Alerts -> AlertRows \union {Missing}]
    BY <1>4, <1>5 DEF AlertTypes, AlertTypeOK
  <2>2. lostWrite' \in [Alerts -> Nat]
    BY <1>4 DEF AlertTypes, AlertTypeOK
  <2> QED
    BY <1>0, <1>2, <2>1, <2>2 DEF AlertTypes, AlertTypeOK
<1>7. CopiesOfTick'
  BY <1>0, <1>2, CopiesEvaluated
<1>8. ArmingSpent(a)'
  <2>0. copy'[a] # Missing
    BY <1>1, <1>2, AlertAssumption
  <2>1. Copied(a, "active") /\ ~Copied(a, "triggered") /\ ~Copied(a, "active")' /\ Copied(a, "triggered")'
    BY <1>0, <1>3, <2>0 DEF Copied
  <2>2. Told(a) = fired[a] /\ Told(a)' = fired[a] + 1
    BY <1>0, <2>1, Counts DEF Told, AlertTypes
  <2>3. Told(a) + 1 <= armed[a] + lostWrite[a] /\ (alertRow[a] = Missing \/ RowIs(a, "active"))
    BY <2>1 DEF ArmingsSpent, ArmingSpent
  <2>4. /\ fired[a] \in Nat /\ armed[a] \in Nat /\ lostWrite[a] \in Nat /\ died \in Nat
        /\ armed'[a] = armed[a] /\ died' = died
    BY <1>0, Counts DEF AlertTypes
  <2>5. CASE lostWrite'[a] = lostWrite[a] /\ ~RowIs(a, "active")'
    <3>1. RowIs(a, "triggered")' => RowIs(a, "active")
      BY <1>4, <2>3, <2>4 DEF RowIs, AlertTypes, AlertTypeOK
    <3>2. RowIs(a, "active") => fired[a] + died + 1 >= armed[a]
      BY <2>2 DEF ArmingsSpent, ArmingSpent
    <3> QED
      BY <2>1, <2>2, <2>3, <2>4, <2>5, <3>1, <3>2 DEF ArmingSpent
  <2>6. CASE lostWrite'[a] = lostWrite[a] + 1 /\ alertRow' = alertRow
    <3>1. ~RowIs(a, "triggered")' /\ (RowIs(a, "active")' <=> RowIs(a, "active"))
      BY <2>3, <2>6 DEF RowIs
    <3>2. RowIs(a, "active") => fired[a] + died + 1 >= armed[a]
      BY <2>2 DEF ArmingsSpent, ArmingSpent
    <3> QED
      BY <2>1, <2>2, <2>3, <2>4, <2>6, <3>1, <3>2 DEF ArmingSpent
  <2>7. \/ lostWrite'[a] = lostWrite[a] /\ ~RowIs(a, "active")'
        \/ lostWrite'[a] = lostWrite[a] + 1 /\ alertRow' = alertRow
    BY <1>4, <1>5 DEF RowIs, AlertTypes, AlertTypeOK
  <2> QED
    BY <2>5, <2>6, <2>7
<1>9. ASSUME NEW b \in Alerts \ {a} PROVE ArmingSpent(b)'
  <2>1. alertRow'[b] = alertRow[b] /\ lostWrite'[b] = lostWrite[b]
    BY <1>4 DEF AlertTypes, AlertTypeOK
  <2> QED
    BY <1>0, <1>2, <2>1, SpentKept DEF ArmingsSpent
<1>10. WrittenIsTriggered'
  <2>1. Triggered(a)'
    <3>1. /\ copy'[a].kind = copy[a].kind /\ copy'[a].target = copy[a].target
          /\ copy'[a].baseline = copy[a].baseline
      BY <1>1, <1>2 DEF AlertRows
    <3>2. quote' = quote /\ Triggered(a)
      BY <1>0
    <3>3. CASE a \in PriceAlerts
      BY <3>1, <3>2, <3>3 DEF Triggered, PriceTriggered
    <3>4. CASE a \notin PriceAlerts
      BY <3>1, <3>2, <3>4 DEF Triggered, ThemeTriggered
    <3> QED
      BY <3>3, <3>4
  <2>2. ASSUME NEW b \in Alerts \ {a}, Copied(b, "triggered")' PROVE Triggered(b)'
    BY <1>0, <1>2, <2>2, TriggeredKept DEF Copied, WrittenIsTriggered
  <2> QED
    BY <2>1, <2>2 DEF WrittenIsTriggered
<1> QED
  BY <1>6, <1>7, <1>8, <1>9, <1>10 DEF ArmingsSpent

LEMMA Notify_Inv ==
    ASSUME AlertInv, NEW e \in Evaluators, NEW a \in Alerts, Notify(e, a) PROVE AlertInv'
<1> USE DEF AlertInv
<1>0. /\ phase[e] = "evaluating" /\ a \in RowsOf(e) /\ Copied(a, "triggered")
      /\ fired' = [fired EXCEPT ![a] = @ + 1] /\ copy' = [copy EXCEPT ![a] = Missing]
      /\ UNCHANGED <<alertRow, polling, phase, quote, armed, lostWrite, died>>
  BY DEF Notify, Copied, Done
<1>1. AlertTypes'
  BY <1>0 DEF AlertTypes, AlertTypeOK
<1>2. /\ copy'[a] = Missing /\ fired'[a] = fired[a] + 1
      /\ \A b \in Alerts \ {a} : copy'[b] = copy[b] /\ fired'[b] = fired[b]
  BY <1>0 DEF AlertTypes, AlertTypeOK
<1>3. CopiesOfTick'
  BY <1>0, <1>2, CopiesEvaluated
<1>4. ArmingSpent(a)'
  <2>1. Told(a)' = Told(a) /\ ~Copied(a, "active")'
    BY <1>0, <1>2, Counts DEF Told, Copied, AlertTypes
  <2> QED
    BY <1>0, <2>1 DEF ArmingsSpent, ArmingSpent, RowIs
<1>5. ASSUME NEW b \in Alerts \ {a} PROVE ArmingSpent(b)'
  BY <1>0, <1>2, SpentKept DEF ArmingsSpent
<1>6. WrittenIsTriggered'
  BY <1>0, <1>2, WrittenKept DEF Copied
<1> QED
  BY <1>1, <1>3, <1>4, <1>5, <1>6 DEF ArmingsSpent

LEMMA EvaluatorEnds_Inv == ASSUME AlertInv, NEW e \in Evaluators, EvaluatorEnds(e) PROVE AlertInv'
<1> USE DEF AlertInv
<1>0. /\ phase[e] = "evaluating" /\ \A a \in RowsOf(e) : copy[a] = Missing
      /\ phase' = [phase EXCEPT ![e] = "off"] /\ quote' = [quote EXCEPT ![e] = Missing]
      /\ UNCHANGED <<alertRow, polling, copy, historyVars>>
  BY DEF EvaluatorEnds
<1>1. AlertTypes'
  <2>1. /\ quote' = [d \in Evaluators |-> quote'[d]] /\ quote'[e] = Missing
        /\ \A d \in Evaluators \ {e} : quote'[d] = quote[d] /\ phase'[d] = phase[d]
        /\ phase'[e] = "off"
    BY <1>0 DEF AlertTypes, AlertTypeOK
  <2>2. /\ quote'["prices"] \in [PriceAlerts -> Levels \union {Missing}] \union {Missing}
        /\ quote'["themes"] \in [Members -> Levels \union {Missing}] \union {Missing}
    BY <2>1 DEF AlertTypes, AlertTypeOK, Evaluators
  <2> QED
    BY <1>0, <2>1, <2>2 DEF AlertTypes, AlertTypeOK, historyVars
<1>2. CopiesOfTick'
  BY <1>0 DEF CopiesOfTick, AlertTypes, AlertTypeOK
<1>3. ArmingsSpent'
  BY <1>0, SpentKept DEF ArmingsSpent, historyVars
<1>4. ASSUME NEW a \in Alerts, Copied(a, "triggered")' PROVE Triggered(a)'
  <2>1. Copied(a, "triggered") /\ a \notin RowsOf(e)
    BY <1>0, <1>4 DEF Copied
  <2>2. \A d \in Evaluators : a \in RowsOf(d) => quote'[d] = quote[d]
    BY <1>0, <2>1 DEF AlertTypes
  <2> QED
    BY <1>0, <2>1, <2>2, TriggeredKept DEF WrittenIsTriggered
<1> QED
  BY <1>1, <1>2, <1>3, <1>4 DEF WrittenIsTriggered

LEMMA ProcessDies_Inv == ASSUME AlertInv, ProcessDies PROVE AlertInv'
<1> USE DEF AlertInv, ProcessDies
<1>1. AlertTypes'
  <2>1. polling' \in BOOLEAN
    OBVIOUS
  <2>2. /\ quote' = [e \in Evaluators |-> quote'[e]] /\ quote'["prices"] = Missing /\ quote'["themes"] = Missing
        /\ \A e \in Evaluators : phase'[e] = "off"
        /\ phase' \in [Evaluators -> {"off", "loading", "quoting", "evaluating"}]
    BY DEF Evaluators
  <2>3. died' \in Nat /\ copy' \in [Alerts -> AlertRows \union {Missing}]
    BY DEF AlertTypes, AlertTypeOK
  <2>4. UNCHANGED <<alertRow, armed, fired, lostWrite>>
    OBVIOUS
  <2> QED
    BY ONLY AlertTypes, <2>1, <2>2, <2>3, <2>4 DEF AlertTypes, AlertTypeOK
<1>2. CopiesOfTick'
  BY DEF CopiesOfTick, RowsOf, Alerts, Evaluators
<1>3. ASSUME NEW a \in Alerts PROVE ArmingSpent(a)'
  <2>1. ~Copied(a, "active")' /\ Told(a)' = fired[a] /\ fired[a] <= Told(a) /\ Told(a) <= fired[a] + 1
    BY Counts DEF Copied, Told, AlertTypes
  <2>2. Told(a)' <= Told(a) /\ Told(a) + died <= Told(a)' + died' /\ Told(a)' \in Nat /\ died' \in Nat
    BY <2>1, Counts DEF AlertTypes
  <2>3. /\ RowIs(a, "active")' = RowIs(a, "active") /\ RowIs(a, "triggered")' = RowIs(a, "triggered")
        /\ armed'[a] = armed[a] /\ lostWrite'[a] = lostWrite[a] /\ armed[a] \in Nat /\ lostWrite[a] \in Nat
        /\ Told(a) \in Nat /\ died \in Nat
    BY Counts DEF RowIs, AlertTypes
  <2> QED
    BY <2>1, <2>2, <2>3 DEF ArmingsSpent, ArmingSpent
<1>4. WrittenIsTriggered'
  BY DEF WrittenIsTriggered, Copied
<1> QED
  BY <1>1, <1>2, <1>3, <1>4 DEF ArmingsSpent

LEMMA Rearm_Inv ==
    ASSUME AlertInv, NEW a \in Alerts, NEW level \in Levels, Rearm(a, level) PROVE AlertInv'
<1> USE DEF AlertInv, Rearm
<1> DEFINE r == [alertRow[a] EXCEPT !.status = "active", !.target = level]
<1>0. /\ r \in AlertRows /\ r.status = "active" /\ alertRow' = [alertRow EXCEPT ![a] = r]
      /\ alertRow'[a] = r /\ \A b \in Alerts \ {a} : alertRow'[b] = alertRow[b]
  BY DEF AlertTypes, AlertTypeOK, AlertRows
<1> HIDE DEF r
<1>1. AlertTypes'
  BY <1>0 DEF AlertTypes, AlertTypeOK, tickVars
<1>2. CopiesOfTick'
  BY DEF CopiesOfTick, tickVars
<1>3. ArmingSpent(a)'
  <2>1. RowIs(a, "active")' /\ ~RowIs(a, "triggered")'
    BY <1>0, AlertAssumption DEF RowIs
  <2>2. RowIs(a, "active") \/ RowIs(a, "triggered")
    BY Counts DEF RowIs, AlertTypes, AlertRows
  <2>3. /\ Told(a)' = Told(a) /\ died' = died /\ lostWrite'[a] = lostWrite[a]
        /\ armed[a] \in Nat /\ lostWrite[a] \in Nat /\ Told(a) \in Nat /\ died \in Nat
    BY Counts DEF Told, Copied, tickVars, AlertTypes
  <2>4. CASE RowIs(a, "active")
    <3>1. armed'[a] = armed[a]
      BY <2>4 DEF RowIs
    <3> QED
      BY <2>1, <2>3, <2>4, <3>1 DEF ArmingsSpent, ArmingSpent
  <2>5. CASE ~RowIs(a, "active")
    <3>1. armed'[a] = armed[a] + 1
      BY <2>5 DEF RowIs, AlertTypes, AlertTypeOK
    <3> QED
      BY <2>1, <2>2, <2>3, <2>5, <3>1 DEF ArmingsSpent, ArmingSpent
  <2> QED
    BY <2>4, <2>5
<1>4. ASSUME NEW b \in Alerts \ {a} PROVE ArmingSpent(b)'
  <2>1. armed'[b] = armed[b]
    BY DEF AlertTypes, AlertTypeOK
  <2> QED
    BY <1>0, <2>1, SpentKept DEF ArmingsSpent, tickVars
<1>5. WrittenIsTriggered'
  BY WrittenKept DEF tickVars, Copied
<1> QED
  BY <1>1, <1>2, <1>3, <1>4, <1>5 DEF ArmingsSpent

LEMMA Delete_Inv == ASSUME AlertInv, NEW a \in Alerts, Delete(a) PROVE AlertInv'
<1> USE DEF AlertInv, Delete
<1>1. AlertTypes'
  BY DEF AlertTypes, AlertTypeOK, tickVars, historyVars
<1>2. CopiesOfTick'
  BY DEF CopiesOfTick, tickVars
<1>0. alertRow'[a] = Missing /\ \A b \in Alerts \ {a} : alertRow'[b] = alertRow[b]
  BY DEF AlertTypes, AlertTypeOK
<1>3. ArmingSpent(a)'
  BY <1>0 DEF ArmingsSpent, ArmingSpent, Told, Copied, RowIs, tickVars, historyVars
<1>4. ASSUME NEW b \in Alerts \ {a} PROVE ArmingSpent(b)'
  BY <1>0, SpentKept DEF ArmingsSpent, tickVars, historyVars
<1>5. WrittenIsTriggered'
  BY WrittenKept DEF tickVars, Copied
<1> QED
  BY <1>1, <1>2, <1>3, <1>4, <1>5 DEF ArmingsSpent

\* Inductive invariant of the evaluator.
THEOREM AlertInductive == AlertSpec => []AlertInv
<1>1. AlertInv /\ UNCHANGED alertVars => AlertInv'
  <2> SUFFICES ASSUME AlertInv, UNCHANGED alertVars PROVE AlertInv'
    OBVIOUS
  <2>0. UNCHANGED <<alertRow, polling, phase, copy, quote, armed, fired, lostWrite, died>>
    BY DEF alertVars, tickVars, historyVars
  <2>1. AlertTypes' /\ CopiesOfTick'
    BY <2>0 DEF AlertInv, AlertTypes, AlertTypeOK, CopiesOfTick
  <2>2. ArmingsSpent'
    BY <2>0, SpentKept DEF AlertInv, ArmingsSpent
  <2>3. WrittenIsTriggered'
    BY <2>0, WrittenKept DEF AlertInv
  <2> QED
    BY <2>1, <2>2, <2>3 DEF AlertInv
<1>2. AlertInv /\ [AlertNext]_alertVars => AlertInv'
  BY <1>1, TickBounds_Inv, Load_Inv, Quotes_Inv, QuotesFail_Inv, PassOver_Inv, WriteTriggered_Inv, Notify_Inv,
     EvaluatorEnds_Inv, ProcessDies_Inv, Rearm_Inv, Delete_Inv DEF AlertNext
<1> QED
  BY AlertInit_Inv, <1>2, PTL DEF AlertSpec

LEMMA AlertInvHolds == AlertInv => OneNotificationPerArming
<1> SUFFICES ASSUME AlertInv, NEW a \in Alerts
             PROVE  /\ fired[a] <= armed[a] + lostWrite[a]
                    /\ RowIs(a, "triggered") /\ copy[a] = Missing => fired[a] + died >= armed[a]
  BY DEF OneNotificationPerArming, RowIs
<1>1. ArmingSpent(a) /\ fired[a] <= Told(a) /\ (copy[a] = Missing => Told(a) = fired[a])
  BY Counts DEF AlertInv, AlertTypes, ArmingsSpent, Told, Copied
<1> QED
  BY <1>1, Counts DEF ArmingSpent, AlertInv, AlertTypes

\* An alert notifies at most once for each time it is armed, and a write that was lost
\* (evaluatePriceAlerts and evaluateThemeAlerts of alertEvaluator.js).
THEOREM AlertsNotifyOnce == AlertSpec => []OneNotificationPerArming
BY AlertInductive, AlertInvHolds, PTL

(***************************************************************************)
(* The price cache                                                         *)
(* While no two lists were under way, the entry names the one request.     *)
(***************************************************************************)

WaitsForPrices(r) == reader[r].at \in {"asking", "fetching"}

\* A caller that waits asked for one of the lists, with one of the ages.
CallersKnown == \A r \in Readers : WaitsForPrices(r) => reader[r].list \in Lists /\ reader[r].maxAge \in MaxAges

\* While no two lists were under way, one request is, and the entry names it.
EntryNamesRequest ==
    ~mixed => \A r, q \in Fetching : r = q /\ inflight.list = reader[r].list

\* A price outlives no more than the longest life the callers give: in the store, in what
\* is being written to it, and in the slot when it was filled.
LivesBounded ==
    /\ \A w \in writes : w.life <= LongestLife /\ LongestLife \in Nat
    /\ \A l \in Layers, s \in Symbols :
         LET p == store[l][s] IN p # Nobody => clock <= p.until /\ p.until <= p.at + LongestLife
    /\ slot.list # {} => \A s \in slot.list : slot.at <= slot.data[s] + LongestLife

CacheInv == CacheTypeOK /\ CallersKnown /\ EntryNamesRequest /\ LivesBounded /\ BreakerMatchesFailures

-----------------------------------------------------------------------------

\* There is a longest life, and no caller asks for a longer one.
LEMMA LongestLifeIs ==
    ASSUME NEW a \in MaxAges PROVE LongestLife \in Nat /\ Lasts(a) <= LongestLife
<1> DEFINE f == [b \in MaxAges |-> Lasts(b)]
<1>1. \A b \in MaxAges : f[b] \in Nat
  BY PriceCacheAssumption DEF Lasts
<1>2. PICK m \in MaxAges : \A b \in MaxAges : f[b] <= f[m]
  BY <1>1, PriceCacheAssumption, GreatestOfFinite
<1>3. \E n \in {Lasts(b) : b \in MaxAges} : \A b \in MaxAges : Lasts(b) <= n
  BY <1>2
<1>4. LongestLife \in {Lasts(b) : b \in MaxAges} /\ \A b \in MaxAges : Lasts(b) <= LongestLife
  BY <1>3 DEF LongestLife
<1> QED
  BY <1>1, <1>4

\* The oldest of some prices is one of them.
LEMMA OldestIs ==
    ASSUME NEW D, D # {}, NEW data \in [D -> Nat]
    PROVE  \E s \in D : OldestOf(data) = data[s]
<1>1. PICK t \in {data[s] : s \in D} : \A u \in {data[s] : s \in D} : t <= u
  BY LeastNatural
<1>2. OldestOf(data) \in {data[s] : s \in DOMAIN data}
  BY <1>1 DEF OldestOf
<1> QED
  BY <1>2

\* The states of a caller.
ReaderStates == [at : {"idle", "asking", "joined", "fetching"}, list : SUBSET Symbols, maxAge : Nat,
                 since : Nat, lead : Readers \union {Nobody}]

LEMMA IdleTyped == Idle \in ReaderStates /\ Idle.at = "idle"
BY DEF Idle, ReaderStates

LEMMA CacheInit_Inv == CacheInit => CacheInv
<1> SUFFICES ASSUME CacheInit PROVE CacheInv
  OBVIOUS
<1> USE DEF CacheInit
<1>1. CacheTypeOK
  <2>1. slot = [list |-> slot.list, at |-> slot.at, data |-> slot.data] /\ slot.list = {} /\ slot.at = 0
    OBVIOUS
  <2>2. slot.data \in [slot.list -> Nat]
    OBVIOUS
  <2>3. reader \in [Readers -> ReaderStates]
    BY IdleTyped
  <2>4. store \in [Layers -> [Symbols -> {Nobody} \union [at : Nat, until : Nat]]]
    OBVIOUS
  <2>5. mixed \in BOOLEAN /\ inflight \in [list : SUBSET Symbols, by : Readers \union {Nobody}]
    OBVIOUS
  <2> QED
    BY <2>1, <2>2, <2>3, <2>4, <2>5 DEF CacheTypeOK, ReaderStates
<1>2. CallersKnown
  BY DEF CallersKnown, WaitsForPrices, Idle
<1>3. EntryNamesRequest
  BY DEF EntryNamesRequest, Fetching, Idle
<1>4. LivesBounded
  BY DEF LivesBounded
<1>5. BreakerMatchesFailures
  BY PriceCacheAssumption DEF BreakerMatchesFailures
<1> QED
  BY <1>1, <1>2, <1>3, <1>4, <1>5 DEF CacheInv

LEMMA Passes_Inv == ASSUME CacheInv, Passes PROVE CacheInv'
<1> USE DEF CacheInv, Passes, breakerVars
<1>1. CacheTypeOK'
  <2>1. store' \in [Layers -> [Symbols -> {Nobody} \union [at : Nat, until : Nat]]]
    BY DEF CacheTypeOK
  <2> QED
    BY <2>1 DEF CacheTypeOK
<1>2. CallersKnown' /\ EntryNamesRequest' /\ BreakerMatchesFailures'
  BY DEF CallersKnown, WaitsForPrices, EntryNamesRequest, Fetching, BreakerMatchesFailures
<1>4. LivesBounded'
  <2>1. ASSUME NEW l \in Layers, NEW s \in Symbols, store'[l][s] # Nobody
        PROVE  clock' <= store'[l][s].until /\ store'[l][s].until <= store'[l][s].at + LongestLife
    <3>1. store'[l][s] = store[l][s] /\ store[l][s] # Nobody /\ ~ (clock' > store[l][s].until)
      BY <2>1
    <3>2. store[l][s].until \in Nat /\ clock' \in Nat
      BY <3>1 DEF CacheTypeOK
    <3>3. store[l][s].until <= store[l][s].at + LongestLife
      BY <3>1 DEF LivesBounded
    <3> QED
      BY <3>1, <3>2, <3>3
  <2> QED
    BY <2>1 DEF LivesBounded
<1> QED
  BY <1>1, <1>2, <1>4

\* A caller that only asks, joins or returns does not disturb the requests under way.
LEMMA CallerMoves ==
    ASSUME CacheInv, NEW r \in Readers, NEW to, reader' = [reader EXCEPT ![r] = to],
           reader[r].at # "fetching", to.at # "fetching",
           to.at = "asking" => to.list \in Lists /\ to.maxAge \in MaxAges,
           UNCHANGED <<inflight, mixed>>
    PROVE  CallersKnown' /\ EntryNamesRequest'
<1>1. reader'[r] = to /\ \A q \in Readers \ {r} : reader'[q] = reader[q]
  BY DEF CacheInv, CacheTypeOK
<1>2. Fetching' = Fetching /\ \A q \in Fetching : reader'[q] = reader[q]
  BY <1>1 DEF Fetching
<1> QED
  BY <1>1, <1>2 DEF CacheInv, CallersKnown, WaitsForPrices, EntryNamesRequest

LEMMA Ask_Inv ==
    ASSUME CacheInv, NEW r \in Readers, NEW list \in Lists, NEW maxAge \in MaxAges, Ask(r, list, maxAge)
    PROVE  CacheInv'
<1> USE DEF CacheInv, Ask, breakerVars, storeVars
<1> DEFINE to == [at |-> "asking", list |-> list, maxAge |-> maxAge, since |-> clock, lead |-> Nobody]
<1>0. to \in ReaderStates
  BY PriceCacheAssumption DEF CacheTypeOK, ReaderStates
<1>1. CacheTypeOK'
  BY <1>0 DEF CacheTypeOK, ReaderStates
<1>2. reader[r].at # "fetching" /\ to.at # "fetching" /\ to.list \in Lists /\ to.maxAge \in MaxAges
  BY DEF Idle
<1>3. reader' = [reader EXCEPT ![r] = to] /\ UNCHANGED <<inflight, mixed>>
  OBVIOUS
<1> HIDE DEF to
<1>4. CallersKnown' /\ EntryNamesRequest'
  BY <1>2, <1>3, CallerMoves
<1>5. LivesBounded' /\ BreakerMatchesFailures'
  BY DEF LivesBounded, BreakerMatchesFailures
<1> QED
  BY <1>1, <1>4, <1>5

\* The caller is answered from a layer, from the slot, or turned away.
LEMMA FoundInStore_Inv ==
    ASSUME CacheInv, NEW r \in Readers, NEW layer \in Layers, FoundInStore(r, layer) PROVE CacheInv'
<1> USE DEF CacheInv, breakerVars, storeVars
<1> DEFINE list == reader[r].list
           data == Held(layer, list)
<1>0. /\ reader[r].at = "asking" /\ DOMAIN data = list
      /\ slot' = [list |-> list, at |-> clock, data |-> data]
      /\ reader' = [reader EXCEPT ![r] = Idle]
      /\ UNCHANGED <<clock, inflight, failures, openUntil, store, writes, mixed>>
  BY DEF FoundInStore, Return
<1>1. list \subseteq Symbols
  BY DEF CacheTypeOK
<1>2. /\ data \in [list -> Nat]
      /\ \A s \in list : clock <= data[s] + LongestLife
  <2>1. \A s \in list : store[layer][s] # Nobody /\ data[s] = store[layer][s].at
    BY <1>0 DEF Held
  <2>2. \A s \in list : store[layer][s] \in [at : Nat, until : Nat]
    BY <1>1, <2>1 DEF CacheTypeOK
  <2>3. data \in [list -> Nat]
    BY <1>0, <2>1, <2>2 DEF Held
  <2>4. LongestLife \in Nat
    BY <1>0, LongestLifeIs DEF CallersKnown, WaitsForPrices
  <2>5. \A s \in list : clock <= store[layer][s].until /\ store[layer][s].until <= store[layer][s].at + LongestLife
    BY <1>1, <2>1 DEF LivesBounded
  <2>6. clock \in Nat
    BY DEF CacheTypeOK
  <2> QED
    BY <2>1, <2>2, <2>3, <2>4, <2>5, <2>6
<1> HIDE DEF data
<1>3. CacheTypeOK'
  <2>1. reader' \in [Readers -> ReaderStates]
    BY <1>0, IdleTyped DEF CacheTypeOK, ReaderStates
  <2> QED
    BY <1>0, <1>1, <1>2, <2>1 DEF CacheTypeOK, ReaderStates
<1>4. CallersKnown' /\ EntryNamesRequest'
  BY <1>0, IdleTyped, CallerMoves
<1>5. LivesBounded' /\ BreakerMatchesFailures'
  BY <1>0, <1>2 DEF LivesBounded, BreakerMatchesFailures
<1> QED
  BY <1>3, <1>4, <1>5

LEMMA Returns_Inv ==
    ASSUME CacheInv, NEW r \in Readers, FoundInSlot(r) \/ TurnedAway(r) PROVE CacheInv'
<1> USE DEF CacheInv, breakerVars, storeVars
<1>0. /\ reader[r].at = "asking" /\ reader' = [reader EXCEPT ![r] = Idle]
      /\ UNCHANGED <<clock, slot, inflight, failures, openUntil, store, writes, mixed>>
  BY DEF FoundInSlot, TurnedAway, Return, MissedInStore
<1>3. CacheTypeOK'
  <2>1. reader' \in [Readers -> ReaderStates]
    BY <1>0, IdleTyped DEF CacheTypeOK, ReaderStates
  <2> QED
    BY <1>0, <2>1 DEF CacheTypeOK, ReaderStates
<1>4. CallersKnown' /\ EntryNamesRequest'
  BY <1>0, IdleTyped, CallerMoves
<1>5. LivesBounded' /\ BreakerMatchesFailures'
  BY <1>0 DEF LivesBounded, BreakerMatchesFailures
<1> QED
  BY <1>3, <1>4, <1>5

LEMMA Join_Inv == ASSUME CacheInv, NEW r \in Readers, Join(r) PROVE CacheInv'
<1> USE DEF CacheInv, breakerVars, storeVars
<1> DEFINE to == [reader[r] EXCEPT !.at = "joined", !.since = 0, !.lead = inflight.by]
<1>0. /\ reader[r].at = "asking"
      /\ reader' = [reader EXCEPT ![r].at = "joined", ![r].since = 0, ![r].lead = inflight.by]
      /\ UNCHANGED <<clock, slot, inflight, failures, openUntil, store, writes, mixed>>
  BY DEF Join, MissedInStore
<1>1. reader' = [reader EXCEPT ![r] = to] /\ to \in ReaderStates /\ to.at = "joined"
  BY <1>0 DEF CacheTypeOK, ReaderStates
<1> HIDE DEF to
<1>3. CacheTypeOK'
  <2>1. reader' \in [Readers -> ReaderStates]
    BY <1>1 DEF CacheTypeOK, ReaderStates
  <2> QED
    BY <1>0, <2>1 DEF CacheTypeOK, ReaderStates
<1>4. CallersKnown' /\ EntryNamesRequest'
  BY <1>0, <1>1, CallerMoves
<1>5. LivesBounded' /\ BreakerMatchesFailures'
  BY <1>0 DEF LivesBounded, BreakerMatchesFailures
<1> QED
  BY <1>3, <1>4, <1>5

LEMMA Fetch_Inv == ASSUME CacheInv, NEW r \in Readers, Fetch(r) PROVE CacheInv'
<1> USE DEF CacheInv, breakerVars, storeVars
<1> DEFINE to == [reader[r] EXCEPT !.at = "fetching", !.since = 0]
<1>0. /\ reader[r].at = "asking" /\ inflight.list # reader[r].list
      /\ reader' = [reader EXCEPT ![r].at = "fetching", ![r].since = 0]
      /\ inflight' = [list |-> reader[r].list, by |-> r]
      /\ UNCHANGED <<clock, slot, failures, openUntil, store, writes>>
  BY DEF Fetch, MissedInStore
<1>a. mixed' = (mixed \/ \E q \in Fetching : reader[q].list # reader[r].list)
  BY DEF Fetch
<1>1. reader' = [reader EXCEPT ![r] = to] /\ to \in ReaderStates /\ to.at = "fetching"
      /\ to.list = reader[r].list /\ to.maxAge = reader[r].maxAge
  BY <1>0 DEF CacheTypeOK, ReaderStates
<1>2. reader'[r] = to /\ \A q \in Readers \ {r} : reader'[q] = reader[q]
  BY <1>1 DEF CacheTypeOK
<1> HIDE DEF to
<1>3. CacheTypeOK'
  <2>1. mixed' \in BOOLEAN
    BY <1>a DEF CacheTypeOK
  <2>2. inflight' \in [list : SUBSET Symbols, by : Readers \union {Nobody}]
    BY <1>0 DEF CacheTypeOK
  <2> QED
    BY <1>0, <1>1, <2>1, <2>2 DEF CacheTypeOK, ReaderStates
<1>4. CallersKnown'
  BY <1>0, <1>1, <1>2 DEF CallersKnown, WaitsForPrices
<1>5. EntryNamesRequest'
  <2> SUFFICES ASSUME ~mixed' PROVE EntryNamesRequest'
    BY DEF EntryNamesRequest
  <2>1. ~mixed /\ \A q \in Fetching : reader[q].list = reader[r].list
    BY <1>a DEF CacheTypeOK
  <2>2. Fetching = {}
    BY <1>0, <2>1 DEF EntryNamesRequest
  <2>3. Fetching' \subseteq {r}
    BY <1>2, <2>2 DEF Fetching
  <2> QED
    BY <1>0, <1>1, <1>2, <2>3 DEF EntryNamesRequest
<1>6. LivesBounded' /\ BreakerMatchesFailures'
  BY <1>0 DEF LivesBounded, BreakerMatchesFailures
<1> QED
  BY <1>3, <1>4, <1>5, <1>6

\* The end of a request sends home everyone who waited for it.
LEMMA Settles ==
    ASSUME CacheInv, NEW r \in Readers, reader[r].at = "fetching", Settle(r)
    PROVE  /\ reader' \in [Readers -> ReaderStates] /\ mixed' \in BOOLEAN
           /\ inflight' \in [list : SUBSET Symbols, by : Readers \union {Nobody}]
           /\ CallersKnown' /\ EntryNamesRequest'
<1> USE DEF CacheInv, Settle
<1>1. \A q \in Readers : reader'[q] = Idle \/ reader'[q] = reader[q]
  OBVIOUS
<1>2. reader' \in [Readers -> ReaderStates]
  <2>1. \A q \in Readers : reader'[q] \in ReaderStates
    BY <1>1, IdleTyped DEF CacheTypeOK, ReaderStates
  <2> QED
    BY <2>1
<1>3. mixed' \in BOOLEAN /\ inflight' \in [list : SUBSET Symbols, by : Readers \union {Nobody}]
  BY DEF CacheTypeOK
<1>4. CallersKnown'
  BY <1>1, IdleTyped DEF CallersKnown, WaitsForPrices
<1>5. EntryNamesRequest'
  <2> SUFFICES ASSUME ~mixed' PROVE EntryNamesRequest'
    BY DEF EntryNamesRequest
  <2>1. r \in Fetching /\ Fetching' \subseteq Fetching \ {r}
    BY <1>1, IdleTyped DEF Fetching
  <2>2. Fetching \subseteq {r}
    BY <2>1 DEF EntryNamesRequest, CacheTypeOK
  <2> QED
    BY <2>1, <2>2 DEF EntryNamesRequest
<1> QED
  BY <1>2, <1>3, <1>4, <1>5

LEMMA FetchSucceeds_Inv == ASSUME CacheInv, NEW r \in Readers, FetchSucceeds(r) PROVE CacheInv'
<1> USE DEF CacheInv
<1> DEFINE list == reader[r].list
           w == [list |-> list, life |-> Lasts(reader[r].maxAge)]
<1>0. /\ reader[r].at = "fetching" /\ Settle(r)
      /\ slot' = [list |-> list, at |-> clock, data |-> [s \in list |-> clock]]
      /\ failures' = 0 /\ openUntil' = 0
      /\ writes' = writes \union {w}
      /\ UNCHANGED <<clock, store>>
  BY DEF FetchSucceeds, CloseBreaker
<1>1. /\ reader' \in [Readers -> ReaderStates] /\ mixed' \in BOOLEAN
      /\ inflight' \in [list : SUBSET Symbols, by : Readers \union {Nobody}]
      /\ CallersKnown' /\ EntryNamesRequest'
  BY <1>0, Settles
<1>2. Lasts(reader[r].maxAge) \in Nat /\ Lasts(reader[r].maxAge) <= LongestLife /\ LongestLife \in Nat
  BY <1>0, LongestLifeIs, PriceCacheAssumption DEF CallersKnown, WaitsForPrices, Lasts, CacheTypeOK
<1>3. list \subseteq Symbols /\ clock \in Nat
  BY DEF CacheTypeOK
<1>4. CacheTypeOK'
  <2>1. writes' \subseteq [list : SUBSET Symbols, life : Nat]
    BY <1>0, <1>2, <1>3 DEF CacheTypeOK
  <2> QED
    BY <1>0, <1>1, <1>3, <2>1 DEF CacheTypeOK, ReaderStates
<1>5. LivesBounded'
  <2>1. \A v \in writes' : v.life <= LongestLife /\ LongestLife \in Nat
    BY <1>0, <1>2 DEF LivesBounded
  <2>2. \A s \in slot'.list : slot'.at <= slot'.data[s] + LongestLife
    BY <1>0, <1>2, <1>3
  <2> QED
    BY <1>0, <2>1, <2>2 DEF LivesBounded
<1>6. BreakerMatchesFailures'
  BY <1>0, PriceCacheAssumption DEF BreakerMatchesFailures
<1> QED
  BY <1>1, <1>4, <1>5, <1>6

LEMMA FetchFails_Inv == ASSUME CacheInv, NEW r \in Readers, FetchFails(r) PROVE CacheInv'
<1> USE DEF CacheInv
<1>0. /\ reader[r].at = "fetching" /\ Settle(r)
      /\ failures' = failures + 1
      /\ openUntil' = IF failures' = Threshold /\ openUntil = 0 THEN clock + Cooldown ELSE openUntil
      /\ UNCHANGED <<clock, slot, store, writes>>
  BY DEF FetchFails, storeVars
<1>1. /\ reader' \in [Readers -> ReaderStates] /\ mixed' \in BOOLEAN
      /\ inflight' \in [list : SUBSET Symbols, by : Readers \union {Nobody}]
      /\ CallersKnown' /\ EntryNamesRequest'
  BY <1>0, Settles
<1>2. failures' \in Nat /\ openUntil' \in Nat
  BY <1>0, PriceCacheAssumption DEF CacheTypeOK
<1>4. CacheTypeOK'
  BY <1>0, <1>1, <1>2 DEF CacheTypeOK, ReaderStates
<1>5. LivesBounded'
  BY <1>0 DEF LivesBounded
<1>6. BreakerMatchesFailures'
  BY <1>0, PriceCacheAssumption DEF BreakerMatchesFailures, CacheTypeOK
<1> QED
  BY <1>1, <1>4, <1>5, <1>6

LEMMA StoreWrites_Inv ==
    ASSUME CacheInv, NEW w \in writes, NEW layer \in Layers, StoreWrites(w, layer) PROVE CacheInv'
<1> USE DEF CacheInv, breakerVars
<1> DEFINE p == [at |-> clock, until |-> clock + w.life]
<1>0. /\ store' = [store EXCEPT ![layer] = [s \in Symbols |-> IF s \in w.list THEN p ELSE @[s]]]
      /\ writes' = writes \ {w}
      /\ UNCHANGED <<clock, slot, inflight, failures, openUntil, reader, mixed>>
  BY DEF StoreWrites
<1>1. /\ clock \in Nat /\ w.life \in Nat /\ w.life <= LongestLife
      /\ p \in [at : Nat, until : Nat]
      /\ clock <= p.until /\ p.until = p.at + w.life /\ p.at \in Nat
  BY DEF CacheTypeOK, LivesBounded
<1> HIDE DEF p
<1>2. \A l \in Layers, s \in Symbols : store'[l][s] \in {p, store[l][s]}
  BY <1>0 DEF CacheTypeOK
<1>3. CacheTypeOK'
  <2>1. store' \in [Layers -> [Symbols -> {Nobody} \union [at : Nat, until : Nat]]]
    BY <1>0, <1>1 DEF CacheTypeOK
  <2> QED
    BY <1>0, <2>1 DEF CacheTypeOK
<1>4. CallersKnown' /\ EntryNamesRequest' /\ BreakerMatchesFailures'
  BY <1>0 DEF CallersKnown, WaitsForPrices, EntryNamesRequest, Fetching, BreakerMatchesFailures
<1>5. LivesBounded'
  <2>1. p.until <= p.at + LongestLife
    BY <1>1 DEF LivesBounded
  <2> QED
    BY <1>0, <1>1, <1>2, <2>1 DEF LivesBounded
<1> QED
  BY <1>3, <1>4, <1>5

\* Inductive invariant of the price cache.
THEOREM CacheInductive == CacheSpec => []CacheInv
<1>1. CacheInv /\ UNCHANGED cacheVars => CacheInv'
  BY DEF CacheInv, cacheVars, breakerVars, storeVars, CacheTypeOK, CallersKnown, WaitsForPrices, EntryNamesRequest, Fetching,
         LivesBounded, BreakerMatchesFailures
<1>2. CacheInv /\ [CacheNext]_cacheVars => CacheInv'
  BY <1>1, Passes_Inv, Ask_Inv, FoundInStore_Inv, Returns_Inv, Join_Inv, Fetch_Inv, FetchSucceeds_Inv, FetchFails_Inv,
     StoreWrites_Inv DEF CacheNext
<1> QED
  BY CacheInit_Inv, <1>2, PTL DEF CacheSpec

LEMMA CacheInvHolds == CacheInv => SingleFlight /\ CacheAgeBounded /\ BreakerMatchesFailures
<1> SUFFICES ASSUME CacheInv PROVE SingleFlight /\ CacheAgeBounded
  BY DEF CacheInv
<1>1. SingleFlight
  <2> SUFFICES ASSUME ~mixed PROVE Cardinality(Fetching) <= 1
    BY DEF SingleFlight
  <2>1. \A r, q \in Fetching : r = q
    BY DEF CacheInv, EntryNamesRequest
  <2>2. CASE Fetching = {}
    BY <2>2, FS_EmptySet
  <2>3. CASE Fetching # {}
    <3>1. PICK r : Fetching = {r}
      BY <2>1, <2>3
    <3> QED
      BY <3>1, FS_Singleton
  <2> QED
    BY <2>2, <2>3
<1>2. CacheAgeBounded
  <2> SUFFICES ASSUME NEW r \in Readers, reader[r].at = "asking", SlotFresh(r)
               PROVE  clock - OldestOf(slot.data) <= LongestLife + reader[r].maxAge + (clock - reader[r].since)
    BY DEF CacheAgeBounded
  <2>1. slot.list \in Lists /\ slot.list # {} /\ LongestLife \in Nat
    BY PriceCacheAssumption, LongestLifeIs DEF CacheInv, CallersKnown, WaitsForPrices, SlotFresh
  <2>2. PICK s \in slot.list : OldestOf(slot.data) = slot.data[s]
    BY <2>1, OldestIs DEF CacheInv, CacheTypeOK
  <2>3. slot.at <= slot.data[s] + LongestLife
    BY <2>1 DEF CacheInv, LivesBounded
  <2>4. reader[r].since - slot.at < reader[r].maxAge
    BY DEF SlotFresh
  <2>5. slot.data[s] \in Nat /\ slot.at \in Nat /\ reader[r].since \in Nat /\ reader[r].maxAge \in Nat /\ clock \in Nat
    BY DEF CacheInv, CacheTypeOK
  <2> QED
    BY <2>1, <2>2, <2>3, <2>4, <2>5
<1> QED
  BY <1>1, <1>2

(***************************************************************************)
(* Index quotes                                                            *)
(* A viewer that found an entry has one at hand whatever fails.            *)
(***************************************************************************)

CacheEntries(kinds) == {Blank} \union [at : Int, data : kinds]
QuoteEntries == CacheEntries({"level"})
BarsEntries == CacheEntries({"proxy", "yahoo"})
ViewerStates == [at : {"idle", "quote", "proxy", "yahoo"}, why : {"tile", "scale", "draw"},
                 quoteHit : QuoteEntries, barsHit : BarsEntries]

QuoteTypes ==
    /\ moment \in Nat /\ moment <= LastMoment
    /\ quoteCache \in QuoteEntries /\ (quoteCache # Blank => quoteCache.at \in 0 .. moment)
    /\ barsCache \in BarsEntries /\ (barsCache # Blank => barsCache.at \in 0 .. moment)
    /\ viewer \in [Viewers -> ViewerStates]
    /\ served \in [Viewers -> [what : {Blank, "level", "drawn", "proxy", "yahoo"}, held : BOOLEAN]]

\* A caller that found something cached took it along, unless it waits for a quote to draw
\* from, which it does only when it found nothing.
TookAlong(v) ==
    served[v].held =>
        /\ viewer[v].at = "idle" => served[v].what \notin {Blank, "drawn"}
        /\ viewer[v].at = "quote" => \/ viewer[v].why = "tile" /\ viewer[v].quoteHit # Blank
                                     \/ viewer[v].why = "scale"
        /\ viewer[v].at \in {"proxy", "yahoo"} => viewer[v].barsHit # Blank

QuotesInv == QuoteTypes /\ \A v \in Viewers : TookAlong(v)

-----------------------------------------------------------------------------

LEMMA NoViewerTyped ==
    NoViewer \in ViewerStates /\ NoViewer.at = "idle" /\ NoViewer.why = "tile" /\ NoViewer.barsHit = Blank
BY DEF NoViewer, ViewerStates, QuoteEntries, BarsEntries, CacheEntries

LEMMA QuotesInit_Inv == QuotesInit => QuotesInv
<1> SUFFICES ASSUME QuotesInit PROVE QuotesInv
  OBVIOUS
<1>1. viewer \in [Viewers -> ViewerStates]
  BY NoViewerTyped DEF QuotesInit
<1>2. served \in [Viewers -> [what : {Blank, "level", "drawn", "proxy", "yahoo"}, held : BOOLEAN]]
      /\ \A v \in Viewers : ~served[v].held
  BY DEF QuotesInit, NothingServed
<1>3. QuoteTypes
  BY <1>1, <1>2, IndexQuotesAssumption DEF QuotesInit, QuoteTypes, QuoteEntries, BarsEntries, CacheEntries
<1> QED
  BY <1>2, <1>3 DEF QuotesInv, TookAlong

LEMMA TookKept ==
    ASSUME NEW v, TookAlong(v), viewer'[v] = viewer[v], served'[v] = served[v] PROVE TookAlong(v)'
BY DEF TookAlong

\* A caller is served, whatever the caches become in the step.
LEMMA ServedIf ==
    ASSUME QuotesInv, NEW v \in Viewers, NEW what \in {Blank, "level", "drawn", "proxy", "yahoo"}, Gives(v, what),
           served[v].held => what \notin {Blank, "drawn"}
    PROVE  /\ viewer' \in [Viewers -> ViewerStates]
           /\ served' \in [Viewers -> [what : {Blank, "level", "drawn", "proxy", "yahoo"}, held : BOOLEAN]]
           /\ \A u \in Viewers : TookAlong(u)'
<1> USE DEF QuotesInv, Gives
<1>1. /\ viewer' \in [Viewers -> ViewerStates] /\ viewer'[v] = NoViewer
      /\ \A u \in Viewers \ {v} : viewer'[u] = viewer[u]
  BY NoViewerTyped DEF QuoteTypes
<1>2. /\ served' \in [Viewers -> [what : {Blank, "level", "drawn", "proxy", "yahoo"}, held : BOOLEAN]]
      /\ served'[v].what = what /\ served'[v].held = served[v].held
      /\ \A u \in Viewers \ {v} : served'[u] = served[u]
  BY DEF QuoteTypes
<1>3. TookAlong(v)'
  BY <1>1, <1>2, NoViewerTyped DEF TookAlong
<1>4. \A u \in Viewers \ {v} : TookAlong(u)'
  BY <1>1, <1>2, TookKept
<1> QED
  BY <1>1, <1>2, <1>3, <1>4

\* A caller waits, with what it took along.
LEMMA WaitingViewer ==
    ASSUME QuotesInv, NEW v \in Viewers, NEW to \in ViewerStates, viewer' = [viewer EXCEPT ![v] = to],
           served' \in [Viewers -> [what : {Blank, "level", "drawn", "proxy", "yahoo"}, held : BOOLEAN]],
           \A u \in Viewers \ {v} : served'[u] = served[u],
           to.at # "idle",
           served'[v].held => /\ to.at = "quote" => \/ to.why = "tile" /\ to.quoteHit # Blank
                                                    \/ to.why = "scale"
                              /\ to.at \in {"proxy", "yahoo"} => to.barsHit # Blank
    PROVE  viewer' \in [Viewers -> ViewerStates] /\ \A u \in Viewers : TookAlong(u)'
<1>1. /\ viewer' \in [Viewers -> ViewerStates] /\ viewer'[v] = to
      /\ \A u \in Viewers \ {v} : viewer'[u] = viewer[u]
  BY DEF QuotesInv, QuoteTypes
<1>2. TookAlong(v)'
  BY <1>1 DEF TookAlong
<1>3. \A u \in Viewers \ {v} : TookAlong(u)'
  BY <1>1, TookKept DEF QuotesInv
<1> QED
  BY <1>1, <1>2, <1>3

\* What a cache holds after a step.
CachesTyped ==
    /\ quoteCache \in QuoteEntries /\ (quoteCache # Blank => quoteCache.at \in 0 .. moment)
    /\ barsCache \in BarsEntries /\ (barsCache # Blank => barsCache.at \in 0 .. moment)

LEMMA EntryTyped ==
    ASSUME QuotesInv
    PROVE  /\ [at |-> moment, data |-> "level"] \in QuoteEntries
           /\ \A s \in {"proxy", "yahoo"} : [at |-> moment, data |-> s] \in BarsEntries
           /\ moment \in 0 .. moment
BY DEF QuotesInv, QuoteTypes, QuoteEntries, BarsEntries, CacheEntries

LEMMA MomentPasses_Inv == ASSUME QuotesInv, MomentPasses PROVE QuotesInv'
<1>1. QuoteTypes'
  BY IndexQuotesAssumption DEF QuotesInv, QuoteTypes, MomentPasses
<1>2. \A v \in Viewers : TookAlong(v)'
  BY TookKept DEF QuotesInv, MomentPasses
<1> QED
  BY <1>1, <1>2 DEF QuotesInv

\* Putting the pieces of a step together.
LEMMA QuotesStep ==
    ASSUME QuotesInv, moment' = moment, CachesTyped', viewer' \in [Viewers -> ViewerStates],
           served' \in [Viewers -> [what : {Blank, "level", "drawn", "proxy", "yahoo"}, held : BOOLEAN]],
           \A v \in Viewers : TookAlong(v)'
    PROVE  QuotesInv'
BY DEF QuotesInv, QuoteTypes, CachesTyped

\* Fresh entries answer at once; otherwise the caller takes the entry along.
LEMMA Asks_Inv == ASSUME QuotesInv, NEW v \in Viewers, AskQuote(v) \/ AskBars(v) PROVE QuotesInv'
<1> USE DEF QuotesInv
<1> DEFINE Answers == [what : {Blank, "level", "drawn", "proxy", "yahoo"}, held : BOOLEAN]
<1>0. viewer[v] = NoViewer /\ UNCHANGED <<moment, quoteCache, barsCache>>
  BY DEF AskQuote, AskBars
<1>1. CachesTyped'
  BY <1>0 DEF QuoteTypes, CachesTyped
<1>2. ASSUME NEW entry \in QuoteEntries \union BarsEntries, entry # Blank, UNCHANGED viewer,
             served' = [served EXCEPT ![v] = [what |-> entry.data, held |-> TRUE]]
      PROVE  QuotesInv'
  <2>1. entry.data \in {"level", "proxy", "yahoo"}
    BY <1>2 DEF QuoteEntries, BarsEntries, CacheEntries
  <2>2. [what |-> entry.data, held |-> TRUE] \in Answers
    BY <2>1
  <2>3. /\ served' \in [Viewers -> Answers] /\ served'[v].what = entry.data
        /\ \A u \in Viewers \ {v} : served'[u] = served[u]
    BY <1>2, <2>2 DEF QuoteTypes
  <2>4. TookAlong(v)'
    BY <1>0, <1>2, <2>1, <2>3, NoViewerTyped, IndexQuotesAssumption DEF TookAlong
  <2>5. \A u \in Viewers \ {v} : TookAlong(u)'
    BY <1>2, <2>3, TookKept
  <2> QED
    BY <1>0, <1>1, <1>2, <2>3, <2>4, <2>5, QuotesStep DEF QuoteTypes
<1>3. ASSUME NEW to \in ViewerStates, to.at # "idle", NEW held \in BOOLEAN,
             held => /\ to.at = "quote" => to.why = "tile" /\ to.quoteHit # Blank
                     /\ to.at \in {"proxy", "yahoo"} => to.barsHit # Blank,
             viewer' = [viewer EXCEPT ![v] = to],
             served' = [served EXCEPT ![v] = [what |-> Blank, held |-> held]]
      PROVE  QuotesInv'
  <2>1. /\ served' \in [Viewers -> Answers] /\ served'[v].held = held
        /\ \A u \in Viewers \ {v} : served'[u] = served[u]
    BY <1>3 DEF QuoteTypes
  <2>2. viewer' \in [Viewers -> ViewerStates] /\ \A u \in Viewers : TookAlong(u)'
    BY <1>3, <2>1, WaitingViewer
  <2> QED
    BY <1>0, <1>1, <2>1, <2>2, QuotesStep
<1>4. CASE AskQuote(v)
  <2>1. CASE Fresh(quoteCache, QuoteLife)
    <3>1. quoteCache # Blank /\ served' = [served EXCEPT ![v] = [what |-> quoteCache.data, held |-> TRUE]] /\ UNCHANGED viewer
      BY <1>4, <2>1 DEF AskQuote, Fresh
    <3> QED
      BY <3>1, <1>2 DEF QuoteTypes
  <2>2. CASE ~Fresh(quoteCache, QuoteLife)
    <3> DEFINE to == [NoViewer EXCEPT !.at = "quote", !.quoteHit = quoteCache]
               held == quoteCache # Blank
    <3>1. viewer' = [viewer EXCEPT ![v] = to]
      BY <1>0, <1>4, <2>2 DEF AskQuote, QuoteTypes
    <3>2. served' = [served EXCEPT ![v] = [what |-> Blank, held |-> held]]
      BY <1>4, <2>2 DEF AskQuote
    <3>3. to \in ViewerStates /\ to.at = "quote" /\ to.why = "tile" /\ to.quoteHit = quoteCache
      BY DEF NoViewer, ViewerStates, QuoteTypes, QuoteEntries, BarsEntries, CacheEntries
    <3> HIDE DEF to
    <3>4. held \in BOOLEAN /\ (held => to.quoteHit # Blank)
      BY <3>3
    <3> HIDE DEF held
    <3> QED
      BY <3>1, <3>2, <3>3, <3>4, <1>3
  <2> QED
    BY <2>1, <2>2
<1>5. CASE AskBars(v)
  <2>1. CASE Fresh(barsCache, BarsLife)
    <3>1. barsCache # Blank /\ served' = [served EXCEPT ![v] = [what |-> barsCache.data, held |-> TRUE]] /\ UNCHANGED viewer
      BY <1>5, <2>1 DEF AskBars, Fresh
    <3> QED
      BY <3>1, <1>2 DEF QuoteTypes
  <2>2. CASE ~Fresh(barsCache, BarsLife)
    <3> DEFINE to == [NoViewer EXCEPT !.at = "proxy", !.barsHit = barsCache]
               held == barsCache # Blank
    <3>1. viewer' = [viewer EXCEPT ![v] = to]
      BY <1>0, <1>5, <2>2 DEF AskBars, QuoteTypes
    <3>2. served' = [served EXCEPT ![v] = [what |-> Blank, held |-> held]]
      BY <1>5, <2>2 DEF AskBars
    <3>3. to \in ViewerStates /\ to.at = "proxy" /\ to.barsHit = barsCache
      BY DEF NoViewer, ViewerStates, QuoteTypes, QuoteEntries, BarsEntries, CacheEntries
    <3> HIDE DEF to
    <3>4. held \in BOOLEAN /\ (held => to.barsHit # Blank)
      BY <3>3
    <3> HIDE DEF held
    <3> QED
      BY <3>1, <3>2, <3>3, <3>4, <1>3
  <2> QED
    BY <2>1, <2>2
<1> QED
  BY <1>4, <1>5

\* A caller is served and the caches keep their types.
LEMMA ServedStep ==
    ASSUME QuotesInv, NEW v \in Viewers, NEW what \in {Blank, "level", "drawn", "proxy", "yahoo"}, Gives(v, what),
           served[v].held => what \notin {Blank, "drawn"}, moment' = moment, CachesTyped'
    PROVE  QuotesInv'
BY ServedIf, QuotesStep

\* The bars of the caches after a step that may store one kind.
LEMMA CachesKept ==
    ASSUME QuotesInv, moment' = moment,
           quoteCache' \in {quoteCache, [at |-> moment, data |-> "level"]},
           \/ barsCache' = barsCache
           \/ barsCache' = [at |-> moment, data |-> "proxy"]
           \/ barsCache' = [at |-> moment, data |-> "yahoo"]
    PROVE  CachesTyped'
BY EntryTyped DEF QuotesInv, QuoteTypes, CachesTyped

\* What a quote that was waited for does.
LEMMA Continued ==
    ASSUME QuotesInv, NEW v \in Viewers, viewer[v].at = "quote", NEW q \in {Blank, "level"}, Continues(v, q),
           served[v].held /\ viewer[v].why = "tile" => q # Blank,
           moment' = moment, quoteCache' \in {quoteCache, [at |-> moment, data |-> "level"]}
    PROVE  QuotesInv'
<1>0. viewer[v].why \in {"tile", "scale", "draw"}
  BY DEF QuotesInv, QuoteTypes, ViewerStates
<1>1. CASE viewer[v].why = "tile"
  <2>1. Gives(v, q) /\ UNCHANGED barsCache
    BY <1>1 DEF Continues
  <2>2. served[v].held => q \notin {Blank, "drawn"}
    BY <1>1
  <2> QED
    BY <2>1, <2>2, CachesKept, ServedStep
<1>2. CASE viewer[v].why = "scale"
  <2>1. Gives(v, "proxy") /\ barsCache' = [at |-> moment, data |-> "proxy"]
    BY <1>2 DEF Continues
  <2>2. "proxy" \notin {Blank, "drawn"}
    BY IndexQuotesAssumption
  <2> QED
    BY <2>1, <2>2, CachesKept, ServedStep
<1>3. CASE viewer[v].why = "draw"
  <2>1. PICK what \in Drawings(q) : Gives(v, what)
    BY <1>3 DEF Continues
  <2>2. UNCHANGED barsCache /\ what \in {Blank, "drawn"}
    BY <1>3 DEF Continues, Drawings
  <2>3. ~served[v].held
    BY <1>3 DEF QuotesInv, TookAlong
  <2> QED
    BY <2>1, <2>2, <2>3, CachesKept, ServedStep
<1> QED
  BY <1>0, <1>1, <1>2, <1>3

LEMMA QuoteAnswers_Inv == ASSUME QuotesInv, NEW v \in Viewers, QuoteArrives(v) \/ QuoteFails(v) PROVE QuotesInv'
<1>1. CASE QuoteArrives(v)
  <2>1. "level" # Blank
    BY IndexQuotesAssumption
  <2> QED
    BY <1>1, <2>1, Continued DEF QuoteArrives
<1>2. CASE QuoteFails(v)
  <2> DEFINE q == IF viewer[v].quoteHit = Blank THEN Blank ELSE viewer[v].quoteHit.data
  <2>1. viewer[v].at = "quote" /\ Continues(v, q) /\ UNCHANGED <<moment, quoteCache>>
    BY <1>2 DEF QuoteFails
  <2>2. q \in {Blank, "level"} /\ (viewer[v].quoteHit # Blank => q = "level")
    BY DEF QuotesInv, QuoteTypes, ViewerStates, QuoteEntries, CacheEntries
  <2>3. served[v].held /\ viewer[v].why = "tile" => viewer[v].quoteHit # Blank
    BY <2>1 DEF QuotesInv, TookAlong
  <2> HIDE DEF q
  <2>4. served[v].held /\ viewer[v].why = "tile" => q # Blank
    BY <2>2, <2>3, IndexQuotesAssumption
  <2> QED
    BY <2>1, <2>2, <2>4, Continued
<1> QED
  BY <1>1, <1>2

\* The bars that came scale the quote, or two points are drawn from it.
LEMMA Takes ==
    ASSUME QuotesInv, NEW v \in Viewers, viewer[v].at \in {"proxy", "yahoo"}, NEW why \in {"scale", "draw"},
           TakesQuote(v, why), UNCHANGED <<moment, quoteCache>>, why = "draw" => ~served[v].held
    PROVE  QuotesInv'
<1>1. CASE Fresh(quoteCache, QuoteLife) /\ why = "scale"
  <2>1. Gives(v, "proxy") /\ barsCache' = [at |-> moment, data |-> "proxy"]
    BY <1>1 DEF TakesQuote
  <2>2. "proxy" \notin {Blank, "drawn"}
    BY IndexQuotesAssumption
  <2> QED
    BY <2>1, <2>2, CachesKept, ServedStep
<1>2. CASE Fresh(quoteCache, QuoteLife) /\ why = "draw"
  <2>1. PICK what \in Drawings(quoteCache.data) : Gives(v, what)
    BY <1>2 DEF TakesQuote
  <2>2. UNCHANGED barsCache /\ what \in {Blank, "drawn"}
    BY <1>2 DEF TakesQuote, Drawings
  <2> QED
    BY <1>2, <2>1, <2>2, CachesKept, ServedStep
<1>3. CASE ~Fresh(quoteCache, QuoteLife)
  <2> DEFINE to == [viewer[v] EXCEPT !.at = "quote", !.why = why, !.quoteHit = quoteCache]
  <2>1. UNCHANGED <<barsCache, served>>
    BY <1>3 DEF TakesQuote
  <2>2. viewer' = [viewer EXCEPT ![v] = to]
    BY <1>3 DEF TakesQuote, QuotesInv, QuoteTypes
  <2>3. to \in ViewerStates /\ to.at = "quote" /\ to.why = why
    BY DEF QuotesInv, QuoteTypes, ViewerStates
  <2> HIDE DEF to
  <2>4. viewer' \in [Viewers -> ViewerStates] /\ \A u \in Viewers : TookAlong(u)'
    BY <2>1, <2>2, <2>3, WaitingViewer DEF QuotesInv, QuoteTypes
  <2> QED
    BY <2>1, <2>4, CachesKept, QuotesStep DEF QuotesInv, QuoteTypes
<1> QED
  BY <1>1, <1>2, <1>3 DEF TakesQuote

LEMMA Bars_Inv ==
    ASSUME QuotesInv, NEW v \in Viewers, ProxyArrives(v) \/ ProxyFails(v) \/ YahooArrives(v) \/ YahooFails(v)
    PROVE  QuotesInv'
<1>1. CASE ProxyArrives(v)
  BY <1>1, Takes DEF ProxyArrives
<1>2. CASE ProxyFails(v)
  <2> DEFINE to == [viewer[v] EXCEPT !.at = "yahoo"]
  <2>1. /\ viewer[v].at = "proxy" /\ UNCHANGED <<moment, quoteCache, barsCache, served>>
        /\ viewer' = [viewer EXCEPT ![v] = to]
    BY <1>2 DEF ProxyFails, QuotesInv, QuoteTypes
  <2>2. to \in ViewerStates /\ to.at = "yahoo" /\ to.barsHit = viewer[v].barsHit
    BY DEF QuotesInv, QuoteTypes, ViewerStates
  <2> HIDE DEF to
  <2>3. served[v].held => viewer[v].barsHit # Blank
    BY <2>1 DEF QuotesInv, TookAlong
  <2>4. viewer' \in [Viewers -> ViewerStates] /\ \A u \in Viewers : TookAlong(u)'
    BY <2>1, <2>2, <2>3, WaitingViewer DEF QuotesInv, QuoteTypes
  <2> QED
    BY <2>1, <2>4, CachesKept, QuotesStep DEF QuotesInv, QuoteTypes
<1>3. CASE YahooArrives(v)
  <2>1. "yahoo" \notin {Blank, "drawn"}
    BY IndexQuotesAssumption
  <2> QED
    BY <1>3, <2>1, CachesKept, ServedStep DEF YahooArrives
<1>4. CASE YahooFails(v)
  <2>0. viewer[v].at = "yahoo" /\ UNCHANGED <<moment, quoteCache>>
    BY <1>4 DEF YahooFails
  <2>1. CASE viewer[v].barsHit # Blank
    <3>1. Gives(v, viewer[v].barsHit.data) /\ UNCHANGED barsCache
      BY <1>4, <2>1 DEF YahooFails
    <3>2. viewer[v].barsHit.data \in {"proxy", "yahoo"}
      BY <2>1 DEF QuotesInv, QuoteTypes, ViewerStates, BarsEntries, CacheEntries
    <3>3. viewer[v].barsHit.data \notin {Blank, "drawn"}
      BY <3>2, IndexQuotesAssumption
    <3> QED
      BY <2>0, <3>1, <3>2, <3>3, CachesKept, ServedStep
  <2>2. CASE viewer[v].barsHit = Blank
    <3>1. TakesQuote(v, "draw") /\ ~served[v].held
      BY <1>4, <2>0, <2>2 DEF YahooFails, QuotesInv, TookAlong
    <3> QED
      BY <2>0, <3>1, Takes
  <2> QED
    BY <2>1, <2>2
<1> QED
  BY <1>1, <1>2, <1>3, <1>4

\* Inductive invariant of the quotes.
THEOREM QuotesInductive == QuotesSpec => []QuotesInv
<1>1. QuotesInv /\ UNCHANGED quoteVars => QuotesInv'
  BY DEF QuotesInv, quoteVars, QuoteTypes, TookAlong
<1>2. QuotesInv /\ [QuotesNext]_quoteVars => QuotesInv'
  BY <1>1, MomentPasses_Inv, Asks_Inv, QuoteAnswers_Inv, Bars_Inv DEF QuotesNext
<1> QED
  BY QuotesInit_Inv, <1>2, PTL DEF QuotesSpec

LEMMA QuotesInvHolds == QuotesInv => QuotesTypeOK /\ StaysServed
<1> SUFFICES ASSUME QuotesInv PROVE QuotesTypeOK /\ StaysServed
  OBVIOUS
<1>1. QuotesTypeOK
  BY DEF QuotesInv, QuoteTypes, QuotesTypeOK, QuoteEntries, BarsEntries, CacheEntries, ViewerStates
<1>2. StaysServed
  BY NoViewerTyped DEF QuotesInv, TookAlong, StaysServed
<1> QED
  BY <1>1, <1>2

\* The cache coalesces, hands out nothing older than asked and opens its breaker on a run of
\* failures; an index once cached is served whatever fails (priceCache.js and yahooFinance.js).
THEOREM CachesServe == CacheSpec /\ QuotesSpec => []CacheServes
<1>1. CacheInv /\ QuotesInv => CacheServes
  BY CacheInvHolds, QuotesInvHolds DEF CacheServes
<1> QED
  BY <1>1, CacheInductive, QuotesInductive, PTL

(***************************************************************************)
(* Rows of a user                                                          *)
(* Of a row some user made, a request found the maker's own.               *)
(***************************************************************************)

\* What a request that found a row goes by: the row is there or was, and of a row some
\* user made he found the maker's own copy and is the maker.
SentFor(r) == rowRequest[r].at # "new"
SentWell(r) ==
    /\ ~SentFor(r) => rowRequest[r].by = Unowned
    /\ SentFor(r) => rowRequest[r].id \in RowIds
    /\ SentFor(r) /\ router.scope # "all" /\ Exists(rowRequest[r].id) /\ row[rowRequest[r].id].maker # Unowned =>
         /\ rowRequest[r].found = row[rowRequest[r].id].maker
         /\ rowRequest[r].by = row[rowRequest[r].id].maker
RequestsByMakers == \A r \in RowRequests : SentWell(r)

OwnedRow(i) ==
    /\ row[i].maker # Unowned => row[i].owner = row[i].maker /\ row[i].editor = row[i].maker
    /\ row[i].owner # row[i].maker =>
         \E r \in RowRequests : /\ rowRequest[r].by = row[i].owner /\ rowRequest[r].id = i
                                /\ rowRequest[r].found = Unowned

LEMMA OwnedRows == RowsStayOwned <=> \A i \in RowIds : Exists(i) /\ router.scope # "all" => OwnedRow(i)
BY DEF RowsStayOwned, OwnedRow

RowInv ==
    /\ RowsTypeOK
    /\ RequestsByMakers
    /\ \A i \in RowIds : Exists(i) /\ router.scope # "all" => OwnedRow(i)

RequestStates == [at : {"new", "edit", "delete", "done"}, by : Owners \union {Unowned},
             id : RowIds \union {Unowned}, found : Owners \union {Unowned}]

LEMMA RowsInit_Inv == RowsInit => RowInv
<1> SUFFICES ASSUME RowsInit PROVE RowInv
  OBVIOUS
<1> USE RowsAssumption DEF RowsInit
<1>1. LegacyRow \in Rows
  BY DEF LegacyRow, Rows
<1>2. Unsent \in RequestStates
  BY DEF Unsent, RequestStates
<1>3. RowsTypeOK
  BY <1>1, <1>2 DEF RowsTypeOK, RequestStates
<1>4. RequestsByMakers
  BY DEF RequestsByMakers, SentWell, SentFor, Unsent
<1>5. ASSUME NEW i \in RowIds, Exists(i), router.scope # "all" PROVE OwnedRow(i)
  BY <1>5 DEF OwnedRow, Exists, LegacyRow
<1> QED
  BY <1>3, <1>4, <1>5 DEF RowInv

\* A step that leaves the requests as they are and of the rows one user's own or a legacy
\* row changed in nothing but its editor, or drops rows, keeps everything.
LEMMA RowsEdited ==
  ASSUME RowInv, UNCHANGED <<router, rowRequest>>,
         row' \in [RowIds -> Rows \union {NoRowYet}],
         \A i \in RowIds : row'[i] # NoRowYet =>
            /\ row[i] # NoRowYet
            /\ row'[i].owner = row[i].owner /\ row'[i].maker = row[i].maker
            /\ router.scope # "all" /\ row[i].maker # Unowned => row'[i].editor = row[i].maker
  PROVE  RowInv'
<1> USE DEF RowInv
<1>1. RowsTypeOK'
  BY DEF RowsTypeOK
<1>2. ASSUME NEW r \in RowRequests PROVE SentWell(r)'
  <2>1. SentWell(r)
    BY DEF RequestsByMakers
  <2> QED
    BY <2>1 DEF SentWell, SentFor, Exists
<1>3. ASSUME NEW i \in RowIds, Exists(i)', router.scope # "all" PROVE OwnedRow(i)'
  <2>1. OwnedRow(i) /\ row'[i].owner = row[i].owner /\ row'[i].maker = row[i].maker
    BY <1>3 DEF Exists
  <2>2. row[i].maker # Unowned => row'[i].editor = row[i].maker
    BY <1>3 DEF Exists
  <2> QED
    BY <2>1, <2>2 DEF OwnedRow
<1> QED
  BY <1>1, <1>2, <1>3 DEF RequestsByMakers

\* Whoever sees a row a user made is that user.
LEMMA OnlyMakerSees ==
  ASSUME RowInv, NEW u \in Owners, NEW i \in RowIds, Sees(u, i), router.scope # "all", row[i].maker # Unowned
  PROVE  row[i].maker = u /\ row[i].owner = u
<1>1. OwnedRow(i)
  BY DEF RowInv, Sees
<1> QED
  BY <1>1, RowsAssumption DEF OwnedRow, Sees

LEMMA UpdateAll_Inv == ASSUME RowInv, NEW u \in Owners, UpdateAll(u) PROVE RowInv'
<1>1. \A i \in RowIds : row[i] # NoRowYet => row[i] \in Rows
  BY DEF RowInv, RowsTypeOK
<1>2. \A i \in RowIds : Sees(u, i) => [row[i] EXCEPT !.editor = u] \in Rows
  BY <1>1 DEF Rows, Sees, Exists
<1>3. row' \in [RowIds -> Rows \union {NoRowYet}]
  BY <1>2 DEF UpdateAll, RowInv, RowsTypeOK
<1>4. ASSUME NEW i \in RowIds, row'[i] # NoRowYet
      PROVE  /\ row[i] # NoRowYet
             /\ row'[i].owner = row[i].owner /\ row'[i].maker = row[i].maker
             /\ router.scope # "all" /\ row[i].maker # Unowned => row'[i].editor = row[i].maker
  <2>1. CASE Sees(u, i)
    <3>1. row'[i] = [row[i] EXCEPT !.editor = u] /\ row[i] # NoRowYet
      BY <2>1 DEF UpdateAll, Sees, Exists
    <3>2. row[i] \in Rows
      BY <3>1, <1>1
    <3>3. row'[i].owner = row[i].owner /\ row'[i].maker = row[i].maker /\ row'[i].editor = u
      BY <3>1, <3>2 DEF Rows
    <3> QED
      BY <3>1, <3>3, <2>1, OnlyMakerSees
  <2>2. CASE ~Sees(u, i)
    <3>1. row'[i] = row[i]
      BY <2>2 DEF UpdateAll
    <3> QED
      BY <3>1, <1>4 DEF RowInv, OwnedRow, Exists
  <2> QED
    BY <2>1, <2>2
<1>5. UNCHANGED <<router, rowRequest>>
  BY DEF UpdateAll
<1> QED
  BY <1>3, <1>4, <1>5, RowsEdited

LEMMA UpdateWhere_Inv ==
  ASSUME RowInv, NEW u \in Owners, NEW i \in RowIds, UpdateWhere(u, i) PROVE RowInv'
<1>1. row \in [RowIds -> Rows \union {NoRowYet}] /\ row[i] # NoRowYet /\ row[i] \in Rows
  BY DEF RowInv, RowsTypeOK, UpdateWhere, Sees, Exists
<1>2. row' = [row EXCEPT ![i].editor = u] /\ UNCHANGED <<router, rowRequest>> /\ Sees(u, i)
  BY DEF UpdateWhere
<1>3. row' = [row EXCEPT ![i] = [row[i] EXCEPT !.editor = u]]
  BY <1>1, <1>2
<1>4. [row[i] EXCEPT !.editor = u] \in Rows
  BY <1>1 DEF Rows
<1>5. row' \in [RowIds -> Rows \union {NoRowYet}]
  BY <1>1, <1>3, <1>4
<1>6. ASSUME NEW j \in RowIds, row'[j] # NoRowYet
      PROVE  /\ row[j] # NoRowYet
             /\ row'[j].owner = row[j].owner /\ row'[j].maker = row[j].maker
             /\ router.scope # "all" /\ row[j].maker # Unowned => row'[j].editor = row[j].maker
  <2>1. CASE j = i
    <3>1. row'[i].owner = row[i].owner /\ row'[i].maker = row[i].maker /\ row'[i].editor = u
      BY <1>1, <1>3 DEF Rows
    <3> QED
      BY <2>1, <3>1, <1>1, <1>2, OnlyMakerSees
  <2>2. CASE j # i
    <3>1. row'[j] = row[j]
      BY <2>2, <1>1, <1>3
    <3> QED
      BY <3>1, <1>6 DEF RowInv, OwnedRow, Exists
  <2> QED
    BY <2>1, <2>2
<1> QED
  BY <1>2, <1>5, <1>6, RowsEdited

LEMMA RowsDropped ==
  ASSUME RowInv, NEW i, UNCHANGED <<router, rowRequest>>, row' = [row EXCEPT ![i] = NoRowYet]
  PROVE  RowInv'
<1>1. row' \in [RowIds -> Rows \union {NoRowYet}]
  BY DEF RowInv, RowsTypeOK
<1>2. ASSUME NEW j \in RowIds, row'[j] # NoRowYet
      PROVE  /\ row[j] # NoRowYet
             /\ row'[j].owner = row[j].owner /\ row'[j].maker = row[j].maker
             /\ router.scope # "all" /\ row[j].maker # Unowned => row'[j].editor = row[j].maker
  <2>1. row'[j] = row[j]
    BY <1>2 DEF RowInv, RowsTypeOK
  <2> QED
    BY <2>1, <1>2 DEF RowInv, OwnedRow, Exists
<1> QED
  BY <1>1, <1>2, RowsEdited

LEMMA Create_Inv ==
  ASSUME RowInv, NEW u \in Owners, NEW i \in RowIds, Create(u, i) PROVE RowInv'
<1> DEFINE n == [owner |-> IF router.scope = "all" THEN Unowned ELSE u, maker |-> u, editor |-> u]
<1>1. n \in Rows /\ (router.scope # "all" => n.owner = u) /\ n.maker = u /\ n.editor = u
  BY DEF Rows
<1>2. row' = [row EXCEPT ![i] = n] /\ UNCHANGED <<router, rowRequest>>
      /\ \A r \in RowRequests : rowRequest[r].id # i
  BY DEF Create
<1> HIDE DEF n
<1>3. row \in [RowIds -> Rows \union {NoRowYet}]
  BY DEF RowInv, RowsTypeOK
<1>4. row'[i] = n /\ \A j \in RowIds : j # i => row'[j] = row[j]
  BY <1>2, <1>3
<1>5. RowsTypeOK'
  BY <1>1, <1>2, <1>3 DEF RowInv, RowsTypeOK
<1>6. ASSUME NEW r \in RowRequests PROVE SentWell(r)'
  <2>1. SentWell(r)
    BY DEF RowInv, RequestsByMakers
  <2> QED
    BY <2>1, <1>2, <1>4 DEF SentWell, SentFor, Exists
<1>7. ASSUME NEW j \in RowIds, Exists(j)', router.scope # "all" PROVE OwnedRow(j)'
  <2>1. CASE j = i
    BY <1>1, <1>4, <1>7, <2>1 DEF OwnedRow
  <2>2. CASE j # i
    <3>1. OwnedRow(j) /\ row'[j] = row[j]
      BY <1>4, <1>7, <2>2 DEF RowInv, Exists
    <3> QED
      BY <3>1, <1>2 DEF OwnedRow
  <2> QED
    BY <2>1, <2>2
<1> QED
  BY <1>2, <1>5, <1>6, <1>7 DEF RowInv, RequestsByMakers

LEMMA FindRow_Inv ==
  ASSUME RowInv, NEW r \in RowRequests, NEW u \in Owners, NEW i \in RowIds,
         NEW op \in {"edit", "delete"}, FindRow(r, u, i, op)
  PROVE  RowInv'
<1> DEFINE n == [at |-> op, by |-> u, id |-> i, found |-> row[i].owner]
<1>1. row[i] \in Rows /\ Sees(u, i) /\ rowRequest[r].at = "new"
  BY DEF RowInv, RowsTypeOK, FindRow, Sees, Exists
<1>2. rowRequest \in [RowRequests -> RequestStates]
  BY DEF RowInv, RowsTypeOK, RequestStates
<1>3. n \in RequestStates /\ n.at # "new" /\ n.by = u /\ n.id = i /\ n.found = row[i].owner
  BY <1>1 DEF Rows, RequestStates
<1>4. rowRequest' = [rowRequest EXCEPT ![r] = n] /\ UNCHANGED <<router, row>>
  BY DEF FindRow
<1> HIDE DEF n
<1>5. rowRequest' \in [RowRequests -> RequestStates] /\ rowRequest'[r] = n
      /\ \A q \in RowRequests : q # r => rowRequest'[q] = rowRequest[q]
  BY <1>2, <1>3, <1>4
<1>6. RowsTypeOK'
  BY <1>4, <1>5 DEF RowInv, RowsTypeOK, RequestStates
<1>7. ASSUME NEW q \in RowRequests PROVE SentWell(q)'
  <2>1. CASE q = r
    <3>1. router.scope # "all" /\ row[i].maker # Unowned => row[i].maker = u /\ row[i].owner = u
      BY <1>1, OnlyMakerSees
    <3> QED
      BY <2>1, <3>1, <1>3, <1>4, <1>5 DEF SentWell, SentFor, Exists
  <2>2. CASE q # r
    <3>1. SentWell(q) /\ rowRequest'[q] = rowRequest[q]
      BY <1>5, <2>2 DEF RowInv, RequestsByMakers
    <3> QED
      BY <3>1, <1>4 DEF SentWell, SentFor, Exists
  <2> QED
    BY <2>1, <2>2
<1>8. ASSUME NEW j \in RowIds, Exists(j)', router.scope # "all" PROVE OwnedRow(j)'
  <2>1. OwnedRow(j)
    BY <1>4, <1>8 DEF RowInv, Exists
  <2>2. CASE row[j].owner # row[j].maker
    <3>1. PICK q \in RowRequests : /\ rowRequest[q].by = row[j].owner /\ rowRequest[q].id = j
                                   /\ rowRequest[q].found = Unowned
      BY <2>1, <2>2 DEF OwnedRow
    <3>2. row[j].owner # Unowned
      BY <2>1, <2>2 DEF OwnedRow
    <3>3. q # r
      BY <3>1, <3>2, <1>1 DEF RowInv, RequestsByMakers, SentWell, SentFor
    <3>4. rowRequest'[q] = rowRequest[q]
      BY <3>3, <1>5
    <3> QED
      BY <2>1, <3>1, <3>4, <1>4 DEF OwnedRow
  <2>3. CASE row[j].owner = row[j].maker
    BY <2>1, <2>3, <1>4 DEF OwnedRow
  <2> QED
    BY <2>2, <2>3
<1> QED
  BY <1>4, <1>6, <1>7, <1>8 DEF RowInv, RequestsByMakers

\* Answering a request changes nothing it goes by.
LEMMA Answered_Inv ==
  ASSUME RowInv, NEW r \in RowRequests, SentFor(r),
         rowRequest' = [rowRequest EXCEPT ![r].at = "done"], UNCHANGED router
  PROVE  /\ rowRequest' \in [RowRequests -> RequestStates]
         /\ \A q \in RowRequests : /\ SentFor(q)' = SentFor(q)
                                   /\ rowRequest'[q].by = rowRequest[q].by
                                   /\ rowRequest'[q].id = rowRequest[q].id
                                   /\ rowRequest'[q].found = rowRequest[q].found
         /\ row' = row => RowInv'
<1>1. rowRequest \in [RowRequests -> RequestStates]
  BY DEF RowInv, RowsTypeOK, RequestStates
<1>2. rowRequest' \in [RowRequests -> RequestStates]
  BY <1>1 DEF RequestStates
<1>3. ASSUME NEW q \in RowRequests
      PROVE /\ (rowRequest'[q].at # "new") <=> (rowRequest[q].at # "new")
            /\ rowRequest'[q].by = rowRequest[q].by
            /\ rowRequest'[q].id = rowRequest[q].id
            /\ rowRequest'[q].found = rowRequest[q].found
  <2>1. CASE q = r
    BY <2>1, <1>1 DEF SentFor, RequestStates
  <2>2. CASE q # r
    <3>1. rowRequest'[q] = rowRequest[q]
      BY <1>1, <2>2
    <3> QED
      BY <3>1
  <2> QED
    BY <2>1, <2>2
<1>4. ASSUME row' = row PROVE RowInv'
  <2>1. RowsTypeOK'
    BY <1>2, <1>4 DEF RowInv, RowsTypeOK, RequestStates
  <2>2. ASSUME NEW q \in RowRequests PROVE SentWell(q)'
    <3>1. SentWell(q)
      BY DEF RowInv, RequestsByMakers
    <3> QED
      BY <3>1, <1>3, <1>4 DEF SentWell, SentFor, Exists
  <2>3. ASSUME NEW j \in RowIds, Exists(j)', router.scope # "all" PROVE OwnedRow(j)'
    <3>1. OwnedRow(j)
      BY <1>4, <2>3 DEF RowInv, Exists
    <3> QED
      BY <3>1, <1>3, <1>4 DEF OwnedRow
  <2> QED
    BY <2>1, <2>2, <2>3 DEF RowInv, RequestsByMakers
<1> QED
  BY <1>2, <1>3, <1>4 DEF SentFor

LEMMA DestroyRow_Inv == ASSUME RowInv, NEW r \in RowRequests, DestroyRow(r) PROVE RowInv'
<1>1. SentFor(r) /\ rowRequest' = [rowRequest EXCEPT ![r].at = "done"] /\ UNCHANGED router
      /\ row' = [row EXCEPT ![rowRequest[r].id] = NoRowYet]
  BY DEF DestroyRow, SentFor
<1>2. /\ rowRequest' \in [RowRequests -> RequestStates]
      /\ \A q \in RowRequests : /\ SentFor(q)' = SentFor(q)
                                /\ rowRequest'[q].by = rowRequest[q].by
                                /\ rowRequest'[q].id = rowRequest[q].id
                                /\ rowRequest'[q].found = rowRequest[q].found
  BY <1>1, Answered_Inv
<1>3. row' \in [RowIds -> Rows \union {NoRowYet}]
      /\ \A j \in RowIds : row'[j] # NoRowYet => row'[j] = row[j]
  BY <1>1 DEF RowInv, RowsTypeOK
<1>4. RowsTypeOK'
  BY <1>1, <1>2, <1>3 DEF RowInv, RowsTypeOK, RequestStates
<1>5. ASSUME NEW q \in RowRequests PROVE SentWell(q)'
  <2>1. SentWell(q)
    BY DEF RowInv, RequestsByMakers
  <2> QED
    BY <2>1, <1>1, <1>2, <1>3 DEF SentWell, Exists
<1>6. ASSUME NEW j \in RowIds, Exists(j)', router.scope # "all" PROVE OwnedRow(j)'
  <2>1. row'[j] = row[j]
    BY <1>3, <1>6 DEF Exists
  <2>2. OwnedRow(j)
    BY <2>1, <1>6 DEF RowInv, Exists
  <2> QED
    BY <2>1, <2>2, <1>2 DEF OwnedRow
<1> QED
  BY <1>1, <1>4, <1>5, <1>6 DEF RowInv, RequestsByMakers

LEMMA WriteRow_Inv == ASSUME RowInv, NEW r \in RowRequests, WriteRow(r) PROVE RowInv'
<1> DEFINE i == rowRequest[r].id
           n == [row[i] EXCEPT !.owner = OwnerWritten(r), !.editor = rowRequest[r].by]
<1>1. SentFor(r) /\ rowRequest' = [rowRequest EXCEPT ![r].at = "done"] /\ UNCHANGED router
      /\ row' = IF Exists(i) THEN [row EXCEPT ![i] = n] ELSE row
  BY DEF WriteRow, SentFor
<1>2. /\ rowRequest' \in [RowRequests -> RequestStates]
      /\ \A q \in RowRequests : /\ SentFor(q)' = SentFor(q)
                                /\ rowRequest'[q].by = rowRequest[q].by
                                /\ rowRequest'[q].id = rowRequest[q].id
                                /\ rowRequest'[q].found = rowRequest[q].found
      /\ row' = row => RowInv'
  BY <1>1, Answered_Inv
<1>3. CASE ~Exists(i)
  BY <1>1, <1>2, <1>3
<1>4. CASE Exists(i)
  <2>1. rowRequest[r] \in RequestStates /\ i \in RowIds /\ row[i] \in Rows /\ row \in [RowIds -> Rows \union {NoRowYet}]
    BY <1>1, <1>4 DEF RowInv, RowsTypeOK, RequestStates, RequestsByMakers, SentWell, Exists
  <2>2. OwnerWritten(r) \in Owners \union {Unowned} /\ rowRequest[r].by \in Owners \union {Unowned}
    BY <2>1 DEF OwnerWritten, Rows, RequestStates
  <2>3. n \in Rows /\ n.owner = OwnerWritten(r) /\ n.maker = row[i].maker /\ n.editor = rowRequest[r].by
    BY <2>1, <2>2 DEF Rows
  <2>4. OwnerWritten(r) = IF router.scope = "legacy" /\ rowRequest[r].found = Unowned THEN rowRequest[r].by
                          ELSE row[i].owner
    BY DEF OwnerWritten
  <2>5. SentFor(r) => (router.scope # "all" /\ row[i].maker # Unowned =>
                     rowRequest[r].found = row[i].maker /\ rowRequest[r].by = row[i].maker)
    BY <1>4 DEF RowInv, RequestsByMakers, SentWell
  <2>6. router.scope # "all" => OwnedRow(i)
    BY <1>4, <2>1 DEF RowInv
  <2> HIDE DEF n, i
  <2>7. row' = [row EXCEPT ![i] = n]
    BY <1>1, <1>4
  <2>8. row' \in [RowIds -> Rows \union {NoRowYet}] /\ row'[i] = n /\ \A j \in RowIds : j # i => row'[j] = row[j]
    BY <2>1, <2>3, <2>7
  <2>9. RowsTypeOK'
    BY <1>1, <1>2, <2>8 DEF RowInv, RowsTypeOK, RequestStates
  <2>10. ASSUME NEW q \in RowRequests PROVE SentWell(q)'
    <3>1. SentWell(q)
      BY DEF RowInv, RequestsByMakers
    <3>2. CASE rowRequest[q].id = i
      BY <3>1, <3>2, <1>1, <1>2, <1>4, <2>3, <2>8 DEF SentWell, Exists
    <3>3. CASE rowRequest[q].id # i
      BY <3>1, <3>3, <1>1, <1>2, <2>8 DEF SentWell, Exists
    <3> QED
      BY <3>2, <3>3
  <2>11. ASSUME NEW j \in RowIds, Exists(j)', router.scope # "all" PROVE OwnedRow(j)'
    <3>1. CASE j # i
      <4>1. OwnedRow(j) /\ row'[j] = row[j]
        BY <3>1, <2>8, <2>11 DEF RowInv, Exists
      <4> QED
        BY <4>1, <1>2 DEF OwnedRow
    <3>2. CASE j = i
      <4>1. CASE row[i].maker # Unowned
        <5>1. row'[i].owner = row[i].maker /\ row'[i].editor = row[i].maker /\ row'[i].maker = row[i].maker
          BY <1>1, <2>3, <2>4, <2>5, <2>6, <2>8, <2>11, <4>1 DEF OwnedRow
        <5> QED
          BY <5>1, <3>2 DEF OwnedRow
      <4>2. CASE row[i].maker = Unowned /\ router.scope = "legacy" /\ rowRequest[r].found = Unowned
        <5>1. row'[i].owner = rowRequest'[r].by /\ row'[i].maker = Unowned /\ rowRequest'[r].id = i
              /\ rowRequest'[r].found = Unowned
          BY <1>2, <2>3, <2>4, <2>8, <4>2 DEF i
        <5> QED
          BY <5>1, <3>2 DEF OwnedRow
      <4>3. CASE row[i].maker = Unowned /\ ~ (router.scope = "legacy" /\ rowRequest[r].found = Unowned)
        <5>1. row'[i].owner = row[i].owner /\ row'[i].maker = Unowned
          BY <2>3, <2>4, <2>8, <4>3
        <5> QED
          BY <5>1, <3>2, <1>2, <2>6, <2>11, <4>3 DEF OwnedRow
      <4> QED
        BY <4>1, <4>2, <4>3
    <3> QED
      BY <3>1, <3>2
  <2> QED
    BY <1>1, <2>9, <2>10, <2>11 DEF RowInv, RequestsByMakers
<1> QED
  BY <1>3, <1>4

\* The inductive invariant of the users' rows.
THEOREM RowsInductive == RowsSpec => []RowInv
<1>1. RowInv /\ [RowsNext]_rowsVars => RowInv'
  <2> SUFFICES ASSUME RowInv, [RowsNext]_rowsVars PROVE RowInv'
    OBVIOUS
  <2>1. CASE \E u \in Owners : UpdateAll(u)
    BY <2>1, UpdateAll_Inv
  <2>2. CASE \E u \in Owners, i \in RowIds : Create(u, i) \/ UpdateWhere(u, i) \/ DeleteWhere(u, i)
    <3> PICK u \in Owners, i \in RowIds : Create(u, i) \/ UpdateWhere(u, i) \/ DeleteWhere(u, i)
      BY <2>2
    <3>1. CASE DeleteWhere(u, i)
      <4>1. UNCHANGED <<router, rowRequest>> /\ row' = [row EXCEPT ![i] = NoRowYet]
        BY <3>1 DEF DeleteWhere
      <4> QED
        BY <4>1, RowsDropped
    <3> QED
      BY <3>1, Create_Inv, UpdateWhere_Inv
  <2>3. CASE \E r \in RowRequests : WriteRow(r) \/ DestroyRow(r)
    BY <2>3, WriteRow_Inv, DestroyRow_Inv
  <2>4. CASE \E r \in RowRequests, u \in Owners, i \in RowIds, op \in {"edit", "delete"} : FindRow(r, u, i, op)
    BY <2>4, FindRow_Inv
  <2>5. CASE UNCHANGED rowsVars
    <3>1. router' = router /\ row' = row /\ rowRequest' = rowRequest
      BY <2>5 DEF rowsVars
    <3> QED
      BY <3>1 DEF RowInv, RowsTypeOK, RequestsByMakers, SentWell, SentFor, OwnedRow, Exists
  <2> QED
    BY <2>1, <2>2, <2>3, <2>4, <2>5 DEF RowsNext
<1> QED
  BY <1>1, RowsInit_Inv, PTL DEF RowsSpec

\* A row stays the row of the user who made it, whatever the other users write to it (crud.js
\* and the routers written by hand).
THEOREM RowsOwned == RowsSpec => []RowsStayOwned
<1>1. RowInv => RowsStayOwned
  BY OwnedRows DEF RowInv
<1> QED
  BY <1>1, RowsInductive, PTL

(***************************************************************************)
(* The theme desk                                                          *)
(* What a deletion has destroyed is there again only if it came late.      *)
(***************************************************************************)

Errands == [at : {"new", "member", "alert", "delete", "delete alerts", "delete theme", "cut", "done"},
            of : Themes \union {0}, subject : ThemeMembers \union DeskUsers \union {0}]

\* What a request goes by is what its operation resolves; and while a theme is being
\* deleted, what the statements so far have destroyed is only there again if it is late.
Resolved(r) ==
    /\ deskRequest[r].at # "new" => deskRequest[r].of \in Themes
    /\ deskRequest[r].at = "member" => deskRequest[r].subject \in ThemeMembers
    /\ deskRequest[r].at = "alert" => deskRequest[r].subject \in DeskUsers
SweptBy(r) ==
    /\ deskRequest[r].at \in {"delete alerts", "delete theme"} =>
         \A c \in constituents : c[1] = deskRequest[r].of => c \in late
    /\ deskRequest[r].at = "delete theme" => \A a \in alerts : a[1] = deskRequest[r].of => a \in late

DeskInv ==
    /\ DeskTypeOK
    /\ \A r \in DeskRequests : Resolved(r) /\ SweptBy(r)
    /\ NoStrays

LEMMA DeskInit_Inv == DeskInit => DeskInv
<1> SUFFICES ASSUME DeskInit PROVE DeskInv
  OBVIOUS
<1> USE DeskAssumption DEF DeskInit
<1>1. Waiting \in Errands
  BY DEF Waiting, Errands
<1>2. Cardinality({1}) = 1 /\ 1 \in Themes
  BY FS_Singleton DEF Themes
<1>3. Cardinality(themes) <= 1
  BY <1>2
<1>4. DeskTypeOK
  BY <1>1, <1>2, <1>3 DEF DeskTypeOK, Errands
<1> QED
  BY <1>4 DEF DeskInv, Resolved, SweptBy, Waiting, NoStrays

\* A step that moves requests but adds no constituent, alert or theme row keeps the
\* invariant if what it moves stays resolved and swept and what it drops is not missed.
LEMMA DeskStep ==
  ASSUME DeskInv, DeskTypeOK', late \subseteq late',
         \A r \in DeskRequests : Resolved(r)' /\ SweptBy(r)',
         \A c \in constituents' : c \in late' \/ (c \in constituents /\ (c[1] \in themes => c[1] \in themes' \/ c \in late')),
         \A a \in alerts' : a \in late' \/ (a \in alerts /\ (a[1] \in themes => a[1] \in themes' \/ a \in late'))
  PROVE  DeskInv'
<1>1. NoStrays'
  BY DEF NoStrays, DeskInv
<1> QED
  BY <1>1 DEF DeskInv

LEMMA DeskMoves ==
  ASSUME DeskInv, NEW r \in DeskRequests, NEW n \in Errands, deskRequest' = [deskRequest EXCEPT ![r] = n]
  PROVE  /\ deskRequest' \in [DeskRequests -> Errands]
         /\ deskRequest'[r] = n
         /\ \A q \in DeskRequests : q # r => deskRequest'[q] = deskRequest[q]
BY DEF DeskInv, DeskTypeOK, Errands

\* Moving on in a request: the record it becomes.
LEMMA RequestGoesOn ==
  ASSUME DeskInv, NEW r \in DeskRequests,
         NEW p \in {"cut", "done", "delete alerts", "delete theme"},
         deskRequest' = [deskRequest EXCEPT ![r].at = p]
  PROVE  /\ deskRequest' \in [DeskRequests -> Errands]
         /\ deskRequest'[r].at = p /\ deskRequest'[r].of = deskRequest[r].of
         /\ \A q \in DeskRequests : q # r => deskRequest'[q] = deskRequest[q]
<1>1. deskRequest \in [DeskRequests -> Errands] /\ deskRequest[r] \in Errands
  BY DEF DeskInv, DeskTypeOK, Errands
<1>2. deskRequest' = [deskRequest EXCEPT ![r] = [deskRequest[r] EXCEPT !.at = p]]
  OBVIOUS
<1> DEFINE n == [deskRequest[r] EXCEPT !.at = p]
<1>3. n \in Errands /\ n.at = p /\ n.of = deskRequest[r].of
  BY <1>1 DEF Errands
<1> HIDE DEF n
<1> QED
  BY <1>2, <1>3, DeskMoves DEF n

LEMMA ThemesFew ==
  ASSUME DeskInv, themes' \subseteq themes
  PROVE  Cardinality(themes') <= 1 /\ themes' \subseteq Themes
<1>1. IsFiniteSet(Themes)
  BY DeskAssumption, FS_Interval DEF Themes
<1>2. themes \subseteq Themes /\ Cardinality(themes) <= 1
  BY DEF DeskInv, DeskTypeOK
<1>3. IsFiniteSet(themes)
  BY <1>1, <1>2, FS_Subset
<1>4. IsFiniteSet(themes') /\ Cardinality(themes') <= Cardinality(themes)
  BY <1>3, FS_Subset
<1>5. Cardinality(themes') \in Nat /\ Cardinality(themes) \in Nat
  BY <1>3, <1>4, FS_CardinalityType
<1> QED
  BY <1>2, <1>4, <1>5

LEMMA CreateTheme_Inv == ASSUME DeskInv, CreateTheme PROVE DeskInv'
<1>0. made \in Themes
  BY DEF DeskInv, DeskTypeOK
<1>1. themes' = {made'} /\ themes = {} /\ UNCHANGED <<constituents, alerts, deskRequest, late>>
  BY DEF CreateTheme
<1>2. Cardinality({made'}) = 1 /\ Cardinality({made'}) <= 1
  BY FS_Singleton
<1>3. made' \in Themes
  BY <1>0, DeskAssumption DEF CreateTheme, Themes
<1>5. DeskTypeOK'
  BY <1>1, <1>2, <1>3 DEF DeskInv, DeskTypeOK
<1>4. \A r \in DeskRequests : Resolved(r)' /\ SweptBy(r)'
  BY <1>1 DEF DeskInv, Resolved, SweptBy
<1> QED
  BY <1>1, <1>5, <1>4, DeskStep

LEMMA Resolve_Inv ==
  ASSUME DeskInv, NEW r \in DeskRequests, NEW op \in {"member", "alert", "delete"}, NEW x \in Subjects(op),
         Resolve(r, op, x)
  PROVE  DeskInv'
<1>1. PICK t \in themes : deskRequest' = [deskRequest EXCEPT ![r] = [at |-> op, of |-> t, subject |-> x]]
  BY DEF Resolve
<1> DEFINE n == [at |-> op, of |-> t, subject |-> x]
<1>2. t \in Themes /\ (op = "member" => x \in ThemeMembers) /\ (op = "alert" => x \in DeskUsers)
      /\ x \in ThemeMembers \union DeskUsers \union {0}
  BY DEF DeskInv, DeskTypeOK, Subjects
<1>3. n \in Errands /\ n.at = op /\ n.of = t /\ n.subject = x
  BY <1>2 DEF Errands
<1> HIDE DEF n
<1>4. /\ deskRequest' \in [DeskRequests -> Errands]
      /\ deskRequest'[r] = n
      /\ \A q \in DeskRequests : q # r => deskRequest'[q] = deskRequest[q]
  BY <1>1, <1>3, DeskMoves DEF n
<1>5. UNCHANGED <<themes, constituents, alerts, made, late>>
  BY DEF Resolve
<1>6. DeskTypeOK'
  BY <1>4, <1>5 DEF DeskInv, DeskTypeOK, Errands
<1>7. ASSUME NEW q \in DeskRequests PROVE Resolved(q)' /\ SweptBy(q)'
  <2>1. CASE q = r
    BY <2>1, <1>2, <1>3, <1>4 DEF Resolved, SweptBy
  <2>2. CASE q # r
    BY <2>2, <1>4, <1>5 DEF Resolved, SweptBy, DeskInv
  <2> QED
    BY <2>1, <2>2
<1> QED
  BY <1>5, <1>6, <1>7, DeskStep

\* A row that is written while its theme is being deleted, or after, is late.
LEMMA WrittenLate ==
  ASSUME DeskInv, NEW t, NEW item, Late(t, item)
  PROVE  /\ late \subseteq late'
         /\ Leaving(t) => item \in late'
         /\ t \notin themes => item \in late'
         /\ \A q \in DeskRequests :
              deskRequest[q].of = t /\ deskRequest[q].at \in {"delete alerts", "delete theme"} => item \in late'
BY DEF Late, Leaving

LEMMA AddConstituent_Inv == ASSUME DeskInv, NEW r \in DeskRequests, AddConstituent(r) PROVE DeskInv'
<1> DEFINE t == deskRequest[r].of
           item == <<deskRequest[r].of, deskRequest[r].subject>>
<1>1. item \in Themes \X ThemeMembers /\ item[1] = t
  BY DEF AddConstituent, DeskInv, Resolved
<1>2. /\ deskRequest[r].at = "member"
      /\ constituents' = constituents \union {item}
      /\ item \in constituents => late' = late
      /\ item \notin constituents => Late(t, item)
      /\ deskRequest' = [deskRequest EXCEPT ![r].at = "done"]
      /\ UNCHANGED <<themes, alerts, made>>
  BY <1>1 DEF AddConstituent, Replied
<1>3. /\ deskRequest' \in [DeskRequests -> Errands]
      /\ deskRequest'[r].at = "done" /\ deskRequest'[r].of = deskRequest[r].of
      /\ \A q \in DeskRequests : q # r => deskRequest'[q] = deskRequest[q]
  BY <1>2, RequestGoesOn
<1> HIDE DEF t, item
<1>4. /\ late \subseteq late'
      /\ item \in constituents \/ item \in late' \/ t \in themes
      /\ item \in constituents \/
         \A q \in DeskRequests :
            deskRequest[q].of = t /\ deskRequest[q].at \in {"delete alerts", "delete theme"} => item \in late'
  BY <1>2, WrittenLate
<1>5. DeskTypeOK'
  BY <1>1, <1>2, <1>3 DEF DeskInv, DeskTypeOK, Errands
<1>6. ASSUME NEW q \in DeskRequests PROVE Resolved(q)' /\ SweptBy(q)'
  <2>1. Resolved(q) /\ SweptBy(q) /\ Resolved(r)
    BY DEF DeskInv
  <2>2. CASE q = r
    BY <2>1, <2>2, <1>2, <1>3 DEF Resolved, SweptBy
  <2>3. CASE q # r
    BY <2>1, <2>3, <1>1, <1>2, <1>3, <1>4 DEF Resolved, SweptBy
  <2> QED
    BY <2>2, <2>3
<1>7. \A c \in constituents' : c \in late' \/ (c[1] \in themes')
  BY <1>1, <1>2, <1>4 DEF DeskInv, NoStrays
<1>8. \A a \in alerts' : a \in late' \/ (a[1] \in themes')
  BY <1>2, <1>4 DEF DeskInv, NoStrays
<1> QED
  BY <1>5, <1>6, <1>7, <1>8 DEF DeskInv, NoStrays

LEMMA AddAlert_Inv == ASSUME DeskInv, NEW r \in DeskRequests, AddAlert(r) PROVE DeskInv'
<1> DEFINE t == deskRequest[r].of
           item == <<deskRequest[r].of, deskRequest[r].subject, r>>
<1>1. item \in Themes \X DeskUsers \X DeskRequests /\ item[1] = t
  BY DEF AddAlert, DeskInv, Resolved
<1>2. /\ deskRequest[r].at = "alert"
      /\ alerts' = alerts \union {item}
      /\ Late(t, item)
      /\ deskRequest' = [deskRequest EXCEPT ![r].at = "done"]
      /\ UNCHANGED <<themes, constituents, made>>
  BY <1>1 DEF AddAlert, Replied
<1>3. /\ deskRequest' \in [DeskRequests -> Errands]
      /\ deskRequest'[r].at = "done" /\ deskRequest'[r].of = deskRequest[r].of
      /\ \A q \in DeskRequests : q # r => deskRequest'[q] = deskRequest[q]
  BY <1>2, RequestGoesOn
<1> HIDE DEF t, item
<1>4. /\ late \subseteq late'
      /\ item \in late' \/ t \in themes
      /\ \A q \in DeskRequests :
            deskRequest[q].of = t /\ deskRequest[q].at \in {"delete alerts", "delete theme"} => item \in late'
  BY <1>2, WrittenLate
<1>5. DeskTypeOK'
  BY <1>1, <1>2, <1>3 DEF DeskInv, DeskTypeOK, Errands
<1>6. ASSUME NEW q \in DeskRequests PROVE Resolved(q)' /\ SweptBy(q)'
  <2>1. Resolved(q) /\ SweptBy(q) /\ Resolved(r)
    BY DEF DeskInv
  <2>2. CASE q = r
    BY <2>1, <2>2, <1>2, <1>3 DEF Resolved, SweptBy
  <2>3. CASE q # r
    BY <2>1, <2>3, <1>1, <1>2, <1>3, <1>4 DEF Resolved, SweptBy
  <2> QED
    BY <2>2, <2>3
<1>7. \A c \in constituents' : c \in late' \/ (c[1] \in themes')
  BY <1>2, <1>4 DEF DeskInv, NoStrays
<1>8. \A a \in alerts' : a \in late' \/ (a[1] \in themes')
  BY <1>1, <1>2, <1>4 DEF DeskInv, NoStrays
<1> QED
  BY <1>5, <1>6, <1>7, <1>8 DEF DeskInv, NoStrays

LEMMA DestroyConstituents_Inv == ASSUME DeskInv, NEW r \in DeskRequests, DestroyConstituents(r) PROVE DeskInv'
<1>1. /\ constituents' = {c \in constituents : c[1] # deskRequest[r].of}
      /\ deskRequest' = [deskRequest EXCEPT ![r].at = "delete alerts"]
      /\ UNCHANGED <<themes, alerts, made, late>> /\ deskRequest[r].at # "new"
  BY DEF DestroyConstituents
<1>2. /\ deskRequest' \in [DeskRequests -> Errands]
      /\ deskRequest'[r].at = "delete alerts" /\ deskRequest'[r].of = deskRequest[r].of
      /\ \A q \in DeskRequests : q # r => deskRequest'[q] = deskRequest[q]
  BY <1>1, RequestGoesOn
<1>3. DeskTypeOK'
  BY <1>1, <1>2 DEF DeskInv, DeskTypeOK, Errands
<1>4. ASSUME NEW q \in DeskRequests PROVE Resolved(q)' /\ SweptBy(q)'
  <2>1. Resolved(q) /\ SweptBy(q) /\ Resolved(r)
    BY DEF DeskInv
  <2>2. CASE q = r
    BY <2>1, <2>2, <1>1, <1>2 DEF Resolved, SweptBy
  <2>3. CASE q # r
    BY <2>1, <2>3, <1>1, <1>2 DEF Resolved, SweptBy
  <2> QED
    BY <2>2, <2>3
<1> QED
  BY <1>1, <1>3, <1>4, DeskStep

LEMMA DestroyAlerts_Inv == ASSUME DeskInv, NEW r \in DeskRequests, DestroyAlerts(r) PROVE DeskInv'
<1>1. /\ alerts' = {a \in alerts : a[1] # deskRequest[r].of}
      /\ deskRequest' = [deskRequest EXCEPT ![r].at = "delete theme"]
      /\ UNCHANGED <<themes, constituents, made, late>> /\ deskRequest[r].at = "delete alerts"
  BY DEF DestroyAlerts, AlertsBut
<1>2. /\ deskRequest' \in [DeskRequests -> Errands]
      /\ deskRequest'[r].at = "delete theme" /\ deskRequest'[r].of = deskRequest[r].of
      /\ \A q \in DeskRequests : q # r => deskRequest'[q] = deskRequest[q]
  BY <1>1, RequestGoesOn
<1>3. DeskTypeOK'
  BY <1>1, <1>2 DEF DeskInv, DeskTypeOK, Errands
<1>4. ASSUME NEW q \in DeskRequests PROVE Resolved(q)' /\ SweptBy(q)'
  <2>1. Resolved(q) /\ SweptBy(q) /\ Resolved(r) /\ SweptBy(r)
    BY DEF DeskInv
  <2>2. CASE q = r
    BY <2>1, <2>2, <1>1, <1>2 DEF Resolved, SweptBy
  <2>3. CASE q # r
    BY <2>1, <2>3, <1>1, <1>2 DEF Resolved, SweptBy
  <2> QED
    BY <2>2, <2>3
<1> QED
  BY <1>1, <1>3, <1>4, DeskStep

LEMMA DestroyTheme_Inv == ASSUME DeskInv, NEW r \in DeskRequests, DestroyTheme(r) PROVE DeskInv'
<1>1. /\ themes' = themes \ {deskRequest[r].of}
      /\ deskRequest' = [deskRequest EXCEPT ![r].at = "done"]
      /\ UNCHANGED <<alerts, constituents, made, late>> /\ deskRequest[r].at = "delete theme"
  BY DEF DestroyTheme, Replied
<1>2. /\ deskRequest' \in [DeskRequests -> Errands]
      /\ deskRequest'[r].at = "done" /\ deskRequest'[r].of = deskRequest[r].of
      /\ \A q \in DeskRequests : q # r => deskRequest'[q] = deskRequest[q]
  BY <1>1, RequestGoesOn
<1>3. DeskTypeOK'
  <2>1. Cardinality(themes') <= 1 /\ themes' \subseteq Themes
    BY <1>1, ThemesFew
  <2> QED
    BY <1>1, <1>2, <2>1 DEF DeskInv, DeskTypeOK, Errands
<1>4. ASSUME NEW q \in DeskRequests PROVE Resolved(q)' /\ SweptBy(q)'
  <2>1. Resolved(q) /\ SweptBy(q) /\ Resolved(r)
    BY DEF DeskInv
  <2>2. CASE q = r
    BY <2>1, <2>2, <1>1, <1>2 DEF Resolved, SweptBy
  <2>3. CASE q # r
    BY <2>1, <2>3, <1>1, <1>2 DEF Resolved, SweptBy
  <2> QED
    BY <2>2, <2>3
<1>5. SweptBy(r)
  BY DEF DeskInv
<1> QED
  BY <1>1, <1>3, <1>4, <1>5, DeskStep DEF SweptBy

LEMMA DeletionCut_Inv == ASSUME DeskInv, NEW r \in DeskRequests, DeletionCut(r) PROVE DeskInv'
<1>1. /\ deskRequest' = [deskRequest EXCEPT ![r].at = "cut"]
      /\ UNCHANGED <<themes, alerts, constituents, made, late>> /\ deskRequest[r].at # "new"
  BY DEF DeletionCut
<1>2. /\ deskRequest' \in [DeskRequests -> Errands]
      /\ deskRequest'[r].at = "cut" /\ deskRequest'[r].of = deskRequest[r].of
      /\ \A q \in DeskRequests : q # r => deskRequest'[q] = deskRequest[q]
  BY <1>1, RequestGoesOn
<1>3. DeskTypeOK'
  BY <1>1, <1>2 DEF DeskInv, DeskTypeOK, Errands
<1>4. ASSUME NEW q \in DeskRequests PROVE Resolved(q)' /\ SweptBy(q)'
  <2>1. Resolved(q) /\ SweptBy(q) /\ Resolved(r)
    BY DEF DeskInv
  <2>2. CASE q = r
    BY <2>1, <2>2, <1>1, <1>2 DEF Resolved, SweptBy
  <2>3. CASE q # r
    BY <2>1, <2>3, <1>1, <1>2 DEF Resolved, SweptBy
  <2> QED
    BY <2>2, <2>3
<1> QED
  BY <1>1, <1>3, <1>4, DeskStep

\* Constituents and alerts that are dropped are not missed.
LEMMA DeskDrops ==
  ASSUME DeskInv, constituents' \subseteq constituents, alerts' \subseteq alerts,
         UNCHANGED <<themes, deskRequest, made, late>>
  PROVE  DeskInv'
<1>1. DeskTypeOK'
  BY DEF DeskInv, DeskTypeOK
<1>2. \A r \in DeskRequests : Resolved(r)' /\ SweptBy(r)'
  BY DEF DeskInv, Resolved, SweptBy
<1> QED
  BY <1>1, <1>2, DeskStep

\* The inductive invariant of the themes.
THEOREM DeskInductive == DeskSpec => []DeskInv
<1>1. DeskInv /\ [DeskNext]_deskVars => DeskInv'
  <2> SUFFICES ASSUME DeskInv, [DeskNext]_deskVars PROVE DeskInv'
    OBVIOUS
  <2>1. CASE CreateTheme
    BY <2>1, CreateTheme_Inv
  <2>2. ASSUME NEW r \in DeskRequests,
               \/ AddConstituent(r) \/ AddAlert(r) \/ DeletionCut(r)
               \/ DestroyConstituents(r) \/ DestroyAlerts(r) \/ DestroyTheme(r)
               \/ \E op \in {"member", "alert", "delete"} : \E x \in Subjects(op) : Resolve(r, op, x)
        PROVE  DeskInv'
    <3>1. CASE \E op \in {"member", "alert", "delete"} : \E x \in Subjects(op) : Resolve(r, op, x)
      BY <3>1, Resolve_Inv
    <3> QED
      BY <2>2, <3>1, AddConstituent_Inv, AddAlert_Inv, DeletionCut_Inv,
         DestroyConstituents_Inv, DestroyAlerts_Inv, DestroyTheme_Inv
  <2>3. CASE \E t \in Themes, m \in ThemeMembers : DropConstituent(t, m)
    <3>1. constituents' \subseteq constituents /\ UNCHANGED <<themes, alerts, deskRequest, made, late>>
      BY <2>3 DEF DropConstituent
    <3> QED
      BY <3>1, DeskDrops
  <2>4. CASE \E t \in Themes, u \in DeskUsers : DropAlert(t, u)
    <3>1. alerts' \subseteq alerts /\ UNCHANGED <<themes, constituents, deskRequest, made, late>>
      BY <2>4 DEF DropAlert
    <3> QED
      BY <3>1, DeskDrops
  <2>5. CASE UNCHANGED deskVars
    BY <2>5, DeskDrops DEF deskVars
  <2> QED
    BY <2>1, <2>2, <2>3, <2>4, <2>5 DEF DeskNext
<1> QED
  BY <1>1, DeskInit_Inv, PTL DEF DeskSpec

\* A deleted theme leaves behind no row but those of requests that resolved it before
\* (the deletion and additions of themes.js).
THEOREM ThemesLeaveNothing == DeskSpec => []NoStrays
<1>1. DeskInv => NoStrays
  BY DEF DeskInv
<1> QED
  BY <1>1, DeskInductive, PTL

(***************************************************************************)
(* The mirror of the documentation                                         *)
(* A row written by one statement has the hash of its text.                *)
(***************************************************************************)

DocsRow == [hash : Hashes, text : 0 .. VersionBound]
Crawls == [at : {"idle", "forcing", "fetching", "finding", "storing"}, page : Pages, force : BOOLEAN,
           got : 0 .. VersionBound, copy : DocsRow]
Importings == [at : {"new", "found", "over"}, page : Pages, copy : DocsRow]

\* A page that was fetched has a version.
DocsInv ==
    /\ DocsTypeOK
    /\ crawl.at \in {"finding", "storing"} => crawl.got # 0
    /\ HashTellsText

LEMMA DocsContents ==
  /\ NoPage \in DocsRow
  /\ \A v \in 1 .. VersionBound : \A kind \in {"file", "web"} :
       /\ Content(kind, v) \in DocsRow
       /\ Content(kind, v).text = Content(kind, v).hash.version
       /\ Content(kind, v).hash # NoHash
  /\ \A d \in DocsRow : [d EXCEPT !.hash = NoHash] \in DocsRow /\ [d EXCEPT !.hash = NoHash].hash = NoHash
  /\ 1 \in Pages /\ 1 \in 1 .. VersionBound
<1>1. NoHash \in Hashes
  BY DEF Hashes
<1>2. NoPage \in DocsRow
  BY <1>1, DocsAssumption DEF NoPage, DocsRow
<1>3. ASSUME NEW v \in 1 .. VersionBound, NEW kind \in {"file", "web"}
      PROVE  /\ Content(kind, v) \in DocsRow
             /\ Content(kind, v).text = Content(kind, v).hash.version
             /\ Content(kind, v).hash # NoHash
  <2>1. [of |-> kind, version |-> v] \in Hashes
    BY DEF Hashes
  <2>2. v \in 0 .. VersionBound
    BY DocsAssumption
  <2> QED
    BY <2>1, <2>2 DEF Content, DocsRow, NoHash
<1>4. ASSUME NEW d \in DocsRow
      PROVE  [d EXCEPT !.hash = NoHash] \in DocsRow /\ [d EXCEPT !.hash = NoHash].hash = NoHash
  BY <1>1 DEF DocsRow
<1>5. 1 \in Pages /\ 1 \in 1 .. VersionBound
  BY DocsAssumption DEF Pages
<1> QED
  BY <1>2, <1>3, <1>4, <1>5

LEMMA DocsTypes ==
  DocsTypeOK <=> /\ upstream \in 1 .. VersionBound /\ crawls \in 0 .. CrawlBound
                 /\ page \in [Pages -> DocsRow] /\ crawl \in Crawls
                 /\ importing \in [Imports -> Importings] /\ crossed \subseteq Pages
BY DEF DocsTypeOK, DocsRow, Crawls, Importings

HashTold(p) == page[p].hash # NoHash => page[p].text = page[p].hash.version \/ p \in crossed

LEMMA DocsInit_Inv == DocsInit => DocsInv
<1> SUFFICES ASSUME DocsInit PROVE DocsInv
  OBVIOUS
<1> USE DEF DocsInit
<1>1. NoCrawl \in Crawls
  BY DocsContents, DocsAssumption DEF NoCrawl, Crawls
<1>2. page \in [Pages -> DocsRow]
  BY DocsContents
<1>3. importing \in [Imports -> Importings]
  BY DocsContents DEF Importings
<1>4. upstream \in 1 .. VersionBound /\ crawls \in 0 .. CrawlBound
  BY DocsAssumption
<1>5. ASSUME NEW p \in Pages PROVE HashTold(p)
  <2>1. NoPage.hash = NoHash
    BY DEF NoPage
  <2> QED
    BY <2>1, DocsContents DEF HashTold
<1>6. crawl.at = "idle"
  BY DEF NoCrawl
<1> QED
  BY <1>1, <1>2, <1>3, <1>4, <1>5, <1>6, DocsTypes DEF DocsInv, HashTellsText, HashTold

\* A write of new contents over the row that was read leaves their hash and their text.
LEMMA StoresTell ==
  ASSUME DocsInv, NEW p \in Pages, NEW found \in DocsRow, NEW kind \in {"file", "web"},
         NEW v \in 1 .. VersionBound, Stores(p, found, Content(kind, v))
  PROVE  page' \in [Pages -> DocsRow] /\ crossed' \subseteq Pages /\ HashTellsText'
<1> DEFINE new == Content(kind, v)
<1>1. new \in DocsRow /\ new.text = new.hash.version /\ new.hash # NoHash
  BY DocsContents
<1>2. page \in [Pages -> DocsRow] /\ crossed \subseteq Pages /\ \A q \in Pages : HashTold(q)
  BY DocsTypes DEF DocsInv, HashTellsText, HashTold
<1> DEFINE stored == IF found = NoPage THEN (IF page[p] = NoPage THEN new ELSE page[p]) ELSE Updated(found, new, page[p])
<1>3. page' = [page EXCEPT ![p] = stored]
      /\ crossed' = IF page[p] # found THEN crossed \union {p} ELSE crossed
  BY DEF Stores
<1> HIDE DEF new
<1>4. Updated(found, new, page[p]) \in DocsRow
  BY <1>1, <1>2 DEF Updated, DocsRow
<1>5. stored \in DocsRow
  BY <1>1, <1>2, <1>4
<1>6. page[p] = found => (stored.hash # NoHash => stored.text = stored.hash.version \/ p \in crossed)
  <2> SUFFICES ASSUME page[p] = found, stored.hash # NoHash PROVE stored.text = stored.hash.version \/ p \in crossed
    OBVIOUS
  <2>1. CASE found = NoPage
    BY <2>1, <1>1
  <2>2. CASE found # NoPage /\ found.hash = new.hash
    <3>1. stored = page[p]
      BY <2>2 DEF Updated
    <3> QED
      BY <3>1, <1>2 DEF HashTold
  <2>3. CASE found # NoPage /\ found.hash # new.hash
    <3>1. stored = [hash |-> new.hash, text |-> IF found.text = new.text THEN page[p].text ELSE new.text]
      BY <2>3 DEF Updated
    <3>2. stored.hash = new.hash /\ stored.text = new.text
      BY <3>1
    <3> QED
      BY <3>2, <1>1
  <2> QED
    BY <2>1, <2>2, <2>3
<1> HIDE DEF stored
<1>7. page' \in [Pages -> DocsRow] /\ crossed' \subseteq Pages /\ crossed \subseteq crossed'
      /\ page'[p] = stored /\ \A q \in Pages : q # p => page'[q] = page[q]
  BY <1>2, <1>3, <1>5
<1>8. ASSUME NEW q \in Pages PROVE HashTold(q)'
  <2>1. CASE q = p
    BY <2>1, <1>3, <1>6, <1>7 DEF HashTold
  <2>2. CASE q # p
    BY <2>2, <1>2, <1>7 DEF HashTold
  <2> QED
    BY <2>1, <2>2
<1> QED
  BY <1>7, <1>8 DEF HashTellsText, HashTold

LEMMA Onwards_Inv ==
  ASSUME DocsInv, Onwards
  PROVE  crawl' \in Crawls /\ crawl'.at \in {"idle", "forcing", "fetching"}
<1>1. crawl \in Crawls /\ crawl.page \in Pages /\ crawl.force \in BOOLEAN
  BY DocsTypes DEF DocsInv, Crawls
<1>2. NoCrawl \in Crawls /\ NoCrawl.at = "idle"
  BY DocsContents, DocsAssumption DEF NoCrawl, Crawls
<1>3. CASE crawl.page = PageBound
  BY <1>2, <1>3 DEF Onwards
<1>4. CASE crawl.page # PageBound
  <2>1. crawl.page + 1 \in Pages
    BY <1>1, <1>4, DocsAssumption DEF Pages
  <2>2. crawl' = [NoCrawl EXCEPT !.at = IF crawl.force THEN "forcing" ELSE "fetching", !.force = crawl.force,
                                 !.page = crawl.page + 1]
    BY <1>4 DEF Onwards
  <2>3. crawl' = [at |-> IF crawl.force THEN "forcing" ELSE "fetching", page |-> crawl.page + 1,
                  force |-> crawl.force, got |-> 0, copy |-> NoPage]
    BY <2>2 DEF NoCrawl
  <2>4. (IF crawl.force THEN "forcing" ELSE "fetching") \in {"forcing", "fetching"}
    OBVIOUS
  <2>5. 0 \in 0 .. VersionBound
    BY DocsAssumption
  <2> QED
    BY <1>1, <2>1, <2>3, <2>4, <2>5, DocsContents DEF Crawls
<1> QED
  BY <1>3, <1>4

\* A step that writes no page keeps the invariant if the crawl stays well formed.
LEMMA DocsKept ==
  ASSUME DocsInv, UNCHANGED <<page, crossed>>, upstream' \in 1 .. VersionBound, crawls' \in 0 .. CrawlBound,
         crawl' \in Crawls, crawl'.at \in {"finding", "storing"} => crawl'.got # 0,
         importing' \in [Imports -> Importings]
  PROVE  DocsInv'
<1>1. HashTellsText'
  BY DEF DocsInv, HashTellsText
<1>2. DocsTypeOK'
  <2>1. page \in [Pages -> DocsRow] /\ crossed \subseteq Pages
    BY DocsTypes DEF DocsInv
  <2> QED
    BY <2>1 DEF DocsTypeOK, DocsRow, Crawls, Importings
<1> QED
  BY <1>1, <1>2 DEF DocsInv

LEMMA DocsParts ==
  ASSUME DocsInv
  PROVE  /\ upstream \in 1 .. VersionBound /\ crawls \in 0 .. CrawlBound
         /\ page \in [Pages -> DocsRow] /\ crawl \in Crawls
         /\ importing \in [Imports -> Importings] /\ crossed \subseteq Pages
         /\ crawl.at \in {"finding", "storing"} => crawl.got # 0
         /\ crawl.page \in Pages /\ crawl.copy \in DocsRow
         /\ crawl.got \in 0 .. VersionBound
<1>1. crawl \in Crawls
  BY DocsTypes DEF DocsInv
<1> QED
  BY <1>1, DocsTypes DEF DocsInv, Crawls

LEMMA StartCrawl_Inv == ASSUME DocsInv, NEW b \in BOOLEAN, StartCrawl(b) PROVE DocsInv'
<1>1. crawl' = [at |-> IF b THEN "forcing" ELSE "fetching", page |-> 1, force |-> b, got |-> 0, copy |-> NoPage]
  BY DEF StartCrawl, NoCrawl
<1>2. crawl' \in Crawls /\ crawl'.at \in {"forcing", "fetching"}
  BY <1>1, DocsContents, DocsAssumption DEF Crawls
<1>3. crawls' \in 0 .. CrawlBound
  BY DocsParts, DocsAssumption DEF StartCrawl
<1>4. UNCHANGED <<upstream, page, importing, crossed>>
  BY DEF StartCrawl
<1> QED
  BY <1>2, <1>3, <1>4, DocsParts, DocsKept

LEMMA ClearHash_Inv == ASSUME DocsInv, NEW b \in BOOLEAN, ClearHash(b) PROVE DocsInv'
<1>1. crawl' = [crawl EXCEPT !.at = "fetching"] /\ UNCHANGED <<upstream, crawls, importing, crossed>>
  BY DEF ClearHash
<1>2. crawl' \in Crawls /\ crawl'.at = "fetching"
  BY <1>1, DocsParts DEF Crawls
<1>3. CASE page' = page
  BY <1>1, <1>2, <1>3, DocsParts, DocsKept
<1>4. CASE page' = [page EXCEPT ![crawl.page].hash = NoHash]
  <2> DEFINE n == [page[crawl.page] EXCEPT !.hash = NoHash]
  <2>1. page' = [page EXCEPT ![crawl.page] = n]
    BY <1>4
  <2>2. n \in DocsRow /\ n.hash = NoHash
    BY DocsParts, DocsContents
  <2> HIDE DEF n
  <2>3. page' \in [Pages -> DocsRow] /\ page'[crawl.page] = n
        /\ \A q \in Pages : q # crawl.page => page'[q] = page[q]
    BY <2>1, <2>2, DocsParts
  <2>4. HashTellsText'
    BY <2>2, <2>3, <1>1 DEF DocsInv, HashTellsText
  <2>5. DocsTypeOK'
    BY <2>3, <1>1, <1>2, DocsParts DEF DocsTypeOK, DocsRow, Crawls, Importings
  <2> QED
    BY <2>4, <2>5, <1>2 DEF DocsInv
<1> QED
  BY <1>3, <1>4 DEF ClearHash

LEMMA FetchDocs_Inv == ASSUME DocsInv, FetchDocs PROVE DocsInv'
<1>1. crawl' = [crawl EXCEPT !.at = "finding", !.got = upstream] /\ UNCHANGED <<upstream, page, crawls, importing, crossed>>
  BY DEF FetchDocs
<1>2. upstream \in 0 .. VersionBound /\ upstream # 0
  BY DocsParts, DocsAssumption
<1>3. crawl' \in Crawls /\ crawl'.got # 0
  BY <1>1, <1>2, DocsParts DEF Crawls
<1> QED
  BY <1>1, <1>3, DocsParts, DocsKept

LEMMA FindDocs_Inv == ASSUME DocsInv, FindDocs PROVE DocsInv'
<1>1. crawl' = [crawl EXCEPT !.at = "storing", !.copy = page[crawl.page]]
      /\ UNCHANGED <<upstream, page, crawls, importing, crossed>> /\ crawl.at = "finding"
  BY DEF FindDocs
<1>2. page[crawl.page] \in DocsRow /\ crawl.got # 0
  BY <1>1, DocsParts
<1>3. crawl' \in Crawls /\ crawl'.got # 0
  BY <1>1, <1>2, DocsParts DEF Crawls
<1> QED
  BY <1>1, <1>3, DocsParts, DocsKept

LEMMA StoreDocs_Inv == ASSUME DocsInv, StoreDocs PROVE DocsInv'
<1>1. crawl.got \in 1 .. VersionBound
  BY DocsParts, DocsAssumption DEF StoreDocs
<1>2. page' \in [Pages -> DocsRow] /\ crossed' \subseteq Pages /\ HashTellsText'
  BY <1>1, DocsParts, StoresTell DEF StoreDocs
<1>3. crawl' \in Crawls /\ crawl'.at \in {"idle", "forcing", "fetching"}
  BY Onwards_Inv DEF StoreDocs
<1>4. UNCHANGED <<upstream, crawls, importing>>
  BY DEF StoreDocs
<1>5. DocsTypeOK'
  BY <1>2, <1>3, <1>4, DocsParts DEF DocsTypeOK, DocsRow, Crawls, Importings
<1> QED
  BY <1>2, <1>3, <1>5 DEF DocsInv

LEMMA PageFails_Inv == ASSUME DocsInv, PageFails PROVE DocsInv'
<1>1. crawl' \in Crawls /\ crawl'.at \in {"idle", "forcing", "fetching"}
  BY Onwards_Inv DEF PageFails
<1>2. UNCHANGED <<upstream, page, crawls, importing, crossed>>
  BY DEF PageFails
<1> QED
  BY <1>1, <1>2, DocsParts, DocsKept

LEMMA FindForImport_Inv == ASSUME DocsInv, NEW i \in Imports, FindForImport(i) PROVE DocsInv'
<1>1. importing[i] \in Importings
  BY DocsParts
<1> DEFINE n == [importing[i] EXCEPT !.at = "found", !.copy = page[importing[i].page]]
<1>2. page[importing[i].page] \in DocsRow
  BY <1>1, DocsParts DEF Importings
<1>3. n \in Importings
  BY <1>1, <1>2 DEF Importings
<1>4. importing' = [importing EXCEPT ![i] = n]
  BY <1>1 DEF FindForImport, Importings
<1> HIDE DEF n
<1>5. importing' \in [Imports -> Importings]
  BY <1>3, <1>4, DocsParts
<1>6. UNCHANGED <<upstream, page, crawl, crawls, crossed>>
  BY DEF FindForImport
<1> QED
  BY <1>5, <1>6, DocsParts, DocsKept

LEMMA StoreImport_Inv ==
  ASSUME DocsInv, NEW i \in Imports, NEW b \in BOOLEAN, StoreImport(i, b) PROVE DocsInv'
<1> DEFINE p == importing[i].page
           found == importing[i].copy
           ends == b \/ Refuses(p, found) \/ p = PageBound
           n == [at |-> IF ends THEN "over" ELSE "new", copy |-> NoPage, page |-> IF ends THEN p ELSE p + 1]
<1>1. importing[i] \in Importings /\ p \in Pages /\ found \in DocsRow
  BY DocsParts DEF Importings
<1>2. importing' = [importing EXCEPT ![i] = n] /\ UNCHANGED <<upstream, crawl, crawls>>
  BY DEF StoreImport
<1>3. ~ends => p + 1 \in Pages
  BY <1>1, DocsAssumption DEF Pages
<1>4. n \in Importings
  <2>1. CASE ends
    BY <2>1, <1>1, DocsContents DEF Importings
  <2>2. CASE ~ends
    BY <2>2, <1>3, DocsContents DEF Importings
  <2> QED
    BY <2>1, <2>2
<1>5. CASE b
  <2>1. UNCHANGED <<page, crossed>>
    BY <1>5 DEF StoreImport
  <2> HIDE DEF n
  <2>2. importing' \in [Imports -> Importings]
    BY <1>2, <1>4, DocsParts
  <2> QED
    BY <2>1, <2>2, <1>2, DocsParts, DocsKept
<1>6. CASE ~b
  <2>1. Stores(p, found, Content("file", 1))
    BY <1>6 DEF StoreImport
  <2>2. page' \in [Pages -> DocsRow] /\ crossed' \subseteq Pages /\ HashTellsText'
    BY <2>1, <1>1, DocsContents, StoresTell
  <2> HIDE DEF n, p, found
  <2>3. importing' \in [Imports -> Importings]
    BY <1>2, <1>4, DocsParts
  <2>4. DocsTypeOK'
    BY <2>2, <2>3, <1>2, DocsParts DEF DocsTypeOK, DocsRow, Crawls, Importings
  <2> QED
    BY <2>2, <2>4, <1>2, DocsParts DEF DocsInv
<1> QED
  BY <1>5, <1>6

LEMMA Publish_Inv == ASSUME DocsInv, Publish PROVE DocsInv'
<1>1. upstream' \in 1 .. VersionBound /\ UNCHANGED <<page, crawl, crawls, importing, crossed>>
  BY DocsParts, DocsAssumption DEF Publish
<1> QED
  BY <1>1, DocsParts, DocsKept

LEMMA DocsRestart_Inv == ASSUME DocsInv, DocsRestart PROVE DocsInv'
<1>1. crawl' \in Crawls /\ crawl'.at = "idle"
  BY DocsContents, DocsAssumption DEF DocsRestart, NoCrawl, Crawls
<1>2. ASSUME NEW i \in Imports
      PROVE  [importing[i] EXCEPT !.at = IF @ = "found" THEN "over" ELSE @] \in Importings
  <2>1. importing[i] \in Importings
    BY DocsParts
  <2> QED
    BY <2>1 DEF Importings
<1>3. importing' \in [Imports -> Importings]
  BY <1>2 DEF DocsRestart
<1>4. UNCHANGED <<upstream, page, crawls, crossed>>
  BY DEF DocsRestart
<1> QED
  BY <1>1, <1>3, <1>4, DocsParts, DocsKept

\* The inductive invariant of the documentation.
THEOREM DocsInductive == DocsSpec => []DocsInv
<1>1. DocsInv /\ [DocsNext]_docsVars => DocsInv'
  <2> SUFFICES ASSUME DocsInv, [DocsNext]_docsVars PROVE DocsInv'
    OBVIOUS
  <2>1. CASE FetchDocs \/ FindDocs \/ StoreDocs \/ PageFails \/ Publish \/ DocsRestart
    BY <2>1, FetchDocs_Inv, FindDocs_Inv, StoreDocs_Inv, PageFails_Inv, Publish_Inv, DocsRestart_Inv
  <2>2. CASE \E b \in BOOLEAN : StartCrawl(b) \/ ClearHash(b)
    BY <2>2, StartCrawl_Inv, ClearHash_Inv
  <2>3. CASE \E i \in Imports : FindForImport(i) \/ \E b \in BOOLEAN : StoreImport(i, b)
    BY <2>3, FindForImport_Inv, StoreImport_Inv
  <2>4. CASE UNCHANGED docsVars
    BY <2>4, DocsParts, DocsKept DEF docsVars
  <2> QED
    BY <2>1, <2>2, <2>3, <2>4 DEF DocsNext
<1> QED
  BY <1>1, DocsInit_Inv, PTL DEF DocsSpec

\* A page whose hash was not forced has the hash of its text (docsCrawler.js, docsImporter.js).
THEOREM HashesTell == DocsSpec => []HashTellsText
<1>1. DocsInv => HashTellsText
  BY DEF DocsInv
<1> QED
  BY <1>1, DocsInductive, PTL

(***************************************************************************)
(* Feeds                                                                   *)
(* An entry that no two syncs looked for at once has one row.              *)
(***************************************************************************)

SyncStates == [at : {"idle", "looping", "creating"}, todo : SUBSET Entries, entry : SUBSET Entries]

\* A sync creates the row of one entry or of none.
OneAtATime(s) ==
    /\ sync[s].at = "creating" => \E e \in Entries : sync[s].entry = {e}
    /\ sync[s].at # "creating" => sync[s].entry = {}

\* An entry no two syncs looked for at once: one of them at most creates its row, and
\* whoever does found none but those an operator added since.
LookedForOnce(e) ==
    /\ \A s, q \in Syncs : sync[s].entry = {e} /\ sync[q].entry = {e} => s = q
    /\ \A s \in Syncs : sync[s].entry = {e} => table[e] <= byHand[e]
    /\ table[e] <= 1 + byHand[e]

FeedInv ==
    /\ table \in [Entries -> 0 .. FeedBound] /\ byHand \in [Entries -> Nat]
    /\ sync \in [Syncs -> SyncStates] /\ twice \subseteq Entries
    /\ \A s \in Syncs : OneAtATime(s)
    /\ \A e \in Entries \ twice : LookedForOnce(e)

LEMMA FeedInvHolds == FeedInv => FeedTypeOK /\ OneRowPerEntry
<1> SUFFICES ASSUME FeedInv PROVE FeedTypeOK /\ OneRowPerEntry
  OBVIOUS
<1>1. OneRowPerEntry
  BY DEF FeedInv, LookedForOnce, OneRowPerEntry
<1>2. ASSUME NEW s \in Syncs
      PROVE  /\ sync[s].at \in {"idle", "looping", "creating"}
             /\ sync[s].todo \subseteq Entries
             /\ Cardinality(sync[s].entry) = (IF sync[s].at = "creating" THEN 1 ELSE 0)
  <2>1. sync[s] \in SyncStates /\ OneAtATime(s)
    BY DEF FeedInv
  <2>2. CASE sync[s].at = "creating"
    <3>1. PICK e \in Entries : sync[s].entry = {e}
      BY <2>1, <2>2 DEF OneAtATime
    <3>2. Cardinality({e}) = 1
      BY FS_Singleton
    <3> QED
      BY <2>1, <2>2, <3>1, <3>2 DEF SyncStates
  <2>3. CASE sync[s].at # "creating"
    <3>1. sync[s].entry = {}
      BY <2>1, <2>3 DEF OneAtATime
    <3>2. Cardinality({}) = 0
      BY FS_EmptySet
    <3> QED
      BY <2>1, <2>3, <3>1, <3>2 DEF SyncStates
  <2> QED
    BY <2>2, <2>3
<1>3. FeedTypeOK
  BY <1>2 DEF FeedInv, FeedTypeOK
<1> QED
  BY <1>1, <1>3

LEMMA FeedInit_Inv == FeedInit => FeedInv
<1> SUFFICES ASSUME FeedInit PROVE FeedInv
  OBVIOUS
<1> USE FeedSyncAssumption DEF FeedInit
<1>1. NoSync \in SyncStates /\ NoSync.at = "idle" /\ NoSync.entry = {}
  BY DEF NoSync, SyncStates
<1>2. table \in [Entries -> 0 .. FeedBound] /\ byHand \in [Entries -> Nat]
  OBVIOUS
<1>3. ASSUME NEW s \in Syncs PROVE sync[s] = NoSync /\ OneAtATime(s)
  BY <1>1 DEF OneAtATime
<1>4. ASSUME NEW e \in Entries PROVE LookedForOnce(e)
  BY <1>1, <1>3 DEF LookedForOnce
<1> QED
  BY <1>1, <1>2, <1>3, <1>4 DEF FeedInv

\* A sync that goes on without an entry to create keeps everything.
LEMMA SyncGoesOn ==
  ASSUME FeedInv, NEW s \in Syncs, NEW n \in SyncStates, n.at # "creating", n.entry = {},
         sync' = [sync EXCEPT ![s] = n], UNCHANGED <<table, twice, byHand>>
  PROVE  FeedInv'
<1>1. sync' \in [Syncs -> SyncStates] /\ sync'[s] = n /\ \A q \in Syncs : q # s => sync'[q] = sync[q]
  BY DEF FeedInv
<1>2. ASSUME NEW q \in Syncs PROVE OneAtATime(q)'
  <2>1. CASE q = s
    BY <1>1, <2>1 DEF OneAtATime
  <2>2. CASE q # s
    BY <1>1, <2>2 DEF OneAtATime, FeedInv
  <2> QED
    BY <2>1, <2>2
<1>3. ASSUME NEW e \in Entries \ twice' PROVE LookedForOnce(e)'
  <2>1. LookedForOnce(e)
    BY DEF FeedInv
  <2>2. \A q \in Syncs : sync'[q].entry = {e} => sync[q].entry = {e}
    BY <1>1
  <2> QED
    BY <2>1, <2>2 DEF LookedForOnce
<1> QED
  BY <1>1, <1>2, <1>3 DEF FeedInv

LEMMA SyncStarts_Inv == ASSUME FeedInv, NEW s \in Syncs, NEW b \in SUBSET Entries, SyncStarts(s, b) PROVE FeedInv'
<1> DEFINE n == [NoSync EXCEPT !.at = "looping", !.todo = b]
<1>1. n \in SyncStates /\ n.at = "looping" /\ n.entry = {}
  BY DEF NoSync, SyncStates
<1>2. sync' = [sync EXCEPT ![s] = n] /\ UNCHANGED <<table, twice, byHand>>
  BY DEF SyncStarts
<1> HIDE DEF n
<1> QED
  BY <1>1, <1>2, SyncGoesOn

LEMMA Skips_Inv == ASSUME FeedInv, NEW s \in Syncs, Skips(s) \/ FindsRow(s) PROVE FeedInv'
<1>1. PICK e : sync' = [sync EXCEPT ![s].todo = @ \ {e}]
  BY DEF Skips, FindsRow
<1>2. sync[s] \in SyncStates /\ sync[s].at = "looping" /\ sync[s].entry = {} /\ UNCHANGED <<table, twice, byHand>>
  BY DEF FeedInv, Skips, FindsRow, OneAtATime
<1> DEFINE n == [sync[s] EXCEPT !.todo = @ \ {e}]
<1>3. n \in SyncStates /\ n.at = "looping" /\ n.entry = {}
  BY <1>2 DEF SyncStates
<1>4. sync' = [sync EXCEPT ![s] = n]
  BY <1>1
<1> HIDE DEF n
<1> QED
  BY <1>2, <1>3, <1>4, SyncGoesOn

LEMMA SyncFails_Inv == ASSUME FeedInv, NEW s \in Syncs, SyncFails(s) PROVE FeedInv'
<1>1. NoSync \in SyncStates /\ NoSync.at = "idle" /\ NoSync.entry = {}
  BY DEF NoSync, SyncStates
<1> QED
  BY <1>1, SyncGoesOn DEF SyncFails

LEMMA SyncEnds_Inv == ASSUME FeedInv, NEW s \in Syncs, SyncEnds(s) PROVE FeedInv'
<1>2. sync[s] \in SyncStates /\ sync[s].entry = {} /\ UNCHANGED <<table, twice, byHand>>
  BY DEF FeedInv, SyncEnds, OneAtATime
<1> DEFINE n == [sync[s] EXCEPT !.at = "idle"]
<1>3. n \in SyncStates /\ n.at = "idle" /\ n.entry = {}
  BY <1>2 DEF SyncStates
<1>4. sync' = [sync EXCEPT ![s] = n]
  BY DEF SyncEnds
<1> HIDE DEF n
<1> QED
  BY <1>2, <1>3, <1>4, SyncGoesOn

LEMMA FindsNone_Inv == ASSUME FeedInv, NEW s \in Syncs, FindsNone(s) PROVE FeedInv'
<1>1. PICK e \in Entries : /\ table[e] = 0
                           /\ sync' = [sync EXCEPT ![s].at = "creating", ![s].entry = {e}]
                           /\ twice' = IF \E q \in Syncs : sync[q].entry = {e} THEN twice \cup {e} ELSE twice
  BY DEF FindsNone, Usable, FeedInv, SyncStates
<1> DEFINE n == [sync[s] EXCEPT !.at = "creating", !.entry = {e}]
<1>2. sync[s] \in SyncStates /\ UNCHANGED <<table, byHand>>
  BY DEF FeedInv, FindsNone
<1>3. n \in SyncStates /\ n.at = "creating" /\ n.entry = {e}
  BY <1>2 DEF SyncStates
<1>4. sync' = [sync EXCEPT ![s] = n]
  BY <1>1
<1> HIDE DEF n
<1>5. sync' \in [Syncs -> SyncStates] /\ sync'[s] = n /\ \A q \in Syncs : q # s => sync'[q] = sync[q]
  BY <1>3, <1>4 DEF FeedInv
<1>6. ASSUME NEW q \in Syncs PROVE OneAtATime(q)'
  <2>1. CASE q = s
    BY <1>3, <1>5, <2>1 DEF OneAtATime
  <2>2. CASE q # s
    BY <1>5, <2>2 DEF OneAtATime, FeedInv
  <2> QED
    BY <2>1, <2>2
<1>7. twice \subseteq twice' /\ twice' \subseteq Entries
      /\ (e \notin twice' => \A q \in Syncs : sync[q].entry # {e})
  BY <1>1 DEF FeedInv
<1>8. ASSUME NEW d \in Entries \ twice' PROVE LookedForOnce(d)'
  <2>1. LookedForOnce(d)
    BY <1>7 DEF FeedInv
  <2>2. CASE d = e
    <3>1. \A q \in Syncs : sync'[q].entry = {d} => q = s
      BY <1>5, <1>7, <2>2
    <3>2. table'[d] = 0 /\ byHand'[d] \in Nat
      BY <1>1, <1>2, <2>2 DEF FeedInv
    <3> QED
      BY <3>1, <3>2 DEF LookedForOnce
  <2>3. CASE d # e
    <3>1. \A q \in Syncs : sync'[q].entry = {d} => sync[q].entry = {d}
      BY <1>3, <1>5, <2>3
    <3> QED
      BY <2>1, <3>1, <1>2 DEF LookedForOnce
  <2> QED
    BY <2>2, <2>3
<1> QED
  BY <1>2, <1>5, <1>6, <1>7, <1>8 DEF FeedInv

LEMMA Creates_Inv == ASSUME FeedInv, NEW s \in Syncs, Creates(s) PROVE FeedInv'
<1>0. PICK d \in Entries : sync[s].entry = {d}
  BY DEF FeedInv, Creates, OneAtATime
<1>1. PICK e \in Entries : /\ sync[s].entry = {e} /\ table[e] < FeedBound
                           /\ table' = [table EXCEPT ![e] = @ + 1]
                           /\ sync' = [sync EXCEPT ![s].at = "looping", ![s].entry = {}, ![s].todo = @ \ {e}]
  BY <1>0 DEF Creates
<1> DEFINE n == [sync[s] EXCEPT !.at = "looping", !.entry = {}, !.todo = @ \ {e}]
<1>2. sync[s] \in SyncStates /\ UNCHANGED <<twice, byHand>>
  BY DEF FeedInv, Creates
<1>3. n \in SyncStates /\ n.at = "looping" /\ n.entry = {}
  BY <1>2 DEF SyncStates
<1>4. sync' = [sync EXCEPT ![s] = n]
  BY <1>1
<1> HIDE DEF n
<1>5. sync' \in [Syncs -> SyncStates] /\ sync'[s] = n /\ \A q \in Syncs : q # s => sync'[q] = sync[q]
  BY <1>3, <1>4 DEF FeedInv
<1>6. ASSUME NEW q \in Syncs PROVE OneAtATime(q)'
  <2>1. CASE q = s
    BY <1>3, <1>5, <2>1 DEF OneAtATime
  <2>2. CASE q # s
    BY <1>5, <2>2 DEF OneAtATime, FeedInv
  <2> QED
    BY <2>1, <2>2
<1>7. table' \in [Entries -> 0 .. FeedBound] /\ table'[e] = table[e] + 1
      /\ \A x \in Entries : x # e => table'[x] = table[x]
  BY <1>1, FeedSyncAssumption DEF FeedInv
<1>8. ASSUME NEW x \in Entries \ twice' PROVE LookedForOnce(x)'
  <2>1. LookedForOnce(x) /\ table[x] \in Nat /\ byHand[x] \in Nat
    BY <1>2, FeedSyncAssumption DEF FeedInv
  <2>2. \A q \in Syncs : sync'[q].entry = {x} => sync[q].entry = {x} /\ q # s
    BY <1>3, <1>5
  <2>3. CASE x = e
    <3>1. \A q \in Syncs : sync'[q].entry # {x}
      BY <1>1, <2>1, <2>2, <2>3 DEF LookedForOnce
    <3>2. table[x] <= byHand[x]
      BY <1>1, <2>1, <2>3 DEF LookedForOnce
    <3>3. table'[x] = table[x] + 1 /\ byHand' = byHand
      BY <1>7, <1>2, <2>3
    <3>4. table'[x] <= 1 + byHand'[x]
      BY <3>2, <3>3, <2>1
    <3> QED
      BY <3>1, <3>4 DEF LookedForOnce
  <2>4. CASE x # e
    BY <2>1, <2>2, <1>2, <1>7, <2>4 DEF LookedForOnce
  <2> QED
    BY <2>3, <2>4
<1> QED
  BY <1>2, <1>5, <1>6, <1>7, <1>8 DEF FeedInv

LEMMA AddEvent_Inv == ASSUME FeedInv, NEW e \in Entries, AddEvent(e) PROVE FeedInv'
<1>1. /\ table' = [table EXCEPT ![e] = @ + 1] /\ byHand' = [byHand EXCEPT ![e] = @ + 1]
      /\ UNCHANGED <<sync, twice>> /\ table[e] < FeedBound
  BY DEF AddEvent
<1>2. table' \in [Entries -> 0 .. FeedBound] /\ byHand' \in [Entries -> Nat]
      /\ \A x \in Entries : \/ x = e /\ table'[x] = table[x] + 1 /\ byHand'[x] = byHand[x] + 1
                            \/ x # e /\ table'[x] = table[x] /\ byHand'[x] = byHand[x]
  BY <1>1, FeedSyncAssumption DEF FeedInv
<1>3. ASSUME NEW x \in Entries \ twice' PROVE LookedForOnce(x)'
  <2>1. LookedForOnce(x) /\ table[x] \in Int /\ byHand[x] \in Int
    BY <1>1, FeedSyncAssumption DEF FeedInv
  <2>2. table[x] <= byHand[x] => table'[x] <= byHand'[x]
    BY <1>2, <2>1
  <2>3. table[x] <= 1 + byHand[x] => table'[x] <= 1 + byHand'[x]
    BY <1>2, <2>1
  <2> QED
    BY <2>1, <2>2, <2>3, <1>1 DEF LookedForOnce
<1> QED
  BY <1>1, <1>2, <1>3 DEF FeedInv, OneAtATime

LEMMA DeleteEvent_Inv == ASSUME FeedInv, NEW e \in Entries, DeleteEvent(e) PROVE FeedInv'
<1>1. table' = [table EXCEPT ![e] = @ - 1] /\ UNCHANGED <<sync, twice, byHand>> /\ table[e] > 0
  BY DEF DeleteEvent
<1>2. table' \in [Entries -> 0 .. FeedBound] /\ \A x \in Entries : table'[x] <= table[x] /\ table'[x] \in Int
      /\ table[x] \in Int
  BY <1>1, FeedSyncAssumption DEF FeedInv
<1>3. ASSUME NEW x \in Entries \ twice' PROVE LookedForOnce(x)'
  <2>1. LookedForOnce(x) /\ table[x] \in Int /\ byHand[x] \in Int /\ table'[x] <= table[x] /\ table'[x] \in Int
    BY <1>1, <1>2 DEF FeedInv
  <2>2. table[x] <= byHand[x] => table'[x] <= byHand[x]
    BY <2>1
  <2>3. table[x] <= 1 + byHand[x] => table'[x] <= 1 + byHand[x]
    BY <2>1
  <2> QED
    BY <2>1, <2>2, <2>3, <1>1 DEF LookedForOnce
<1> QED
  BY <1>1, <1>2, <1>3 DEF FeedInv, OneAtATime

\* The inductive invariant of the feeds.
THEOREM FeedInductive == FeedSpec => []FeedInv
<1>1. FeedInv /\ [FeedNext]_feedVars => FeedInv'
  <2> SUFFICES ASSUME FeedInv, [FeedNext]_feedVars PROVE FeedInv'
    OBVIOUS
  <2>1. ASSUME NEW s \in Syncs,
               \/ \E batch \in SUBSET Entries : SyncStarts(s, batch)
               \/ Skips(s) \/ FindsRow(s) \/ FindsNone(s) \/ Creates(s) \/ SyncFails(s) \/ SyncEnds(s)
        PROVE  FeedInv'
    BY <2>1, SyncStarts_Inv, Skips_Inv, FindsNone_Inv, Creates_Inv, SyncFails_Inv, SyncEnds_Inv
  <2>2. ASSUME NEW e \in Entries, AddEvent(e) \/ DeleteEvent(e) PROVE FeedInv'
    BY <2>2, AddEvent_Inv, DeleteEvent_Inv
  <2>3. CASE UNCHANGED feedVars
    <3>1. table' = table /\ sync' = sync /\ twice' = twice /\ byHand' = byHand
      BY <2>3 DEF feedVars
    <3> QED
      BY <3>1 DEF FeedInv, OneAtATime, LookedForOnce
  <2> QED
    BY <2>1, <2>2, <2>3 DEF FeedNext
<1> QED
  BY <1>1, FeedInit_Inv, PTL DEF FeedSpec

\* Syncing a feed again adds no row twice (fetchFromFinnhub of newsFetcher.js and earningsFetcher.js).
THEOREM EntriesHaveOneRow == FeedSpec => []OneRowPerEntry
BY FeedInductive, FeedInvHolds, PTL

(***************************************************************************)
(* The signal relay                                                        *)
(* The consumer's place is a row that was committed, or the beginning.     *)
(***************************************************************************)

SignalStates == {"none", "inserting", "live", "expired", "purged"}
Committed == {"live", "expired", "purged"}

\* The consumer's place is a row that was committed, or the beginning.
RelayInv ==
    /\ signal \in [Ids -> SignalStates]
    /\ lastId \in Nat /\ since \in Nat /\ lastId <= SignalBound /\ since <= lastId
    /\ asked \in BOOLEAN /\ seen \subseteq Ids /\ behind \subseteq Ids
    /\ follows \in {"bot", "page"}
    /\ lastId # 0 => signal[lastId] \in Committed
    /\ NothingPassedOver

LEMMA RelayInvHolds == RelayInv => RelayTypeOK /\ NothingPassedOver
BY SignalRelayAssumption DEF RelayInv, RelayTypeOK, SignalStates

LEMMA RelayInit_Inv == RelayInit => RelayInv
<1> SUFFICES ASSUME RelayInit PROVE RelayInv
  OBVIOUS
<1>1. signal \in [Ids -> SignalStates]
  BY DEF RelayInit, SignalStates
<1>2. lastId \in Nat /\ since \in Nat /\ lastId <= SignalBound /\ since <= lastId
  BY SignalRelayAssumption DEF RelayInit
<1>3. NothingPassedOver
  BY SignalRelayAssumption DEF RelayInit, NothingPassedOver
<1> QED
  BY <1>1, <1>2, <1>3 DEF RelayInit, RelayInv

\* Rows that change but become live nowhere, and rows committed that stay so.
LEMMA SignalsChange ==
  ASSUME RelayInv, signal' \in [Ids -> SignalStates],
         \A i \in Ids : signal'[i] = "live" => signal[i] = "live",
         \A i \in Ids : signal[i] \in Committed => signal'[i] \in Committed,
         UNCHANGED <<follows, lastId, since, asked, seen, behind>>
  PROVE  RelayInv'
<1>1. NothingPassedOver'
  <2> SUFFICES ASSUME NEW i \in 1 .. lastId, signal'[i] = "live" PROVE i \in seen \cup behind
    BY DEF NothingPassedOver
  <2>1. i \in Ids
    BY SignalRelayAssumption DEF RelayInv, Ids
  <2> QED
    BY <2>1 DEF RelayInv, NothingPassedOver
<1>2. lastId # 0 => signal'[lastId] \in Committed
  <2>1. lastId # 0 => lastId \in Ids
    BY SignalRelayAssumption DEF RelayInv, Ids
  <2> QED
    BY <2>1 DEF RelayInv
<1> QED
  BY <1>1, <1>2 DEF RelayInv

LEMMA Produce_Inv == ASSUME RelayInv, Produce PROVE RelayInv'
<1>1. PICK i \in Ids : signal[i] = "none" /\ signal' = [signal EXCEPT ![i] = "inserting"]
  BY DEF Produce
<1>2. signal' \in [Ids -> SignalStates]
      /\ (\A j \in Ids : signal'[j] = "live" => signal[j] = "live")
      /\ \A j \in Ids : signal[j] \in Committed => signal'[j] \in Committed
  BY <1>1 DEF RelayInv, SignalStates, Committed
<1> QED
  BY <1>2, SignalsChange DEF Produce

LEMMA Expire_Inv == ASSUME RelayInv, NEW i \in Ids, Expire(i) PROVE RelayInv'
<1>2. signal' \in [Ids -> SignalStates]
      /\ (\A j \in Ids : signal'[j] = "live" => signal[j] = "live")
      /\ \A j \in Ids : signal[j] \in Committed => signal'[j] \in Committed
  BY DEF RelayInv, SignalStates, Committed, Expire
<1> QED
  BY <1>2, SignalsChange DEF Expire

LEMMA Purge_Inv == ASSUME RelayInv, Purge PROVE RelayInv'
<1>2. signal' \in [Ids -> SignalStates]
      /\ (\A j \in Ids : signal'[j] = "live" => signal[j] = "live")
      /\ \A j \in Ids : signal[j] \in Committed => signal'[j] \in Committed
  BY DEF RelayInv, SignalStates, Committed, Purge
<1> QED
  BY <1>2, SignalsChange DEF Purge

LEMMA Commit_Inv == ASSUME RelayInv, NEW i \in Ids, Commit(i) PROVE RelayInv'
<1>1. /\ signal[i] = "inserting" /\ signal' = [signal EXCEPT ![i] = "live"]
      /\ behind' = IF \E j \in Ids : j > i /\ signal[j] \in Committed THEN behind \cup {i} ELSE behind
      /\ UNCHANGED <<follows, lastId, since, asked, seen>>
  BY DEF Commit, Committed
<1>2. signal' \in [Ids -> SignalStates] /\ signal'[i] = "live"
      /\ \A j \in Ids : j # i => signal'[j] = signal[j]
  BY <1>1 DEF RelayInv, SignalStates
<1>3. lastId # 0 => lastId \in Ids
  BY SignalRelayAssumption DEF RelayInv, Ids
<1>4. lastId # 0 => signal[lastId] \in Committed /\ lastId # i
  BY <1>1 DEF RelayInv, Committed
<1>5. behind \subseteq behind' /\ behind' \subseteq Ids
  BY <1>1 DEF RelayInv
<1>6. NothingPassedOver'
  <2> SUFFICES ASSUME NEW j \in 1 .. lastId, signal'[j] = "live" PROVE j \in seen \cup behind'
    BY <1>1 DEF NothingPassedOver
  <2>1. j \in Ids /\ lastId # 0
    BY SignalRelayAssumption DEF RelayInv, Ids
  <2>2. CASE j = i
    <3>1. lastId > i
      BY <2>1, <2>2, <1>4 DEF RelayInv
    <3> QED
      BY <2>1, <2>2, <3>1, <1>1, <1>3, <1>4
  <2>3. CASE j # i
    BY <2>1, <2>3, <1>2, <1>5 DEF RelayInv, NothingPassedOver
  <2> QED
    BY <2>2, <2>3
<1>7. lastId # 0 => signal'[lastId] \in Committed
  BY <1>2, <1>3, <1>4
<1> QED
  BY <1>1, <1>2, <1>5, <1>6, <1>7 DEF RelayInv

\* Of the rows ahead, an answer has every one up to its last.
LEMMA DeliveredInOrder ==
  ASSUME RelayInv, NEW m \in Delivered, NEW i \in Ahead, i <= m
  PROVE  i \in Delivered
<1> DEFINE Before(x) == {j \in Ahead : j < x}
<1>1. IsFiniteSet(Ahead)
  <2>1. IsFiniteSet(Ids)
    BY SignalRelayAssumption, FS_Interval DEF Ids
  <2> QED
    BY <2>1, FS_Subset DEF Ahead
<1>2. IsFiniteSet(Before(m)) /\ IsFiniteSet(Before(i))
  BY <1>1, FS_Subset
<1>3. Before(i) \subseteq Before(m)
  BY SignalRelayAssumption DEF Ahead, Delivered, Ids
<1>4. Cardinality(Before(i)) <= Cardinality(Before(m))
  BY <1>2, <1>3, FS_Subset
<1>5. Cardinality(Before(i)) \in Nat /\ Cardinality(Before(m)) \in Nat
  BY <1>2, FS_CardinalityType
<1>6. Cardinality(Before(m)) < PollLimit
  BY DEF Delivered
<1>7. Cardinality(Before(i)) < PollLimit
  BY <1>4, <1>5, <1>6, SignalRelayAssumption
<1> QED
  BY <1>7 DEF Delivered

LEMMA LastDelivered ==
  ASSUME RelayInv, Delivered # {}
  PROVE  Max(Delivered) \in Delivered /\ \A i \in Delivered : i <= Max(Delivered)
<1>1. IsFiniteSet(Delivered) /\ Delivered \subseteq Nat
  <2>1. IsFiniteSet(Ids) /\ Delivered \subseteq Ids /\ Ids \subseteq Nat
    BY SignalRelayAssumption, FS_Interval DEF Ids, Delivered, Ahead
  <2> QED
    BY <2>1, FS_Subset
<1> DEFINE id == [x \in Delivered |-> x]
<1>2. \A x \in Delivered : id[x] \in Nat /\ id[x] = x
  BY <1>1
<1> HIDE DEF id
<1>3. \E x \in Delivered : \A y \in Delivered : id[y] <= id[x]
  BY <1>1, <1>2, GreatestOfFinite
<1>4. \E x \in Delivered : \A y \in Delivered : x >= y
  BY <1>1, <1>2, <1>3
<1> QED
  BY <1>1, <1>4 DEF Max

LEMMA GiveSignals_Inv == ASSUME RelayInv, GiveSignals PROVE RelayInv'
<1>1. /\ asked' = FALSE /\ seen' = seen \cup Delivered
      /\ lastId' = IF Delivered = {} THEN lastId ELSE Max(Delivered)
      /\ since' = IF follows = "bot" THEN lastId' ELSE since
      /\ UNCHANGED <<signal, follows, behind>>
  BY DEF GiveSignals
<1>2. \A i \in Delivered : i \in Ids /\ i > since /\ signal[i] = "live" /\ i \in Nat /\ i <= SignalBound
  BY SignalRelayAssumption DEF Delivered, Ahead, Ids
<1>3. CASE Delivered = {}
  <2>1. lastId' = lastId /\ seen' = seen
    BY <1>1, <1>3
  <2>2. since' \in Nat /\ since' <= lastId'
    BY <1>1, <2>1 DEF RelayInv
  <2>3. NothingPassedOver'
    BY <1>1, <2>1 DEF NothingPassedOver, RelayInv
  <2> QED
    BY <1>1, <2>1, <2>2, <2>3 DEF RelayInv
<1>4. CASE Delivered # {}
  <2> DEFINE m == Max(Delivered)
  <2>1. m \in Delivered /\ lastId' = m
    BY <1>1, <1>4, LastDelivered
  <2> HIDE DEF m
  <2>2. m \in Ids /\ m > since /\ signal[m] = "live" /\ m \in Nat /\ m <= SignalBound
    BY <1>2, <2>1
  <2>3. NothingPassedOver'
    <3> SUFFICES ASSUME NEW i \in 1 .. m, signal[i] = "live" PROVE i \in seen' \cup behind
      BY <1>1, <2>1 DEF NothingPassedOver
    <3>1. i \in Ids /\ i \in Nat /\ i <= m
      BY <2>2, SignalRelayAssumption DEF Ids
    <3>2. CASE i <= since
      <4>1. i \in 1 .. lastId
        BY <3>1, <3>2 DEF RelayInv
      <4> QED
        BY <4>1, <1>1 DEF RelayInv, NothingPassedOver
    <3>3. CASE i > since
      <4>1. i \in Ahead
        BY <3>1, <3>3 DEF Ahead
      <4>2. i \in Delivered
        BY <4>1, <3>1, <2>1, DeliveredInOrder
      <4> QED
        BY <4>2, <1>1
    <3> QED
      BY <3>1, <3>2, <3>3 DEF RelayInv
  <2>4. since' \in Nat /\ since' <= lastId'
    BY <1>1, <2>1, <2>2 DEF RelayInv
  <2>5. seen' \subseteq Ids
    BY <1>1, <1>2 DEF RelayInv
  <2> QED
    BY <1>1, <2>1, <2>2, <2>3, <2>4, <2>5 DEF RelayInv, Committed
<1> QED
  BY <1>3, <1>4

\* The inductive invariant of the relay.
THEOREM RelayInductive == RelaySpec => []RelayInv
<1>1. RelayInv /\ [RelayNext]_relayVars => RelayInv'
  <2> SUFFICES ASSUME RelayInv, [RelayNext]_relayVars PROVE RelayInv'
    OBVIOUS
  <2>1. CASE Produce
    BY <2>1, Produce_Inv
  <2>2. CASE \E i \in Ids : Commit(i) \/ Expire(i)
    BY <2>2, Commit_Inv, Expire_Inv
  <2>3. CASE Purge
    BY <2>3, Purge_Inv
  <2>4. CASE AskSignals \/ AskFails
    BY <2>4 DEF AskSignals, AskFails, RelayInv, NothingPassedOver
  <2>5. CASE GiveSignals
    BY <2>5, GiveSignals_Inv
  <2>6. CASE Restream
    BY <2>6 DEF Restream, RelayInv, NothingPassedOver
  <2>7. CASE UNCHANGED relayVars
    BY <2>7 DEF relayVars, RelayInv, NothingPassedOver
  <2> QED
    BY <2>1, <2>2, <2>3, <2>4, <2>5, <2>6, <2>7 DEF RelayNext
<1> QED
  BY <1>1, RelayInit_Inv, PTL DEF RelaySpec

\* A consumer passes over no signal but those committed out of the order of their ids
\* (producerConsumer.js).
THEOREM SignalsAreDelivered == RelaySpec => []NothingPassedOver
BY RelayInductive, RelayInvHolds, PTL

(***************************************************************************)
(* The migrations                                                          *)
(* A script that is recorded has settled every block of it, and a script   *)
(* under way the blocks behind it, whatever died or raced.                 *)
(***************************************************************************)

ScriptOf(c) == IF c = SeedSync THEN BootstrapBaseSchema ELSE Scripts[c]
AllScripts == 1 .. 12

\* A block creates a table whole, or adds what it looks for; what it asks for is the table
\* of a column, but for one index.
BuildsTable(b) == b.found = Table(b.found[1]) /\ b.statements[1] = Whole(b.found[1]) /\ b.asks = {}
AddsOne(b) ==
    /\ b.statements = <<{b.found}>> /\ b.found[2] # "table"
    /\ b.asks # {} => b.asks = {Table(b.found[1])}
                      /\ (b.found = Named("TrailingStops") \/ b.found \in ColumnsAddedLater)
AddsIndex(b) ==
    Len(b.statements) = 2 => \E index \in {Named(b.found[1]), Derived(b.found[1])} :
        b.statements[2] = {index} /\ b.found[1] \in Indexed
WellFormed(b) ==
    /\ BuildsTable(b) \/ AddsOne(b)
    /\ Len(b.statements) \in 1 .. 2
    /\ AddsIndex(b)
    /\ b.found = Named(b.found[1]) => b.found[1] \in Indexed
    /\ b.found[2] \in {"table", "named", "derived"} \/ b.found \in ColumnsAddedLater

LEMMA ModelsAre ==
    /\ DOMAIN ModelOrder = 1 .. 11 /\ Len(ModelOrder) = 11
    /\ Models = {"Users", "PositionNotes", "TrailingStops", "MarketNews", "RuntimeAiResults", "BrokerOrders",
      "ReconciliationRuns", "RevokedTokens", "AuditLogs", "ThemeConstituents", "Sessions"}
    /\ \A t \in Models : \E i \in 1 .. 11 : ModelOrder[i] = t
    /\ \A i \in 1 .. 11 : ModelOrder[i] \in Models
<1>1. DOMAIN ModelOrder = 1 .. 11 /\ Len(ModelOrder) = 11
  BY DEF ModelOrder
<1>2. Models = {"Users", "PositionNotes", "TrailingStops", "MarketNews", "RuntimeAiResults", "BrokerOrders",
      "ReconciliationRuns", "RevokedTokens", "AuditLogs", "ThemeConstituents", "Sessions"}
  BY DEF Models, ModelOrder
<1> QED
  BY <1>1, <1>2 DEF Models

LEMMA ScriptsAre == Len(Scripts) = 11 /\ DOMAIN Scripts = 1 .. 11 /\ SeedSync = 12
BY DEF Scripts, SeedSync

LEMMA BootstrapIs ==
    /\ Len(BootstrapBaseSchema) = 22
    /\ \A i \in 1 .. 11 : /\ BootstrapBaseSchema[2 * i - 1] = CreateTable(ModelOrder[i])
                          /\ BootstrapBaseSchema[2 * i] = Add(Derived(ModelOrder[i]))
    /\ \A j \in 1 .. 22 : \E i \in 1 .. 11 : j = 2 * i - 1 \/ j = 2 * i
<1>1. Len(BootstrapBaseSchema) = 22
  BY ModelsAre DEF BootstrapBaseSchema
<1>2. ASSUME NEW i \in 1 .. 11
      PROVE  /\ BootstrapBaseSchema[2 * i - 1] = CreateTable(ModelOrder[i])
             /\ BootstrapBaseSchema[2 * i] = Add(Derived(ModelOrder[i]))
  <2>1. 2 * i - 1 \in 1 .. 22 /\ 2 * i \in 1 .. 22 /\ (2 * i - 1 + 1) \div 2 = i /\ (2 * i + 1) \div 2 = i
        /\ 2 - ((2 * i - 1) % 2) = 1 /\ 2 - ((2 * i) % 2) = 2
    OBVIOUS
  <2>2. SyncTable(ModelOrder[i])[1] = CreateTable(ModelOrder[i]) /\ SyncTable(ModelOrder[i])[2] = Add(Derived(ModelOrder[i]))
    BY DEF SyncTable
  <2> QED
    BY <2>1, <2>2, ModelsAre DEF BootstrapBaseSchema
<1>3. \A j \in 1 .. 22 : \E i \in 1 .. 11 : j = 2 * i - 1 \/ j = 2 * i
  OBVIOUS
<1> QED
  BY <1>1, <1>2, <1>3

LEMMA CreatesWell ==
    ASSUME NEW t
    PROVE  /\ WellFormed(CreateTable(t)) /\ CreateTable(t).found = Table(t) /\ Table(t)[1] = t /\ ~CreateTable(t).catches
           /\ t \in Indexed => /\ WellFormed(CreateIndexed(t, Named(t)))
                               /\ WellFormed(CreateIndexed(t, Derived(t)))
           /\ CreateIndexed(t, Derived(t)).found = Table(t) /\ ~CreateIndexed(t, Derived(t)).catches
BY DEF WellFormed, BuildsTable, AddsIndex, CreateTable, CreateIndexed, Block, Table, Named, Derived

LEMMA AddsWell ==
    ASSUME NEW t
    PROVE  /\ t \in Indexed => WellFormed(Add(Named(t))) /\ WellFormed(TryAdd(Named(t)))
           /\ WellFormed(Add(Derived(t))) /\ Add(Derived(t)).found = Derived(t) /\ Add(Named(t)).found = Named(t)
           /\ ~Add(Derived(t)).catches /\ ~Add(Named(t)).catches
BY DEF WellFormed, AddsOne, AddsIndex, Add, TryAdd, Block, Table, Named, Derived

LEMMA ColumnsWell ==
    ASSUME NEW x \in ColumnsAddedLater
    PROVE  /\ WellFormed(AddTo(x)) /\ WellFormed(Add(x)) /\ AddTo(x).found = x /\ Add(x).found = x
           /\ ~AddTo(x).catches /\ ~Add(x).catches
           /\ x[2] \notin {"table", "named", "derived"} /\ x[1] \in Models /\ x = <<x[1], x[2]>>
<1>1. x[2] \notin {"table", "named", "derived"} /\ x[1] \in Models /\ x = <<x[1], x[2]>>
  BY ModelsAre DEF ColumnsAddedLater
<1> QED
  BY <1>1 DEF WellFormed, AddsOne, AddsIndex, Add, AddTo, Block, Table, Named, Derived

\* Every block of every script is well formed.
LEMMA ScriptsWell ==
    /\ \A c \in AllScripts : Len(ScriptOf(c)) \in Nat
    /\ \A c \in AllScripts : \A j \in 1 .. Len(ScriptOf(c)) : WellFormed(ScriptOf(c)[j])
<1>1. \A t \in {"TrailingStops", "AuditLogs", "RevokedTokens", "Sessions", "PositionNotes", "ThemeConstituents", "BrokerOrders",
                "ReconciliationRuns", "RuntimeAiResults"} : t \in Indexed
  BY ModelsAre DEF Indexed
<1>2. WellFormed(AddTo(Named("TrailingStops")))
  BY <1>1 DEF WellFormed, AddsOne, AddsIndex, AddTo, Block, Table, Named, Derived
<1>3. \A j \in 1 .. 3 : WellFormed(MultiUserIsolation[j])
  BY <1>1, <1>2, ColumnsWell, CreatesWell DEF MultiUserIsolation, ColumnsAddedLater
<1>4. \A j \in 1 .. 3 : WellFormed(AuthHardening[j])
  BY <1>1, ColumnsWell, CreatesWell, AddsWell DEF AuthHardening, ColumnsAddedLater
<1>5. \A j \in 1 .. 2 : WellFormed(NotificationsSessions[j])
  BY <1>1, CreatesWell, AddsWell DEF NotificationsSessions
<1>6. \A j \in 1 .. 3 : WellFormed(WebhookPositionNotes[j])
  BY <1>1, ColumnsWell, CreatesWell, AddsWell DEF WebhookPositionNotes, ColumnsAddedLater
<1>7. WellFormed(MarketNewsUrl[1]) /\ WellFormed(AiThemes[1]) /\ WellFormed(ReconciliationSnapshots[1]) /\ WellFormed(RuntimeResults[1])
  BY <1>1, ColumnsWell, CreatesWell DEF MarketNewsUrl, AiThemes, ReconciliationSnapshots, RuntimeResults, ColumnsAddedLater
<1>8. \A j \in 1 .. 5 : WellFormed(GovernedBrokerExecution[j])
  BY <1>1, ColumnsWell, CreatesWell, AddsWell DEF GovernedBrokerExecution, ColumnsAddedLater
<1>9. \A j \in 1 .. 22 : WellFormed(BootstrapBaseSchema[j])
  BY BootstrapIs, CreatesWell, AddsWell
<1>10. /\ ScriptOf(1) = <<>> /\ ScriptOf(2) = MultiUserIsolation /\ ScriptOf(3) = AuthHardening
       /\ ScriptOf(4) = NotificationsSessions /\ ScriptOf(5) = WebhookPositionNotes /\ ScriptOf(6) = MarketNewsUrl
       /\ ScriptOf(7) = AiThemes /\ ScriptOf(8) = GovernedBrokerExecution /\ ScriptOf(9) = ReconciliationSnapshots
       /\ ScriptOf(10) = BootstrapBaseSchema /\ ScriptOf(11) = RuntimeResults /\ ScriptOf(12) = BootstrapBaseSchema
  BY ScriptsAre DEF ScriptOf, Scripts
<1>11. /\ Len(MultiUserIsolation) = 3 /\ Len(AuthHardening) = 3 /\ Len(NotificationsSessions) = 2
       /\ Len(WebhookPositionNotes) = 3 /\ Len(MarketNewsUrl) = 1 /\ Len(AiThemes) = 1 /\ Len(GovernedBrokerExecution) = 5
       /\ Len(ReconciliationSnapshots) = 1 /\ Len(RuntimeResults) = 1
  BY DEF MultiUserIsolation, AuthHardening, NotificationsSessions, WebhookPositionNotes, MarketNewsUrl, AiThemes,
         GovernedBrokerExecution, ReconciliationSnapshots, RuntimeResults
<1> DEFINE Good(c) == Len(ScriptOf(c)) \in Nat /\ \A j \in 1 .. Len(ScriptOf(c)) : WellFormed(ScriptOf(c)[j])
<1>12. Len(BootstrapBaseSchema) = 22
  BY BootstrapIs
<1>13. Good(1)
  <2>1. Len(ScriptOf(1)) = 0
    BY <1>10
  <2> QED
    BY <2>1
<1>14. ASSUME NEW c, ScriptOf(c) = BootstrapBaseSchema PROVE Good(c)
  <2>1. Len(ScriptOf(c)) = 22 /\ 22 \in Nat
    BY <1>12, <1>14
  <2>2. \A j \in 1 .. Len(ScriptOf(c)) : WellFormed(ScriptOf(c)[j])
    BY ONLY <1>9, <1>14, <2>1
  <2> QED
    BY <2>1, <2>2
<1>15. ASSUME NEW c, ScriptOf(c) \in {MultiUserIsolation, AuthHardening, WebhookPositionNotes} PROVE Good(c)
  BY <1>3, <1>4, <1>6, <1>11, <1>15
<1>16. ASSUME NEW c, ScriptOf(c) \in {NotificationsSessions, GovernedBrokerExecution} PROVE Good(c)
  BY <1>5, <1>8, <1>11, <1>16
<1>17. ASSUME NEW c, ScriptOf(c) \in {MarketNewsUrl, AiThemes, ReconciliationSnapshots, RuntimeResults} PROVE Good(c)
  BY <1>7, <1>11, <1>17
<1> HIDE DEF Good
<1>19. \A c \in AllScripts : Good(c)
  BY <1>10, <1>13, <1>14, <1>15, <1>16, <1>17 DEF AllScripts
<1> QED
  BY <1>19 DEF Good

\* What is there once a block that looks for it has run: a column, if its table is there.
Due(s, x) == IF x[2] \in {"table", "named", "derived"} THEN x \in s ELSE Table(x[1]) \in s => x \in s
Settled(s, b) == b.catches \/ b.found = Named("TrailingStops") \/ Due(s, b.found)
SettledUpto(s, c, n) == \A j \in 1 .. n : Concerns(ScriptOf(c)[j]) => Settled(s, ScriptOf(c)[j])

\* A process by its state: its script, and the block it has come to.
CurrentOf(p) == Min(p.todo)
BodyOf(p) == ScriptOf(CurrentOf(p))
OverOf(p) == Len(BodyOf(p)) + 1
AtOf(p) ==
    CHOOSE i \in p.block .. OverOf(p) :
        /\ i = OverOf(p) \/ Concerns(BodyOf(p)[i])
        /\ \A j \in p.block .. (i - 1) : ~Concerns(BodyOf(p)[j])
HereOf(p) == BodyOf(p)[AtOf(p)]

\* The blocks a process has behind it are settled, and the first statement of a block
\* settles it.
RunnerStates == [todo : SUBSET AllScripts, block : Nat, statement : 0 .. 2]
RunnerGood(s, p) ==
    /\ p \in RunnerStates
    /\ p.todo = {} => p.statement = 0
    /\ p.todo # {} =>
         /\ p.block \in 1 .. OverOf(p)
         /\ SettledUpto(s, CurrentOf(p), p.block - 1)
         /\ p.statement # 0 => AtOf(p) # OverOf(p) /\ p.statement <= Len(HereOf(p).statements)
         /\ p.statement = 2 => Settled(s, HereOf(p))

\* So are those of a script that is recorded, but for a table that was no model when the
\* bootstrap was recorded.
ScriptSettled(s, c) ==
    \A j \in 1 .. Len(ScriptOf(c)) :
        Concerns(ScriptOf(c)[j]) =>
            Settled(s, ScriptOf(c)[j]) \/ (c = 10 /\ ScriptOf(c)[j].found[1] = "RuntimeAiResults")

Names == Declared \cup {Named(t) : t \in Indexed}
MigrationInv ==
    /\ schema \subseteq Names
    /\ recorded \subseteq 1 .. 11
    /\ runner = [r \in Runners |-> runner[r]]
    /\ \A r \in Runners : RunnerGood(schema, runner[r])
    /\ \A c \in recorded : ScriptSettled(schema, c)

LEMMA DeclaredIs ==
    \A x : x \in Declared <=> \E t \in Tables : x = Table(t) \/ x \in Columns(t) \/ (x = Derived(t) /\ t \in Indexed)
<1>1. \A x : x \in (UNION {{Table(t)} \cup Columns(t) : t \in Tables}) <=> \E t \in Tables : x = Table(t) \/ x \in Columns(t)
  OBVIOUS
<1>2. \A x : x \in {Derived(t) : t \in Tables \cap Indexed} <=> \E t \in Tables : x = Derived(t) /\ t \in Indexed
  OBVIOUS
<1> QED
  BY <1>1, <1>2 DEF Declared

LEMMA OfInstanceIs ==
    \A x : x \in OfInstance <=> \E t \in Tables :
        x = Table(t) \/ x \in Columns(t) \/ (x = Derived(t) /\ t \in Indexed) \/ x = Named(t)
<1>1. \A x : x \in {Named(t) : t \in Tables} <=> \E t \in Tables : x = Named(t)
  OBVIOUS
<1> QED
  BY <1>1, DeclaredIs DEF OfInstance

LEMMA NamesAre ==
    \A x : x \in Names <=> \/ \E t \in Tables : x = Table(t) \/ x \in Columns(t) \/ (x = Derived(t) /\ t \in Indexed)
                          \/ \E t \in Indexed : x = Named(t)
<1>1. \A x : x \in {Named(t) : t \in Indexed} <=> \E t \in Indexed : x = Named(t)
  OBVIOUS
<1> QED
  BY <1>1, DeclaredIs DEF Names

LEMMA CurrentIs ==
    ASSUME NEW p \in RunnerStates, p.todo # {}
    PROVE  /\ CurrentOf(p) \in AllScripts /\ CurrentOf(p) \in p.todo
           /\ Len(BodyOf(p)) \in Nat /\ OverOf(p) = Len(BodyOf(p)) + 1 /\ OverOf(p) \in Nat
<1>1. p.todo \subseteq AllScripts
  BY DEF RunnerStates
<1>2. p.todo \subseteq Nat
  BY <1>1 DEF AllScripts
<1>3. PICK x \in p.todo : \A y \in p.todo : x <= y
  BY <1>2, LeastNatural
<1>4. CurrentOf(p) \in p.todo
  BY <1>3 DEF CurrentOf, Min
<1>5. Len(BodyOf(p)) \in Nat
  BY <1>1, <1>4, ScriptsWell DEF BodyOf
<1> QED
  BY <1>1, <1>4, <1>5 DEF OverOf

\* The next block is the first that concerns the instance.
LEMMA AtIs ==
    ASSUME NEW p \in RunnerStates, p.todo # {}, p.block \in 1 .. OverOf(p)
    PROVE  /\ AtOf(p) \in p.block .. OverOf(p)
           /\ AtOf(p) = OverOf(p) \/ Concerns(BodyOf(p)[AtOf(p)])
           /\ \A j \in p.block .. (AtOf(p) - 1) : ~Concerns(BodyOf(p)[j])
<1> DEFINE b == p.block
           o == OverOf(p)
           S == {i \in b .. o : i = o \/ Concerns(BodyOf(p)[i])}
<1>1. b \in Nat /\ o \in Nat /\ b <= o
  BY CurrentIs
<1>2. S \subseteq Nat /\ o \in S
  BY <1>1
<1>3. PICK i \in S : \A y \in S : i <= y
  BY <1>2, LeastNatural
<1>4. \A j \in b .. (i - 1) : ~Concerns(BodyOf(p)[j])
  <2> SUFFICES ASSUME NEW j \in b .. (i - 1), Concerns(BodyOf(p)[j]) PROVE FALSE
    OBVIOUS
  <2>1. j \in b .. o /\ ~(i <= j)
    BY <1>1, <1>2
  <2>2. j \in S
    BY <2>1
  <2> QED
    BY <1>3, <2>1, <2>2
<1>5. i \in b .. o /\ (i = o \/ Concerns(BodyOf(p)[i]))
  OBVIOUS
<1> HIDE DEF S
<1> QED
  BY <1>4, <1>5 DEF AtOf

LEMMA HereIs ==
    ASSUME NEW p \in RunnerStates, p.todo # {}, p.block \in 1 .. OverOf(p), AtOf(p) # OverOf(p)
    PROVE  /\ AtOf(p) \in 1 .. Len(BodyOf(p)) /\ AtOf(p) + 1 \in 1 .. OverOf(p) /\ AtOf(p) \in Nat
           /\ WellFormed(HereOf(p)) /\ Concerns(HereOf(p))
<1>1. AtOf(p) \in p.block .. OverOf(p) /\ Concerns(BodyOf(p)[AtOf(p)])
  BY AtIs
<1>2. OverOf(p) = Len(BodyOf(p)) + 1 /\ Len(BodyOf(p)) \in Nat /\ CurrentOf(p) \in AllScripts
  BY CurrentIs
<1>3. AtOf(p) \in 1 .. Len(BodyOf(p)) /\ AtOf(p) + 1 \in 1 .. OverOf(p) /\ AtOf(p) \in Nat
  BY <1>1, <1>2
<1> QED
  BY <1>1, <1>2, <1>3, ScriptsWell DEF HereOf, BodyOf

\* Once the next block is settled it is behind the process too.
LEMMA UptoNext ==
    ASSUME NEW s, NEW p, RunnerGood(s, p), p.todo # {}, AtOf(p) # OverOf(p) => Settled(s, HereOf(p))
    PROVE  /\ AtOf(p) # OverOf(p) => SettledUpto(s, CurrentOf(p), AtOf(p))
           /\ AtOf(p) = OverOf(p) => SettledUpto(s, CurrentOf(p), Len(BodyOf(p)))
<1>1. p \in RunnerStates /\ p.block \in 1 .. OverOf(p) /\ SettledUpto(s, CurrentOf(p), p.block - 1)
  BY DEF RunnerGood
<1>2. AtOf(p) \in p.block .. OverOf(p) /\ \A j \in p.block .. (AtOf(p) - 1) : ~Concerns(BodyOf(p)[j])
  BY <1>1, AtIs
<1>3. OverOf(p) \in Nat /\ OverOf(p) = Len(BodyOf(p)) + 1 /\ Len(BodyOf(p)) \in Nat
  BY <1>1, CurrentIs
<1>4. ASSUME NEW j \in 1 .. AtOf(p), j # AtOf(p), Concerns(BodyOf(p)[j]) PROVE Settled(s, BodyOf(p)[j])
  <2>1. j \in 1 .. p.block - 1 \/ j \in p.block .. (AtOf(p) - 1)
    BY <1>1, <1>2, <1>3, <1>4
  <2> QED
    BY <1>1, <1>2, <1>4, <2>1 DEF SettledUpto, BodyOf
<1>5. ASSUME AtOf(p) # OverOf(p) PROVE SettledUpto(s, CurrentOf(p), AtOf(p))
  BY <1>4, <1>5 DEF SettledUpto, BodyOf, HereOf
<1>6. ASSUME AtOf(p) = OverOf(p) PROVE SettledUpto(s, CurrentOf(p), Len(BodyOf(p)))
  <2>1. \A j \in 1 .. Len(BodyOf(p)) : j \in 1 .. AtOf(p) /\ j # AtOf(p)
    BY <1>3, <1>6
  <2> QED
    BY <1>4, <2>1 DEF SettledUpto, BodyOf
<1> QED
  BY <1>5, <1>6

\* The schema grows, and a table comes with its columns: what was settled stays settled.
Grown(s, z) == s \subseteq z /\ \A x \in ColumnsAddedLater : Table(x[1]) \in z \ s => x \in z

LEMMA StaysSettled ==
    ASSUME NEW s, NEW z, Grown(s, z), NEW b, WellFormed(b), Settled(s, b)
    PROVE  Settled(z, b)
BY DEF Grown, WellFormed, Settled, Due

LEMMA GoodGrows ==
    ASSUME NEW s, NEW z, Grown(s, z), NEW p, RunnerGood(s, p)
    PROVE  RunnerGood(z, p)
<1>1. CASE p.todo = {}
  BY <1>1 DEF RunnerGood
<1>2. CASE p.todo # {}
  <2>1. p \in RunnerStates /\ p.block \in 1 .. OverOf(p) /\ SettledUpto(s, CurrentOf(p), p.block - 1)
    BY <1>2 DEF RunnerGood
  <2>2. CurrentOf(p) \in AllScripts /\ OverOf(p) = Len(BodyOf(p)) + 1 /\ Len(BodyOf(p)) \in Nat
    BY <1>2, <2>1, CurrentIs
  <2>3. \A j \in 1 .. p.block - 1 : WellFormed(ScriptOf(CurrentOf(p))[j])
    BY <2>1, <2>2, ScriptsWell DEF BodyOf
  <2>4. SettledUpto(z, CurrentOf(p), p.block - 1)
    BY <2>1, <2>3, StaysSettled DEF SettledUpto
  <2>5. p.statement = 2 => Settled(z, HereOf(p))
    <3>1. SUFFICES ASSUME p.statement = 2 PROVE Settled(z, HereOf(p))
      OBVIOUS
    <3>2. AtOf(p) # OverOf(p) /\ Settled(s, HereOf(p))
      BY <1>2, <3>1 DEF RunnerGood
    <3> QED
      BY <1>2, <2>1, <3>2, HereIs, StaysSettled
  <2> QED
    BY <1>2, <2>4, <2>5 DEF RunnerGood
<1> QED
  BY <1>1, <1>2

LEMMA RecordedGrows ==
    ASSUME NEW s, NEW z, Grown(s, z), NEW c \in AllScripts, ScriptSettled(s, c)
    PROVE  ScriptSettled(z, c)
BY ScriptsWell, StaysSettled DEF ScriptSettled

\* What a statement does to the schema.
After(s, xs) == IF \E x \in xs : x[2] = "table" /\ x \in s THEN s ELSE s \cup xs

LEMMA StatementRuns ==
    ASSUME NEW s, NEW b, WellFormed(b), Concerns(b), NEW k \in 1 .. Len(b.statements), NEW z, z = After(s, b.statements[k])
    PROVE  /\ Grown(s, z) /\ z \subseteq s \cup Names
           /\ k = 1 => Settled(z, b)
<1> DEFINE t == b.found[1]
           xs == b.statements[k]
<1>0. \A l \in 1 .. 2 : \A n \in 1 .. l : n \in 1 .. 2 /\ (n = 1 \/ n = 2) /\ (n = 2 => l = 2)
  OBVIOUS
<1>1. k \in 1 .. 2 /\ (k = 1 \/ k = 2) /\ (k = 2 => Len(b.statements) = 2)
  BY <1>0 DEF WellFormed
<1>2. t \in Tables /\ b.found \in Names /\ (t \in Indexed => {Named(t), Derived(t)} \subseteq Names)
  <2>1. PICK u \in Tables : b.found = Table(u) \/ b.found \in Columns(u) \/ (b.found = Derived(u) /\ u \in Indexed)
                            \/ b.found = Named(u)
    BY OfInstanceIs DEF Concerns
  <2>2. u = t
    BY <2>1 DEF Table, Named, Derived, Columns
  <2>3. b.found = Named(t) => t \in Indexed
    BY DEF WellFormed
  <2> QED
    BY <2>1, <2>2, <2>3, NamesAre
<1>3. CASE k = 1 /\ BuildsTable(b)
  <2>1. xs = Whole(t) /\ b.found = Table(t)
    BY <1>3 DEF BuildsTable
  <2>2. Whole(t) \subseteq Names
    BY <1>2, NamesAre DEF Whole
  <2>3. Table(t) \in Whole(t) /\ \A x \in Whole(t) : x[2] = "table" => x = Table(t)
    BY ColumnsWell DEF Whole, Columns
  <2>4. z = IF Table(t) \in s THEN s ELSE s \cup Whole(t)
    BY <2>1, <2>3 DEF Table, After
  <2>5. \A x \in ColumnsAddedLater : Table(x[1]) \in Whole(t) => x \in Whole(t)
    BY ColumnsWell DEF Whole, Columns, Table
  <2>6. Settled(z, b)
    BY <2>1, <2>3, <2>4 DEF Settled, Due, Table
  <2> QED
    BY <2>2, <2>4, <2>5, <2>6 DEF Grown
<1>4. CASE k = 1 /\ AddsOne(b)
  <2>1. xs = {b.found} /\ b.found[2] # "table"
    BY <1>4 DEF AddsOne
  <2>2. z = s \cup {b.found}
    BY <2>1 DEF After
  <2>3. \A x \in ColumnsAddedLater : Table(x[1]) # b.found
    BY <2>1 DEF Table
  <2>4. Settled(z, b)
    BY <2>2 DEF Settled, Due
  <2> QED
    BY <1>2, <2>2, <2>3, <2>4 DEF Grown
<1>5. CASE k = 2
  <2>1. PICK index \in {Named(t), Derived(t)} : xs = {index} /\ t \in Indexed
    BY <1>1, <1>5 DEF WellFormed, AddsIndex
  <2>2. index[2] # "table" /\ \A x \in ColumnsAddedLater : Table(x[1]) # index
    BY DEF Named, Derived, Table
  <2>3. z = s \cup {index}
    BY <2>1, <2>2 DEF After
  <2>4. index \in Names
    BY <1>2, <2>1
  <2>5. Grown(s, z)
    BY <2>2, <2>3 DEF Grown
  <2>6. k # 1
    BY <1>5
  <2> QED
    BY <2>3, <2>4, <2>5, <2>6
<1> QED
  BY <1>1, <1>3, <1>4, <1>5 DEF WellFormed

\* The states of a process that goes on.
LEMMA NextStatement ==
    ASSUME NEW p \in RunnerStates, NEW k \in 0 .. 2, NEW q, q = [p EXCEPT !.statement = k]
    PROVE  /\ q \in RunnerStates /\ q.todo = p.todo /\ q.block = p.block /\ q.statement = k
           /\ CurrentOf(q) = CurrentOf(p) /\ BodyOf(q) = BodyOf(p) /\ OverOf(q) = OverOf(p)
           /\ AtOf(q) = AtOf(p) /\ HereOf(q) = HereOf(p)
<1>1. q \in RunnerStates /\ q.todo = p.todo /\ q.block = p.block /\ q.statement = k
  BY DEF RunnerStates
<1>2. CurrentOf(q) = CurrentOf(p)
  BY <1>1 DEF CurrentOf
<1>3. BodyOf(q) = BodyOf(p)
  BY <1>2 DEF BodyOf
<1>4. OverOf(q) = OverOf(p)
  BY <1>3 DEF OverOf
<1>5. AtOf(q) = AtOf(p)
  BY <1>1, <1>3, <1>4 DEF AtOf
<1>6. HereOf(q) = HereOf(p)
  BY <1>3, <1>5 DEF HereOf
<1> QED
  BY <1>1, <1>2, <1>3, <1>4, <1>5, <1>6

LEMMA NextBlock ==
    ASSUME NEW s, NEW p, RunnerGood(s, p), p.todo # {}, AtOf(p) # OverOf(p), Settled(s, HereOf(p)),
           NEW q, q = [todo |-> p.todo, block |-> AtOf(p) + 1, statement |-> 0]
    PROVE  RunnerGood(s, q)
<1>1. p \in RunnerStates /\ p.block \in 1 .. OverOf(p)
  BY DEF RunnerGood
<1>2. AtOf(p) \in Nat /\ AtOf(p) + 1 \in 1 .. OverOf(p)
  BY <1>1, HereIs
<1>3. q \in RunnerStates
  BY <1>1, <1>2 DEF RunnerStates
<1>4. CurrentOf(q) = CurrentOf(p) /\ OverOf(q) = OverOf(p)
  BY DEF CurrentOf, OverOf, BodyOf
<1>5. SettledUpto(s, CurrentOf(p), AtOf(p))
  BY UptoNext
<1>6. AtOf(p) + 1 - 1 = AtOf(p)
  BY <1>2
<1> QED
  BY <1>2, <1>3, <1>4, <1>5, <1>6 DEF RunnerGood

\* A process whose statement ran, or whose block catches its error, goes on.
LEMMA AdvancedGood ==
    ASSUME NEW s, NEW p, RunnerGood(s, p), p.statement # 0, Settled(s, HereOf(p)),
           NEW q, q = IF p.statement = Len(HereOf(p).statements)
                      THEN [todo |-> p.todo, block |-> AtOf(p) + 1, statement |-> 0]
                      ELSE [p EXCEPT !.statement = @ + 1]
    PROVE  RunnerGood(s, q)
<1>1. p \in RunnerStates /\ p.todo # {} /\ p.block \in 1 .. OverOf(p) /\ AtOf(p) # OverOf(p)
      /\ p.statement <= Len(HereOf(p).statements) /\ p.statement \in 1 .. 2
  BY DEF RunnerGood, RunnerStates
<1>2. Len(HereOf(p).statements) \in 1 .. 2
  BY <1>1, HereIs DEF WellFormed
<1>3. CASE p.statement = Len(HereOf(p).statements)
  <2>1. q = [todo |-> p.todo, block |-> AtOf(p) + 1, statement |-> 0]
    BY <1>3
  <2> QED
    BY <1>1, <2>1, NextBlock
<1>4. CASE p.statement # Len(HereOf(p).statements)
  <2>0. \A x, y \in 1 .. 2 : x <= y /\ x # y => x = 1 /\ y = 2 /\ x + 1 = 2
    OBVIOUS
  <2>1. p.statement = 1 /\ Len(HereOf(p).statements) = 2 /\ p.statement + 1 = 2
    BY <1>1, <1>2, <1>4, <2>0
  <2>2. q = [p EXCEPT !.statement = 2]
    BY <1>4, <2>1
  <2>3. q \in RunnerStates /\ q.todo = p.todo /\ q.block = p.block /\ q.statement = 2
        /\ CurrentOf(q) = CurrentOf(p) /\ OverOf(q) = OverOf(p) /\ AtOf(q) = AtOf(p) /\ HereOf(q) = HereOf(p)
    BY <1>1, <2>2, NextStatement
  <2>4. SettledUpto(s, CurrentOf(p), p.block - 1)
    BY <1>1 DEF RunnerGood
  <2>5. q.todo # {} /\ q.block \in 1 .. OverOf(q) /\ SettledUpto(s, CurrentOf(q), q.block - 1)
    BY <1>1, <2>3, <2>4
  <2>6. AtOf(q) # OverOf(q) /\ Settled(s, HereOf(q))
    BY <1>1, <2>3
  <2>7. q.statement <= Len(HereOf(q).statements)
    <3>1. q.statement = 2 /\ Len(HereOf(q).statements) = 2
      BY <2>1, <2>3
    <3>2. 2 <= 2
      OBVIOUS
    <3> QED
      BY ONLY <3>1, <3>2
  <2> QED
    BY <2>3, <2>5, <2>6, <2>7 DEF RunnerGood
<1> QED
  BY <1>3, <1>4

LEMMA RestingGood == \A s : RunnerGood(s, Resting) /\ Resting.todo = {} /\ Resting.statement = 0
BY DEF RunnerGood, Resting, RunnerStates

\* A process at the start of what it has to run.
LEMMA StartGood ==
    ASSUME NEW s, NEW todo \in SUBSET AllScripts, NEW q, q = [Resting EXCEPT !.todo = todo]
    PROVE  RunnerGood(s, q)
<1>1. q \in RunnerStates /\ q.todo = todo /\ q.block = 1 /\ q.statement = 0
  BY DEF Resting, RunnerStates
<1>2. CASE todo = {}
  BY <1>1, <1>2 DEF RunnerGood
<1>3. CASE todo # {}
  <2>1. OverOf(q) = Len(BodyOf(q)) + 1 /\ Len(BodyOf(q)) \in Nat
    BY <1>1, <1>3, CurrentIs
  <2>2. SettledUpto(s, CurrentOf(q), q.block - 1)
    BY <1>1 DEF SettledUpto
  <2>3. q.block \in 1 .. OverOf(q)
    BY <1>1, <2>1
  <2> QED
    BY <1>1, <2>2, <2>3 DEF RunnerGood
<1> QED
  BY <1>2, <1>3

\* The names of the process are those of its state.
LEMMA ByState ==
    \A r : /\ Current(r) = CurrentOf(runner[r]) /\ Body(r) = BodyOf(runner[r]) /\ Over(r) = OverOf(runner[r])
           /\ At(r) = AtOf(runner[r]) /\ Here(r) = HereOf(runner[r])
<1> TAKE r
<1>1. Current(r) = CurrentOf(runner[r])
  BY DEF Current, CurrentOf
<1>2. Body(r) = BodyOf(runner[r])
  BY <1>1 DEF Body, BodyOf, ScriptOf
<1>3. Over(r) = OverOf(runner[r])
  BY <1>2 DEF Over, OverOf
<1>4. At(r) = AtOf(runner[r])
  BY <1>2, <1>3 DEF At, AtOf
<1> QED
  BY <1>1, <1>2, <1>3, <1>4 DEF Here, HereOf

\* A step of one process.
LEMMA ProcessStep ==
    ASSUME MigrationInv, NEW r \in Runners, NEW q, Proceeds(r, q), RunnerGood(schema', q),
           Grown(schema, schema'), schema' \subseteq Names, recorded' = recorded
    PROVE  MigrationInv'
<1>1. runner' = [x \in Runners |-> IF x = r THEN q ELSE runner[x]]
  BY DEF Proceeds, MigrationInv
<1>2. \A x \in Runners : RunnerGood(schema', runner'[x])
  BY <1>1, GoodGrows DEF MigrationInv
<1>3. \A c \in recorded : ScriptSettled(schema', c)
  BY RecordedGrows DEF MigrationInv, AllScripts
<1> QED
  BY <1>1, <1>2, <1>3 DEF MigrationInv

LEMMA SchemaKept == UNCHANGED schema => Grown(schema, schema')
BY DEF Grown

\* What the first ten scripts say of the two tables that the later databases lack or name
\* otherwise.
NoOther(x) == x # Named("ThemeConstituents")
Earlier(x) == NoOther(x) /\ x[1] # "RuntimeAiResults"

LEMMA FoundIs ==
    /\ \A x : Add(x).found = x /\ AddTo(x).found = x /\ TryAdd(x).found = x
    /\ \A t, x : CreateTable(t).found = Table(t) /\ CreateIndexed(t, x).found = Table(t)
BY DEF Add, AddTo, TryAdd, CreateTable, CreateIndexed, Block

LEMMA EarlierScripts ==
    /\ \A c \in 1 .. 9 : \A j \in 1 .. Len(ScriptOf(c)) : Earlier(ScriptOf(c)[j].found)
    /\ \A j \in 1 .. Len(ScriptOf(10)) : NoOther(ScriptOf(10)[j].found)
<1> DEFINE Good(n) == \A i \in 1 .. Len(ScriptOf(n)) : Earlier(ScriptOf(n)[i].found)
<1>1. /\ ScriptOf(1) = <<>> /\ ScriptOf(2) = MultiUserIsolation /\ ScriptOf(3) = AuthHardening
      /\ ScriptOf(4) = NotificationsSessions /\ ScriptOf(5) = WebhookPositionNotes /\ ScriptOf(6) = MarketNewsUrl
      /\ ScriptOf(7) = AiThemes /\ ScriptOf(8) = GovernedBrokerExecution /\ ScriptOf(9) = ReconciliationSnapshots
      /\ ScriptOf(10) = BootstrapBaseSchema
  BY ScriptsAre DEF ScriptOf, Scripts
<1>2. Good(1)
  <2>1. Len(ScriptOf(1)) = 0
    BY <1>1
  <2> QED
    BY <2>1
<1>3. \A t \in Models : t # "RuntimeAiResults" => Earlier(Table(t)) /\ Earlier(Derived(t))
                      /\ (t # "ThemeConstituents" => Earlier(Named(t)))
  BY DEF Earlier, NoOther, Table, Named, Derived
<1>4. \A x \in ColumnsAddedLater : Earlier(x)
  BY DEF ColumnsAddedLater, Earlier, NoOther, Named
<1>5. Good(2)
  <2>1. MultiUserIsolation[1].found = <<"TrailingStops", "userId">> /\ MultiUserIsolation[2].found = Named("TrailingStops")
        /\ MultiUserIsolation[3].found = Table("AuditLogs") /\ Len(MultiUserIsolation) = 3
    BY FoundIs DEF MultiUserIsolation
  <2>2. Earlier(<<"TrailingStops", "userId">>) /\ Earlier(Named("TrailingStops")) /\ Earlier(Table("AuditLogs"))
    BY <1>3, <1>4, ModelsAre DEF ColumnsAddedLater
  <2> QED
    BY <1>1, <2>1, <2>2
<1>6. Good(3)
  <2>1. AuthHardening[1].found = <<"Users", "totpSecret">> /\ AuthHardening[2].found = Table("RevokedTokens")
        /\ AuthHardening[3].found = Named("RevokedTokens") /\ Len(AuthHardening) = 3
    BY FoundIs DEF AuthHardening
  <2>2. Earlier(<<"Users", "totpSecret">>) /\ Earlier(Table("RevokedTokens")) /\ Earlier(Named("RevokedTokens"))
    BY <1>3, <1>4, ModelsAre DEF ColumnsAddedLater
  <2> QED
    BY <1>1, <2>1, <2>2
<1>7. Good(4)
  <2>1. NotificationsSessions[1].found = Table("Sessions") /\ NotificationsSessions[2].found = Named("Sessions")
        /\ Len(NotificationsSessions) = 2
    BY FoundIs DEF NotificationsSessions
  <2>2. Earlier(Table("Sessions")) /\ Earlier(Named("Sessions"))
    BY <1>3, ModelsAre
  <2> QED
    BY <1>1, <2>1, <2>2
<1>8. Good(5)
  <2>1. WebhookPositionNotes[1].found = <<"Users", "webhookSecret">> /\ WebhookPositionNotes[2].found = Table("PositionNotes")
        /\ WebhookPositionNotes[3].found = Named("PositionNotes") /\ Len(WebhookPositionNotes) = 3
    BY FoundIs DEF WebhookPositionNotes
  <2>2. Earlier(<<"Users", "webhookSecret">>) /\ Earlier(Table("PositionNotes")) /\ Earlier(Named("PositionNotes"))
    BY <1>3, <1>4, ModelsAre DEF ColumnsAddedLater
  <2> QED
    BY <1>1, <2>1, <2>2
<1>9. Good(6) /\ Good(7) /\ Good(9)
  <2>1. MarketNewsUrl[1].found = <<"MarketNews", "url">> /\ AiThemes[1].found = Table("ThemeConstituents")
        /\ ReconciliationSnapshots[1].found = <<"ReconciliationRuns", "accountSnapshot">>
        /\ Len(MarketNewsUrl) = 1 /\ Len(AiThemes) = 1 /\ Len(ReconciliationSnapshots) = 1
    BY FoundIs DEF MarketNewsUrl, AiThemes, ReconciliationSnapshots
  <2>2. Earlier(<<"MarketNews", "url">>) /\ Earlier(Table("ThemeConstituents"))
        /\ Earlier(<<"ReconciliationRuns", "accountSnapshot">>)
    BY <1>3, <1>4, ModelsAre DEF ColumnsAddedLater
  <2> QED
    BY <1>1, <2>1, <2>2
<1>10. Good(8)
  <2> DEFINE g == GovernedBrokerExecution
  <2>1. g[1].found = <<"Users", "role">> /\ g[2].found = Table("BrokerOrders") /\ g[3].found = Named("BrokerOrders")
        /\ g[4].found = Table("ReconciliationRuns") /\ g[5].found = Named("ReconciliationRuns") /\ Len(g) = 5
    BY FoundIs DEF GovernedBrokerExecution
  <2>2. Earlier(<<"Users", "role">>) /\ Earlier(Table("BrokerOrders")) /\ Earlier(Named("BrokerOrders"))
        /\ Earlier(Table("ReconciliationRuns")) /\ Earlier(Named("ReconciliationRuns"))
    BY <1>3, <1>4, ModelsAre DEF ColumnsAddedLater
  <2> QED
    BY <1>1, <2>1, <2>2
<1>11. \A j \in 1 .. Len(ScriptOf(10)) : NoOther(ScriptOf(10)[j].found)
  <2>1. Len(ScriptOf(10)) = 22 /\ ScriptOf(10) = BootstrapBaseSchema
    BY <1>1, BootstrapIs
  <2>2. \A t : NoOther(CreateTable(t).found) /\ NoOther(Add(Derived(t)).found)
    BY FoundIs DEF NoOther, Named, Table, Derived
  <2>3. \A j \in 1 .. 22 : NoOther(BootstrapBaseSchema[j].found)
    <3> TAKE j \in 1 .. 22
    <3>1. PICK i \in 1 .. 11 : j = 2 * i - 1 \/ j = 2 * i
      BY BootstrapIs
    <3>2. BootstrapBaseSchema[j] = CreateTable(ModelOrder[i]) \/ BootstrapBaseSchema[j] = Add(Derived(ModelOrder[i]))
      BY <3>1, BootstrapIs
    <3> QED
      BY <2>2, <3>2
  <2> QED
    BY ONLY <2>1, <2>3
<1> HIDE DEF Good
<1>12. \A c \in 1 .. 9 : Good(c)
  BY <1>2, <1>5, <1>6, <1>7, <1>8, <1>9, <1>10
<1> QED
  BY <1>11, <1>12 DEF Good

LEMMA MigrationInit_Inv == MigrationInit => MigrationInv
<1> SUFFICES ASSUME MigrationInit PROVE MigrationInv
  OBVIOUS
<1>1. runner = [r \in Runners |-> runner[r]] /\ \A r \in Runners : RunnerGood(schema, runner[r])
  BY RestingGood DEF MigrationInit
<1>2. CASE schema \in {{}, FirstVersion} /\ recorded = {}
  <2>1. FirstVersion \subseteq Names
    BY NamesAre DEF FirstVersion
  <2> QED
    BY <1>1, <1>2, <2>1 DEF MigrationInv
<1>3. CASE schema = BeforeResults /\ recorded = 1 .. 10
  <2>1. schema \subseteq Names
    BY <1>3 DEF BeforeResults, Names
  <2>2. ASSUME NEW c \in recorded, NEW j \in 1 .. Len(ScriptOf(c)), Concerns(ScriptOf(c)[j])
        PROVE  Settled(schema, ScriptOf(c)[j]) \/ (c = 10 /\ ScriptOf(c)[j].found[1] = "RuntimeAiResults")
    <3> DEFINE b == ScriptOf(c)[j]
    <3>0. c \in 1 .. 10 /\ c \in AllScripts
      BY <1>3 DEF AllScripts
    <3>1. WellFormed(b) /\ b.found \in OfInstance
      BY <2>2, <3>0, ScriptsWell DEF Concerns
    <3>2. NoOther(b.found) /\ (b.found[1] = "RuntimeAiResults" => c = 10)
      <4>1. c \in 1 .. 9 \/ c = 10
        BY <3>0
      <4> QED
        BY <4>1, EarlierScripts DEF Earlier
    <3>3. PICK u \in Tables : b.found = Table(u) \/ b.found \in Columns(u) \/ (b.found = Derived(u) /\ u \in Indexed)
                              \/ b.found = Named(u)
      BY <3>1, OfInstanceIs
    <3>4. b.found[1] = u
      BY <3>3 DEF Table, Named, Derived, Columns
    <3>5. CASE u = "RuntimeAiResults"
      BY <3>2, <3>4, <3>5
    <3>6. CASE u # "RuntimeAiResults"
      <4>1. b.found \in Declared \cup {Named(t) : t \in (Tables \cap Indexed) \ {"ThemeConstituents"}}
        <5>1. b.found = Named(u) => u \in Indexed /\ u # "ThemeConstituents"
          BY <3>1, <3>2, <3>4 DEF WellFormed, NoOther
        <5> QED
          BY <3>3, <5>1, DeclaredIs
      <4>2. b.found \in schema
        BY <1>3, <3>4, <3>6, <4>1 DEF BeforeResults
      <4> QED
        BY <4>2 DEF Settled, Due
    <3> QED
      BY <3>5, <3>6
  <2> QED
    BY <1>1, <1>3, <2>1, <2>2 DEF MigrationInv, ScriptSettled
<1> QED
  BY <1>2, <1>3 DEF MigrationInit

LEMMA Starts_Inv == ASSUME MigrationInv, NEW r \in Runners, Migrate(r) \/ Seed(r) \/ Dies(r) PROVE MigrationInv'
<1>1. UNCHANGED <<schema, recorded>> /\ schema' \subseteq Names /\ Grown(schema, schema')
  BY SchemaKept DEF Migrate, Seed, Dies, MigrationInv
<1>2. CASE Migrate(r)
  <2>1. DOMAIN Scripts \ recorded \in SUBSET AllScripts
    BY ScriptsAre DEF AllScripts
  <2> QED
    BY <1>1, <1>2, <2>1, StartGood, ProcessStep DEF Migrate
<1>3. CASE Seed(r)
  <2>1. {SeedSync} \in SUBSET AllScripts
    BY ScriptsAre DEF AllScripts
  <2> QED
    BY <1>1, <1>3, <2>1, StartGood, ProcessStep DEF Seed
<1>4. CASE Dies(r)
  BY <1>1, <1>4, RestingGood, ProcessStep DEF Dies
<1> QED
  BY <1>2, <1>3, <1>4

LEMMA Look_Inv == ASSUME MigrationInv, NEW r \in Runners, Look(r) PROVE MigrationInv'
<1> DEFINE p == runner[r]
           b == HereOf(p)
<1>1. UNCHANGED <<schema, recorded>> /\ schema' \subseteq Names /\ Grown(schema, schema')
  BY SchemaKept DEF Look, MigrationInv
<1>2. p.todo # {} /\ p.statement = 0 /\ AtOf(p) # OverOf(p) /\ RunnerGood(schema, p)
  BY ByState DEF Look, Between, Executing, MigrationInv
<1>3. p \in RunnerStates /\ p.block \in 1 .. OverOf(p)
  BY <1>2 DEF RunnerGood
<1>4. WellFormed(b) /\ Concerns(b)
  BY <1>2, <1>3, HereIs
<1>5. CASE Finds(r)
  <2> DEFINE q == [p EXCEPT !.statement = 1]
  <2>1. Proceeds(r, q) /\ q = [p EXCEPT !.statement = 1] /\ 1 \in 0 .. 2
    BY <1>5 DEF Look
  <2> HIDE DEF q
  <2>2. q \in RunnerStates /\ q.todo = p.todo /\ q.block = p.block /\ q.statement = 1
        /\ CurrentOf(q) = CurrentOf(p) /\ OverOf(q) = OverOf(p) /\ AtOf(q) = AtOf(p) /\ HereOf(q) = HereOf(p)
    BY <1>3, <2>1, NextStatement
  <2>3. 1 <= Len(b.statements)
    <3>1. \A l \in 1 .. 2 : 1 <= l
      OBVIOUS
    <3>2. Len(b.statements) \in 1 .. 2
      BY <1>4 DEF WellFormed
    <3> QED
      BY ONLY <3>1, <3>2
  <2>4. RunnerGood(schema, q)
    BY <1>2, <1>3, <2>2, <2>3 DEF RunnerGood
  <2> QED
    BY <1>1, <2>1, <2>4, ProcessStep
<1>6. CASE ~Finds(r)
  <2> DEFINE q == [todo |-> p.todo, block |-> AtOf(p) + 1, statement |-> 0]
  <2>1. Proceeds(r, [p EXCEPT !.block = AtOf(p) + 1])
    BY <1>6, ByState DEF Look
  <2>2. [p EXCEPT !.block = AtOf(p) + 1] = q
    BY <1>2, <1>3 DEF RunnerStates
  <2>3. b.found \in schema \/ ~(b.asks \subseteq schema)
    BY <1>6, ByState DEF Finds
  <2>4. Settled(schema, b)
    <3>1. CASE BuildsTable(b)
      BY <2>3, <3>1 DEF Settled, Due, BuildsTable, Table
    <3>2. CASE AddsOne(b)
      <4>1. b.found \in ColumnsAddedLater => b.found[2] \notin {"table", "named", "derived"}
        BY ColumnsWell
      <4> QED
        BY <2>3, <3>2, <4>1 DEF Settled, Due, AddsOne
    <3> QED
      BY <1>4, <3>1, <3>2 DEF WellFormed
  <2>5. RunnerGood(schema, q)
    BY <1>2, <2>4, NextBlock
  <2> HIDE DEF q
  <2> QED
    BY <1>1, <2>1, <2>2, <2>5, ProcessStep
<1> QED
  BY <1>5, <1>6

LEMMA Execute_Inv == ASSUME MigrationInv, NEW r \in Runners, Execute(r) \/ Error(r) PROVE MigrationInv'
<1> DEFINE p == runner[r]
           b == HereOf(p)
           k == p.statement
           q == IF p.statement = Len(HereOf(p).statements)
                THEN [todo |-> p.todo, block |-> AtOf(p) + 1, statement |-> 0]
                ELSE [p EXCEPT !.statement = @ + 1]
<1>1. k # 0 /\ RunnerGood(schema, p) /\ schema \subseteq Names /\ recorded' = recorded
  BY DEF Execute, Error, Executing, MigrationInv
<1>2. p \in RunnerStates /\ p.todo # {} /\ p.block \in 1 .. OverOf(p) /\ AtOf(p) # OverOf(p)
      /\ k \in 1 .. Len(b.statements) /\ (k = 2 => Settled(schema, b)) /\ (k = 1 \/ k = 2)
  <2>1. p \in RunnerStates /\ p.todo # {}
    BY <1>1 DEF RunnerGood
  <2>2. p.block \in 1 .. OverOf(p) /\ AtOf(p) # OverOf(p) /\ k <= Len(b.statements) /\ (k = 2 => Settled(schema, b))
    BY <1>1, <2>1 DEF RunnerGood
  <2>3. k = 1 \/ k = 2
    BY <1>1, <2>1 DEF RunnerStates
  <2>4. Len(b.statements) \in 1 .. 2
    BY <2>1, <2>2, HereIs DEF WellFormed
  <2> QED
    BY <2>1, <2>2, <2>3, <2>4
<1>3. WellFormed(b) /\ Concerns(b)
  BY <1>2, HereIs
<1>4. Advanced(r) = q
  BY ByState DEF Advanced
<1>5. Statement(r) = b.statements[k]
  BY ByState DEF Statement
<1> HIDE DEF q, b, k
<1>6. CASE Execute(r)
  <2>1. Proceeds(r, q) /\ schema' = After(schema, b.statements[k])
    BY <1>4, <1>5, <1>6 DEF Execute, After
  <2>2. Grown(schema, schema') /\ schema' \subseteq schema \cup Names /\ (k = 1 => Settled(schema', b))
    <3>1. k \in 1 .. Len(b.statements) /\ WellFormed(b) /\ Concerns(b)
      BY <1>2, <1>3
    <3> DEFINE z == After(schema, b.statements[k])
    <3>2. Grown(schema, z) /\ z \subseteq schema \cup Names /\ (k = 1 => Settled(z, b))
      BY ONLY <3>1, StatementRuns
    <3> QED
      BY ONLY <2>1, <3>2
  <2>3. Settled(schema', b)
    BY <1>2, <1>3, <2>2, StaysSettled
  <2>4. RunnerGood(schema', p)
    BY <1>1, <2>2, GoodGrows
  <2>5. RunnerGood(schema', q)
    BY <1>1, <2>3, <2>4, AdvancedGood DEF q, b, k
  <2> QED
    BY <1>1, <2>1, <2>2, <2>5, ProcessStep
<1>7. CASE Error(r)
  <2>1. UNCHANGED schema /\ Proceeds(r, IF b.catches THEN q ELSE Resting)
    BY <1>4, <1>7, ByState DEF Error, b
  <2>2. CASE b.catches
    <3>1. RunnerGood(schema, q)
      <4>1. Settled(schema, b)
        BY <2>2 DEF Settled
      <4> QED
        BY <1>1, <4>1, AdvancedGood DEF q, b, k
    <3> QED
      BY <1>1, <2>1, <2>2, <3>1, SchemaKept, ProcessStep
  <2>3. CASE ~b.catches
    BY <1>1, <2>1, <2>3, RestingGood, SchemaKept, ProcessStep
  <2> QED
    BY <2>2, <2>3
<1> QED
  BY <1>6, <1>7

LEMMA Record_Inv == ASSUME MigrationInv, NEW r \in Runners, Record(r) PROVE MigrationInv'
<1> DEFINE p == runner[r]
           c == CurrentOf(p)
           q == IF c \in recorded THEN Resting ELSE [Resting EXCEPT !.todo = p.todo \ {c}]
<1>1. /\ p.todo # {} /\ AtOf(p) = OverOf(p) /\ RunnerGood(schema, p)
      /\ recorded' = recorded \cup ({c} \ {SeedSync}) /\ Proceeds(r, q) /\ UNCHANGED schema
  BY ByState DEF Record, Between, MigrationInv
<1>2. p \in RunnerStates /\ c \in AllScripts
  BY <1>1, CurrentIs DEF RunnerGood
<1>3. RunnerGood(schema, q)
  <2>1. p.todo \ {c} \in SUBSET AllScripts
    BY <1>2 DEF RunnerStates
  <2> QED
    BY <2>1, StartGood, RestingGood
<1>4. SettledUpto(schema, c, Len(ScriptOf(c)))
  BY <1>1, UptoNext DEF BodyOf
<1>5. ScriptSettled(schema, c)
  BY <1>4 DEF SettledUpto, ScriptSettled
<1> HIDE DEF q, c
<1>6. runner' = [x \in Runners |-> IF x = r THEN q ELSE runner[x]]
  BY <1>1 DEF Proceeds, MigrationInv
<1>7. \A x \in Runners : RunnerGood(schema', runner'[x])
  BY <1>1, <1>3, <1>6 DEF MigrationInv
<1>8. recorded' \subseteq 1 .. 11
  BY <1>1, <1>2, ScriptsAre DEF MigrationInv, AllScripts
<1>9. \A d \in recorded' : ScriptSettled(schema', d)
  BY <1>1, <1>5 DEF MigrationInv
<1> QED
  BY <1>1, <1>6, <1>7, <1>8, <1>9 DEF MigrationInv

\* The inductive invariant of the migrations: a script that is recorded, and a block that a
\* run has passed, left in the database what they are for.
THEOREM MigrationsInductive == MigrationSpec => []MigrationInv
<1>1. MigrationInv /\ [MigrationNext]_migrationVars => MigrationInv'
  <2> SUFFICES ASSUME MigrationInv, [MigrationNext]_migrationVars PROVE MigrationInv'
    OBVIOUS
  <2>1. CASE MigrationNext
    BY <2>1, Starts_Inv, Look_Inv, Execute_Inv, Record_Inv DEF MigrationNext
  <2>2. CASE UNCHANGED migrationVars
    BY <2>2 DEF migrationVars, MigrationInv
  <2> QED
    BY <2>1, <2>2
<1> QED
  BY <1>1, MigrationInit_Inv, PTL DEF MigrationSpec

\* What the scripts leave once all are recorded.
LEMMA MigrationInvHolds == MigrationInv => MigrationTypeOK /\ SchemaFollows
<1> SUFFICES ASSUME MigrationInv PROVE MigrationTypeOK /\ SchemaFollows
  OBVIOUS
<1>1. MigrationTypeOK
  BY ScriptsAre DEF MigrationInv, MigrationTypeOK, Names, RunnerGood, RunnerStates, AllScripts
<1>2. OrdersStayUnique
  <2> SUFFICES ASSUME 8 \in recorded PROVE Named("BrokerOrders") \in schema
    BY DEF OrdersStayUnique
  <2>1. ScriptOf(8) = GovernedBrokerExecution /\ Len(ScriptOf(8)) = 5 /\ ScriptOf(8)[3] = Add(Named("BrokerOrders"))
    BY ScriptsAre DEF ScriptOf, Scripts, GovernedBrokerExecution
  <2>2. Concerns(ScriptOf(8)[3])
    BY <2>1, AddsWell, MigrationAssumption DEF Concerns, OfInstance
  <2>3. Settled(schema, Add(Named("BrokerOrders")))
    BY <2>1, <2>2 DEF MigrationInv, ScriptSettled
  <2> QED
    BY <2>3, AddsWell DEF Settled, Due, Named
<1>3. ASSUME DOMAIN Scripts \subseteq recorded, NEW x \in Declared, x # Derived("RuntimeAiResults") PROVE x \in schema
  <2>0. recorded = 1 .. 11
    BY <1>3, ScriptsAre DEF MigrationInv
  <2>1. \A t \in Tables \ {"RuntimeAiResults"} : Table(t) \in schema /\ (t \in Indexed => Derived(t) \in schema)
    <3> TAKE t \in Tables \ {"RuntimeAiResults"}
    <3>1. PICK i \in 1 .. 11 : ModelOrder[i] = t
      BY MigrationAssumption, ModelsAre
    <3>2. ScriptOf(10) = BootstrapBaseSchema /\ 10 \in recorded /\ 2 * i - 1 \in 1 .. 22 /\ 2 * i \in 1 .. 22
      BY <2>0, ScriptsAre DEF ScriptOf, Scripts
    <3>3. ScriptOf(10)[2 * i - 1] = CreateTable(t) /\ ScriptOf(10)[2 * i] = Add(Derived(t)) /\ Len(ScriptOf(10)) = 22
      BY <3>1, <3>2, BootstrapIs
    <3>4. Concerns(CreateTable(t)) /\ (t \in Indexed => Concerns(Add(Derived(t))))
      <4>1. CreateTable(t).found = Table(t) /\ Add(Derived(t)).found = Derived(t)
        BY FoundIs
      <4>2. Table(t) \in OfInstance /\ (t \in Indexed => Derived(t) \in OfInstance)
        BY OfInstanceIs
      <4> QED
        BY <4>1, <4>2 DEF Concerns
    <3>5. Table(t)[1] = t /\ Derived(t)[1] = t /\ Table(t)[2] = "table" /\ Derived(t)[2] = "derived"
      BY DEF Table, Derived
    <3>6. ScriptSettled(schema, 10)
      BY <3>2 DEF MigrationInv
    <3>7. CreateTable(t).found[1] = t /\ Add(Derived(t)).found[1] = t /\ t # "RuntimeAiResults"
      BY <3>5, CreatesWell, AddsWell
    <3>8. Settled(schema, CreateTable(t)) /\ (t \in Indexed => Settled(schema, Add(Derived(t))))
      BY <3>2, <3>3, <3>4, <3>6, <3>7 DEF ScriptSettled
    <3>9. Table(t) # Named("TrailingStops") /\ Derived(t) # Named("TrailingStops")
      BY DEF Table, Named, Derived
    <3> QED
      BY <3>5, <3>8, <3>9, CreatesWell, AddsWell DEF Settled, Due
  <2>2. Table("RuntimeAiResults") \in schema
    <3> DEFINE t == "RuntimeAiResults"
    <3>1. ScriptOf(11) = RuntimeResults /\ Len(ScriptOf(11)) = 1 /\ ScriptOf(11)[1] = CreateIndexed(t, Derived(t))
      BY ScriptsAre DEF ScriptOf, Scripts, RuntimeResults
    <3>2. Concerns(CreateIndexed(t, Derived(t)))
      <4>1. CreateIndexed(t, Derived(t)).found = Table(t)
        BY FoundIs
      <4>2. Table(t) \in OfInstance
        BY OfInstanceIs, MigrationAssumption
      <4> QED
        BY <4>1, <4>2 DEF Concerns
    <3>3. Settled(schema, CreateIndexed(t, Derived(t)))
      BY <2>0, <3>1, <3>2 DEF MigrationInv, ScriptSettled
    <3>4. CreateIndexed(t, Derived(t)).found = Table(t) /\ ~CreateIndexed(t, Derived(t)).catches
      BY CreatesWell
    <3>5. Table(t)[2] = "table" /\ Table(t) # Named("TrailingStops")
      BY DEF Table, Named
    <3> QED
      BY <3>3, <3>4, <3>5 DEF Settled, Due
  <2>3. \A t \in Tables : Table(t) \in schema
    BY <2>1, <2>2
  <2>4. ASSUME NEW y \in ColumnsAddedLater, y[1] \in Tables PROVE y \in schema
    <3>1. PICK c \in 1 .. 9 : \E j \in 1 .. Len(ScriptOf(c)) : ScriptOf(c)[j] \in {AddTo(y), Add(y)}
      <4>1. /\ ScriptOf(2) = MultiUserIsolation /\ ScriptOf(3) = AuthHardening
            /\ ScriptOf(5) = WebhookPositionNotes /\ ScriptOf(6) = MarketNewsUrl
            /\ ScriptOf(8) = GovernedBrokerExecution /\ ScriptOf(9) = ReconciliationSnapshots
        BY ScriptsAre DEF ScriptOf, Scripts
      <4>2. /\ Len(MultiUserIsolation) = 3 /\ Len(AuthHardening) = 3 /\ Len(WebhookPositionNotes) = 3
            /\ Len(MarketNewsUrl) = 1 /\ Len(GovernedBrokerExecution) = 5 /\ Len(ReconciliationSnapshots) = 1
        BY DEF MultiUserIsolation, AuthHardening, WebhookPositionNotes, MarketNewsUrl, GovernedBrokerExecution,
               ReconciliationSnapshots
      <4>3. /\ MultiUserIsolation[1] = AddTo(<<"TrailingStops", "userId">>) /\ AuthHardening[1] = AddTo(<<"Users", "totpSecret">>)
            /\ WebhookPositionNotes[1] = AddTo(<<"Users", "webhookSecret">>) /\ MarketNewsUrl[1] = AddTo(<<"MarketNews", "url">>)
            /\ GovernedBrokerExecution[1] = AddTo(<<"Users", "role">>)
            /\ ReconciliationSnapshots[1] = Add(<<"ReconciliationRuns", "accountSnapshot">>)
        BY DEF MultiUserIsolation, AuthHardening, WebhookPositionNotes, MarketNewsUrl, GovernedBrokerExecution,
               ReconciliationSnapshots
      <4> DEFINE Adds(c) == 1 \in 1 .. Len(ScriptOf(c)) /\ ScriptOf(c)[1] \in {AddTo(y), Add(y)}
      <4>4. y = <<"TrailingStops", "userId">> => Adds(2)
        BY <4>1, <4>2, <4>3
      <4>5. y = <<"Users", "totpSecret">> => Adds(3)
        BY <4>1, <4>2, <4>3
      <4>6. y = <<"Users", "webhookSecret">> => Adds(5)
        BY <4>1, <4>2, <4>3
      <4>7. y = <<"MarketNews", "url">> => Adds(6)
        BY <4>1, <4>2, <4>3
      <4>8. y = <<"Users", "role">> => Adds(8)
        BY <4>1, <4>2, <4>3
      <4>9. y = <<"ReconciliationRuns", "accountSnapshot">> => Adds(9)
        BY <4>1, <4>2, <4>3
      <4> HIDE DEF Adds
      <4>10. \E c \in 1 .. 9 : Adds(c)
        BY <4>4, <4>5, <4>6, <4>7, <4>8, <4>9 DEF ColumnsAddedLater
      <4> QED
        BY <4>10 DEF Adds
    <3>2. PICK j \in 1 .. Len(ScriptOf(c)) : ScriptOf(c)[j] \in {AddTo(y), Add(y)}
      BY <3>1
    <3> DEFINE b == ScriptOf(c)[j]
    <3>3. b.found = y /\ ~b.catches
      BY <3>2, ColumnsWell
    <3>4. Concerns(b)
      <4>1. y \in Columns(y[1])
        BY DEF Columns
      <4>2. y \in OfInstance
        BY <2>4, <4>1, OfInstanceIs
      <4> QED
        BY <3>3, <4>2 DEF Concerns
    <3>5. Settled(schema, b)
      BY <2>0, <3>4 DEF MigrationInv, ScriptSettled
    <3>6. y[2] \notin {"table", "named", "derived"} /\ y # Named("TrailingStops")
      BY ColumnsWell DEF Named
    <3>7. Due(schema, y)
      BY <3>3, <3>5, <3>6 DEF Settled
    <3> QED
      BY <2>3, <2>4, <3>6, <3>7 DEF Due
  <2>5. PICK t \in Tables : x = Table(t) \/ x \in Columns(t) \/ (x = Derived(t) /\ t \in Indexed)
    BY <1>3, DeclaredIs
  <2> QED
    BY <1>3, <2>1, <2>3, <2>4, <2>5 DEF Columns
<1>4. MigratedIsWhole
  BY <1>3 DEF MigratedIsWhole
<1> QED
  BY <1>1, <1>2, <1>4 DEF SchemaFollows

\* Once the scripts are recorded the schema has all that the models declare, and the index
\* that makes an order unique stands from script 8 on (umzug.js and the scripts of server/migrations).
THEOREM SchemaIsWhole == MigrationSpec => []SchemaFollows
<1>1. MigrationInv => SchemaFollows
  BY MigrationInvHolds
<1> QED
  BY <1>1, MigrationsInductive, PTL

\* The tables that no lock protects stay in agreement (crud.js, themes.js, docsCrawler.js,
\* docsImporter.js, newsFetcher.js, producerConsumer.js and the migrations).
THEOREM TablesStayInAgreement ==
    RowsSpec /\ DeskSpec /\ DocsSpec /\ FeedSpec /\ RelaySpec /\ MigrationSpec => []TablesAgree
<1>1. RowsStayOwned /\ NoStrays /\ HashTellsText /\ OneRowPerEntry /\ NothingPassedOver /\ SchemaFollows
      => TablesAgree
  BY DEF TablesAgree
<1> QED
  BY <1>1, RowsOwned, ThemesLeaveNothing, HashesTell, EntriesHaveOneRow, SignalsAreDelivered, SchemaIsWhole, PTL
(***************************************************************************)
(* Types                                                                   *)
(* Each service keeps its own, and none writes what another one keeps.     *)
(***************************************************************************)

LEMMA ValidationTypes == ValidationInv /\ ValidationBounds => ValidationTypeOK
BY DEF ValidationInv, ValidationBounds, ValidationTypeOK

\* No service leaves the types of its rows, copies and phases, whatever the others do: the
\* type invariant of the run of the services, from the inductive invariant of each.
THEOREM ServicesKeepTypes ==
    /\ CacheSpec /\ AlertSpec /\ HookSpec /\ TgSpec /\ RateSpec /\ SessSpec /\ CredSpec
    /\ ValidationSpec /\ RowsSpec /\ CodesSpec /\ DeskSpec /\ DocsSpec /\ BudgetSpec
    /\ QuotesSpec /\ FeedSpec /\ RelaySpec /\ MigrationSpec
    => []TypeOK
<1>1. /\ CacheInv => CacheTypeOK
      /\ HookInv => HookTypeOK
      /\ TgInv => TgTypeOK
      /\ SessInv => SessTypeOK
      /\ CredInv => CredTypeOK
  BY DEF CacheInv, HookInv, TgInv, SessInv, CredInv
<1>2. /\ RowInv => RowsTypeOK
      /\ CodesInv => CodesTypeOK
      /\ DeskInv => DeskTypeOK
      /\ DocsInv => DocsTypeOK
  BY DEF RowInv, CodesInv, DeskInv, DocsInv
<1>3. /\ AlertInv => AlertTypeOK
      /\ RateInv => RateTypeOK
      /\ BudgetInv => BudgetTypeOK
  BY RateInvHolds, BudgetInvHolds DEF AlertInv, AlertTypes
<1>4. /\ QuotesInv => QuotesTypeOK
      /\ FeedInv => FeedTypeOK
      /\ RelayInv => RelayTypeOK
      /\ MigrationInv => MigrationTypeOK
  BY QuotesInvHolds, FeedInvHolds, RelayInvHolds, MigrationInvHolds
<1>5. /\ CacheTypeOK /\ AlertTypeOK /\ HookTypeOK /\ TgTypeOK /\ RateTypeOK /\ SessTypeOK
      /\ CredTypeOK /\ ValidationTypeOK /\ RowsTypeOK /\ CodesTypeOK /\ DeskTypeOK
      /\ DocsTypeOK /\ BudgetTypeOK /\ QuotesTypeOK /\ FeedTypeOK /\ RelayTypeOK
      /\ MigrationTypeOK
      => TypeOK
  BY DEF TypeOK
<1>6. AlertSpec /\ HookSpec /\ TgSpec /\ ValidationSpec
      => [](AlertTypeOK /\ HookTypeOK /\ TgTypeOK /\ ValidationTypeOK)
  BY <1>1, <1>3, AlertInductive, HookInductive, TgInductive, ValidationInductive,
     ValidationBounded, ValidationTypes, PTL
<1>7. RateSpec /\ SessSpec /\ CredSpec /\ CodesSpec /\ BudgetSpec
      => [](RateTypeOK /\ SessTypeOK /\ CredTypeOK /\ CodesTypeOK /\ BudgetTypeOK)
  BY <1>1, <1>2, <1>3, RateInductive, SessionsInductive, CredentialsInductive, CodesInductive,
     BudgetInductive, PTL
<1>8. CacheSpec /\ QuotesSpec /\ FeedSpec /\ RelaySpec /\ MigrationSpec
      => [](CacheTypeOK /\ QuotesTypeOK /\ FeedTypeOK /\ RelayTypeOK /\ MigrationTypeOK)
  BY <1>1, <1>4, CacheInductive, QuotesInductive, FeedInductive, RelayInductive,
     MigrationsInductive, PTL
<1>9. RowsSpec /\ DeskSpec /\ DocsSpec => [](RowsTypeOK /\ DeskTypeOK /\ DocsTypeOK)
  BY <1>2, RowsInductive, DeskInductive, DocsInductive, PTL
<1> QED
  BY <1>5, <1>6, <1>7, <1>8, <1>9, PTL

\* What moves one of the services is a step of it, and no step of the others: a behaviour of
\* the run is one of each specification.
THEOREM RunIsOfTheServices ==
    MCInit /\ [][MCNext]_<<focus, cacheVars, alertVars, hookVars, tgVars, rateVars, sessVars, credVars, validationVars,
                     rowsVars, codesVars, deskVars, docsVars, budgetVars, quoteVars, feedVars, relayVars, migrationVars>>
    => /\ CacheSpec /\ AlertSpec /\ HookSpec /\ TgSpec /\ RateSpec /\ SessSpec /\ CredSpec
       /\ ValidationSpec /\ RowsSpec /\ CodesSpec /\ DeskSpec /\ DocsSpec /\ BudgetSpec
       /\ QuotesSpec /\ FeedSpec /\ RelaySpec /\ MigrationSpec
<1> DEFINE all == <<focus, cacheVars, alertVars, hookVars, tgVars, rateVars, sessVars, credVars, validationVars,
                     rowsVars, codesVars, deskVars, docsVars, budgetVars, quoteVars, feedVars, relayVars, migrationVars>>
<1>1. MCInit => CacheInit /\ AlertInit /\ HookInit /\ TgInit /\ RateInit /\ SessInit /\ CredInit /\ ValidationInit /\ RowsInit
        /\ CodesInit /\ DeskInit /\ DocsInit /\ BudgetInit /\ QuotesInit /\ FeedInit /\ RelayInit /\ MigrationInit
  BY DEF MCInit
<1>2. [MCNext]_all => [CacheNext]_cacheVars
  BY DEF MCNext
<1>3. [MCNext]_all => [AlertNext]_alertVars
  BY DEF MCNext
<1>4. [MCNext]_all => [HookNext]_hookVars
  BY DEF MCNext
<1>5. [MCNext]_all => [TgNext]_tgVars
  BY DEF MCNext
<1>6. [MCNext]_all => [RateNext]_rateVars
  BY DEF MCNext
<1>7. [MCNext]_all => [SessNext]_sessVars
  BY DEF MCNext
<1>8. [MCNext]_all => [CredNext]_credVars
  BY DEF MCNext
<1>9. [MCNext]_all => [ValidationNext]_validationVars
  BY DEF MCNext
<1>10. [MCNext]_all => [RowsNext]_rowsVars
  BY DEF MCNext
<1>11. [MCNext]_all => [CodesNext]_codesVars
  BY DEF MCNext
<1>12. [MCNext]_all => [DeskNext]_deskVars
  BY DEF MCNext
<1>13. [MCNext]_all => [DocsNext]_docsVars
  BY DEF MCNext
<1>14. [MCNext]_all => [BudgetNext]_budgetVars
  BY DEF MCNext
<1>15. [MCNext]_all => [QuotesNext]_quoteVars
  BY DEF MCNext
<1>16. [MCNext]_all => [FeedNext]_feedVars
  BY DEF MCNext
<1>17. [MCNext]_all => [RelayNext]_relayVars
  BY DEF MCNext
<1>18. [MCNext]_all => [MigrationNext]_migrationVars
  BY DEF MCNext
<1> QED
  BY <1>1, <1>2, <1>3, <1>4, <1>5, <1>6, <1>7, <1>8, <1>9, <1>10, <1>11, <1>12, <1>13, <1>14, <1>15, <1>16, <1>17, <1>18, PTL
     DEF CacheSpec, AlertSpec, HookSpec, TgSpec, RateSpec, SessSpec, CredSpec, ValidationSpec,
         RowsSpec, CodesSpec, DeskSpec, DocsSpec, BudgetSpec, QuotesSpec, FeedSpec, RelaySpec, MigrationSpec
===============================================================================
