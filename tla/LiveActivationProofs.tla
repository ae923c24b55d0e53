------------------------ MODULE LiveActivationProofs ------------------------
(***************************************************************************)
(* Proofs about LiveActivation, for any staff, any roles and any number of *)
(* requests, approvals and live orders under way.                          *)
(***************************************************************************)
EXTENDS LiveActivation, TLAPS

\* By s, the signatures there are, p has written the named approval of a, and may.
SignedAs(s, p, part, a) ==
    /\ p \in People \ {Owner}
    /\ <<p, part>> \in s[a]
    /\ Role[p] \in {part, "admin"}

\* The approvals in a row have been written by those they name.
RowInv ==
    \A a \in Activations :
        /\ act[a].op # Nobody => SignedAs(signed, act[a].op, "operator", a)
        /\ act[a].comp # Nobody => SignedAs(signed, act[a].comp, "compliance", a)

\* So have those in a call's copy, however old it is; a call about to approve
\* has two different ones.
CallInv ==
    \A x \in Approvals : approval[x] # NoCall =>
        /\ approval[x].who # Owner
        /\ Role[approval[x].who] \in {"operator", "compliance", "admin"}
        /\ approval[x].op # Nobody => SignedAs(signed, approval[x].op, "operator", approval[x].of)
        /\ approval[x].comp # Nobody => SignedAs(signed, approval[x].comp, "compliance", approval[x].of)
        /\ approval[x].at = "signed" => BothSigned(approval[x])

\* A row exists, and is in an approver's hand, only once its request is over.
RequestInv ==
    /\ \A a \in Activations : act[a].status # "none" => request[a] = "done"
    /\ \A x \in Approvals : approval[x] # NoCall => request[approval[x].of] = "done"

IInv == TypeOK /\ RowInv /\ CallInv /\ RequestInv /\ TwoPeople

-----------------------------------------------------------------------------
LEMMA InitIInv == Init => IInv
BY PeopleAssumption
   DEF Init, IInv, TypeOK, RowInv, CallInv, RequestInv, TwoPeople, Row, NoRow, BothSigned

\* A signature is never taken back.
LEMMA SignedGrows ==
    ASSUME NEW a \in Activations, NEW p, NEW part, SignedAs(signed, p, part, a), signed[a] \subseteq signed'[a]
    PROVE  SignedAs(signed', p, part, a)
BY DEF SignedAs

LEMMA TwoSignersGrows ==
    ASSUME NEW a \in Activations, TwoSigners(a), signed[a] \subseteq signed'[a]
    PROVE  TwoSigners(a)'
BY DEF TwoSigners

\* A call whose copy names two signers has them.
LEMMA TwoSignersOfCall ==
    ASSUME IInv, NEW x \in Approvals, approval[x].at = "signed"
    PROVE  TwoSigners(approval[x].of)
<1>1. approval[x] # NoCall
    BY DEF NoCall
<1>2. BothSigned(approval[x])
    BY <1>1 DEF IInv, CallInv
<1>3. /\ SignedAs(signed, approval[x].op, "operator", approval[x].of)
      /\ SignedAs(signed, approval[x].comp, "compliance", approval[x].of)
      /\ approval[x].op # approval[x].comp
    BY <1>1, <1>2 DEF IInv, CallInv, BothSigned
<1> QED BY <1>3 DEF SignedAs, TwoSigners

-----------------------------------------------------------------------------
LEMMA TypeStep == IInv /\ [Next]_vars => TypeOK'
<1> SUFFICES ASSUME TypeOK, [Next]_vars PROVE TypeOK'
    BY DEF IInv
<1> USE PeopleAssumption
<1>1. ASSUME NEW a \in Activations, Request(a) PROVE TypeOK'
    <2>1. CASE CheckRequest(a)
        BY <2>1 DEF TypeOK, CheckRequest
    <2>2. CASE RevokeOthers(a)
        BY <2>2 DEF TypeOK, RevokeOthers, Row
    <2>3. CASE CreateActivation(a)
        BY <2>3 DEF TypeOK, CreateActivation, Row
    <2>4. CASE Expire(a)
        BY <2>4 DEF TypeOK, Expire
    <2> QED BY <1>1, <2>1, <2>2, <2>3, <2>4 DEF Request
<1>2. ASSUME NEW x \in Approvals, NEW p \in People, NEW a \in Activations, ReadActivation(x, p, a)
      PROVE  TypeOK'
    <2>1. act[a].op \in People \union {Nobody} /\ act[a].comp \in People \union {Nobody}
        BY DEF TypeOK, Row
    <2>2. [at |-> IF a \in expired THEN "expiring" ELSE "read",
           who |-> p, of |-> a, op |-> act[a].op, comp |-> act[a].comp] \in Call
        BY <2>1 DEF Call
    <2>3. approval' \in [Approvals -> Call \union {NoCall}]
        BY <1>2, <2>2 DEF TypeOK, ReadActivation
    <2> QED BY <1>2, <2>3 DEF TypeOK, ReadActivation, requestVars
<1>3. ASSUME NEW x \in Approvals, MarkExpired(x) PROVE TypeOK'
    <2>1. approval[x] \in Call
        BY <1>3 DEF TypeOK, MarkExpired, NoCall
    <2> QED BY <1>3, <2>1 DEF TypeOK, MarkExpired, Call, Row
<1>4. ASSUME NEW x \in Approvals, Sign(x) PROVE TypeOK'
    <2>1. approval[x] \in Call
        BY <1>4 DEF TypeOK, Sign, NoCall
    <2>2. approval[x].who \in People /\ approval[x].of \in Activations
        BY <2>1 DEF Call
    <2>3. act' \in [Activations -> Row]
        BY <1>4, <2>2 DEF TypeOK, Sign, Row
    <2>4. approval' \in [Approvals -> Call \union {NoCall}]
        BY <1>4, <2>1 DEF TypeOK, Sign, Call
    <2>5. signed' \in [Activations -> SUBSET (People \X {"operator", "compliance"})]
        BY <1>4, <2>2 DEF TypeOK, Sign
    <2> QED BY <1>4, <2>3, <2>4, <2>5 DEF TypeOK, Sign
<1>5. ASSUME NEW x \in Approvals, Approve(x) PROVE TypeOK'
    <2>1. approval[x] \in Call
        BY <1>5 DEF TypeOK, Approve, NoCall
    <2> QED BY <1>5, <2>1 DEF TypeOK, Approve, Call, Row
<1>6. ASSUME Connection PROVE TypeOK'
    <2>1. conn.kill \in BOOLEAN
        BY DEF TypeOK
    <2>2. \E k \in BOOLEAN, b \in BOOLEAN : SetConnection(b, k)
        BY <1>6, <2>1, Zenon DEF Connection, Reauthenticate, EngageKillSwitch, Reconnect,
                                 ResetKillSwitch
    <2>3. PICK k \in BOOLEAN, b \in BOOLEAN : SetConnection(b, k)
        BY <2>2
    <2> QED BY <2>3 DEF TypeOK, SetConnection, requestVars
<1>7. ASSUME NEW o \in LiveOrders, Gate(o) PROVE TypeOK'
    BY <1>7 DEF TypeOK, Gate, CheckConnection, CheckActivation, requestVars
<1>8. CASE UNCHANGED vars
    BY <1>8 DEF TypeOK, vars, requestVars
<1> QED BY <1>1, <1>2, <1>3, <1>4, <1>5, <1>6, <1>7, <1>8 DEF Next, Supervise

\* What Sign writes, spelled out.
LEMMA SignFacts ==
    ASSUME IInv, NEW x \in Approvals, Sign(x)
    PROVE  LET c == approval[x] IN
           /\ c \in Call /\ c.of \in Activations /\ c.who \in People \ {Owner}
           /\ \A a \in Activations : signed[a] \subseteq signed'[a]
           /\ \A a \in Activations \ {c.of} : act'[a] = act[a]
           /\ act'[c.of].status = act[c.of].status
           /\ \/ act'[c.of].op = act[c.of].op
              \/ act'[c.of].op = c.who /\ SignedAs(signed', c.who, "operator", c.of)
           /\ \/ act'[c.of].comp = act[c.of].comp
              \/ act'[c.of].comp = c.who /\ SignedAs(signed', c.who, "compliance", c.of)
           /\ \A y \in Approvals \ {x} : approval'[y] = approval[y]
           /\ approval'[x] # NoCall =>
                /\ approval'[x].who = c.who /\ approval'[x].of = c.of
                /\ approval'[x].at = "signed" /\ BothSigned(approval'[x])
                /\ \/ approval'[x].op = c.op
                   \/ approval'[x].op = c.who /\ SignedAs(signed', c.who, "operator", c.of)
                /\ \/ approval'[x].comp = c.comp
                   \/ approval'[x].comp = c.who /\ SignedAs(signed', c.who, "compliance", c.of)
<1> DEFINE c == approval[x]
           copy == [c EXCEPT !.op = IF SignsAsOperator(c) THEN c.who ELSE @,
                             !.comp = IF SignsAsCompliance(c) THEN c.who ELSE @]
<1> USE PeopleAssumption
<1>1. c \in Call /\ c # NoCall
    BY DEF IInv, TypeOK, Sign, NoCall
<1>2. c.of \in Activations /\ c.who \in People \ {Owner}
    BY <1>1 DEF Call, IInv, CallInv
<1>3. \A a \in Activations : signed[a] \subseteq signed'[a]
    BY <1>2 DEF IInv, TypeOK, Sign
<1>4. SignsAsOperator(c) => SignedAs(signed', c.who, "operator", c.of)
    <2> HAVE SignsAsOperator(c)
    <2>1. <<c.who, "operator">> \in signed'[c.of]
        BY <1>2 DEF IInv, TypeOK, Sign
    <2> QED BY <1>2, <2>1 DEF SignedAs, SignsAsOperator
<1>5. SignsAsCompliance(c) => SignedAs(signed', c.who, "compliance", c.of)
    <2> HAVE SignsAsCompliance(c)
    <2>1. <<c.who, "compliance">> \in signed'[c.of]
        BY <1>2 DEF IInv, TypeOK, Sign
    <2> QED BY <1>2, <2>1 DEF SignedAs, SignsAsCompliance
<1>6. /\ \A a \in Activations \ {c.of} : act'[a] = act[a]
      /\ act'[c.of].status = act[c.of].status
      /\ act'[c.of].op = IF SignsAsOperator(c) THEN c.who ELSE act[c.of].op
      /\ act'[c.of].comp = IF SignsAsCompliance(c) THEN c.who ELSE act[c.of].comp
    BY <1>2 DEF IInv, TypeOK, Sign, Row
<1>7. /\ \A y \in Approvals \ {x} : approval'[y] = approval[y]
      /\ approval'[x] = IF BothSigned(copy) THEN [copy EXCEPT !.at = "signed"] ELSE NoCall
    BY DEF IInv, TypeOK, Sign
<1>8. ASSUME approval'[x] # NoCall
      PROVE  /\ approval'[x].who = c.who /\ approval'[x].of = c.of
             /\ approval'[x].at = "signed" /\ BothSigned(approval'[x])
             /\ approval'[x].op = IF SignsAsOperator(c) THEN c.who ELSE c.op
             /\ approval'[x].comp = IF SignsAsCompliance(c) THEN c.who ELSE c.comp
    BY <1>1, <1>7, <1>8 DEF Call, BothSigned
<1> QED BY <1>1, <1>2, <1>3, <1>4, <1>5, <1>6, <1>7, <1>8

LEMMA RowStep == IInv /\ [Next]_vars => RowInv'
<1> SUFFICES ASSUME IInv, [Next]_vars PROVE RowInv'
    OBVIOUS
<1> USE PeopleAssumption
<1>1. ASSUME NEW a \in Activations, Request(a) PROVE RowInv'
    <2>1. /\ signed' = signed
          /\ \A b \in Activations : act'[b].op = act[b].op /\ act'[b].comp = act[b].comp
        BY <1>1 DEF IInv, TypeOK, Row, Request, CheckRequest, RevokeOthers, CreateActivation, Expire
    <2> QED BY <2>1 DEF IInv, RowInv, SignedAs
<1>2. ASSUME NEW x \in Approvals, MarkExpired(x) \/ Approve(x) PROVE RowInv'
    <2>0. approval[x] \in Call
        BY <1>2 DEF IInv, TypeOK, MarkExpired, Approve, NoCall
    <2>1. /\ signed' = signed
          /\ \A b \in Activations : act'[b].op = act[b].op /\ act'[b].comp = act[b].comp
        BY <1>2, <2>0 DEF IInv, TypeOK, Row, Call, MarkExpired, Approve
    <2> QED BY <2>1 DEF IInv, RowInv, SignedAs
<1>3. ASSUME NEW x \in Approvals, Sign(x) PROVE RowInv'
    <2> SUFFICES ASSUME NEW a \in Activations
                 PROVE  /\ act'[a].op # Nobody => SignedAs(signed', act'[a].op, "operator", a)
                        /\ act'[a].comp # Nobody => SignedAs(signed', act'[a].comp, "compliance", a)
        BY DEF RowInv
    <2>1. /\ act[a].op # Nobody => SignedAs(signed', act[a].op, "operator", a)
          /\ act[a].comp # Nobody => SignedAs(signed', act[a].comp, "compliance", a)
        BY <1>3, SignFacts, SignedGrows DEF IInv, RowInv
    <2>2. CASE a = approval[x].of
        BY <1>3, <2>1, <2>2, SignFacts
    <2>3. CASE a # approval[x].of
        BY <1>3, <2>1, <2>3, SignFacts
    <2> QED BY <2>2, <2>3
<1>4. CASE UNCHANGED <<act, signed>>
    BY <1>4 DEF IInv, RowInv, SignedAs
<1>5. ASSUME NEW x \in Approvals, NEW p \in People, NEW a \in Activations, ReadActivation(x, p, a)
      PROVE  UNCHANGED <<act, signed>>
    BY <1>5 DEF ReadActivation, requestVars
<1>6. ASSUME Connection \/ (\E o \in LiveOrders : Gate(o)) \/ UNCHANGED vars
      PROVE  UNCHANGED <<act, signed>>
    BY <1>6 DEF Connection, Reauthenticate, EngageKillSwitch, Reconnect, ResetKillSwitch,
                SetConnection, Gate, CheckConnection, CheckActivation, requestVars, vars
<1> QED BY <1>1, <1>2, <1>3, <1>4, <1>5, <1>6 DEF Next, Supervise

LEMMA CallStep == IInv /\ [Next]_vars => CallInv'
<1> SUFFICES ASSUME IInv, [Next]_vars, NEW y \in Approvals, approval'[y] # NoCall
             PROVE  /\ approval'[y].who # Owner
                    /\ Role[approval'[y].who] \in {"operator", "compliance", "admin"}
                    /\ approval'[y].op # Nobody => SignedAs(signed', approval'[y].op, "operator", approval'[y].of)
                    /\ approval'[y].comp # Nobody => SignedAs(signed', approval'[y].comp, "compliance", approval'[y].of)
                    /\ approval'[y].at = "signed" => BothSigned(approval'[y])
    BY DEF CallInv, BothSigned
<1> USE PeopleAssumption
<1>1. CASE approval'[y] = approval[y] /\ \A a \in Activations : signed[a] \subseteq signed'[a]
    <2>1. approval[y] # NoCall /\ approval[y].of \in Activations
        BY <1>1 DEF IInv, TypeOK, Call
    <2>2. /\ approval[y].op # Nobody => SignedAs(signed', approval[y].op, "operator", approval[y].of)
          /\ approval[y].comp # Nobody => SignedAs(signed', approval[y].comp, "compliance", approval[y].of)
        BY <1>1, <2>1, SignedGrows DEF IInv, CallInv
    <2> QED BY <1>1, <2>1, <2>2 DEF IInv, CallInv
<1>2. ASSUME NEW x \in Approvals, NEW p \in People, NEW a \in Activations, ReadActivation(x, p, a)
      PROVE  \/ approval'[y] = approval[y] /\ signed' = signed
             \/ /\ approval'[y].who = p /\ p # Owner /\ approval'[y].of = a
                /\ Role[p] \in {"operator", "compliance", "admin"}
                /\ approval'[y].op = act[a].op /\ approval'[y].comp = act[a].comp
                /\ approval'[y].at # "signed" /\ signed' = signed
    <2>1. CASE x = y
        BY <1>2, <2>1 DEF IInv, TypeOK, ReadActivation
    <2>2. CASE x # y
        BY <1>2, <2>2 DEF IInv, TypeOK, ReadActivation
    <2> QED BY <2>1, <2>2
<1>3. ASSUME NEW p, NEW a \in Activations,
             /\ approval'[y].who = p /\ p # Owner /\ approval'[y].of = a
             /\ Role[p] \in {"operator", "compliance", "admin"}
             /\ approval'[y].op = act[a].op /\ approval'[y].comp = act[a].comp
             /\ approval'[y].at # "signed" /\ signed' = signed
      PROVE  /\ approval'[y].op # Nobody => SignedAs(signed', approval'[y].op, "operator", approval'[y].of)
             /\ approval'[y].comp # Nobody => SignedAs(signed', approval'[y].comp, "compliance", approval'[y].of)
    BY <1>3 DEF IInv, RowInv, SignedAs
<1>4. ASSUME NEW x \in Approvals, MarkExpired(x) \/ Approve(x)
      PROVE  approval'[y] = approval[y] /\ signed' = signed
    BY <1>4 DEF IInv, TypeOK, MarkExpired, Approve
<1>5. ASSUME NEW x \in Approvals, Sign(x), x = y
      PROVE  /\ approval'[y].who # Owner
             /\ Role[approval'[y].who] \in {"operator", "compliance", "admin"}
             /\ approval'[y].op # Nobody => SignedAs(signed', approval'[y].op, "operator", approval'[y].of)
             /\ approval'[y].comp # Nobody => SignedAs(signed', approval'[y].comp, "compliance", approval'[y].of)
             /\ approval'[y].at = "signed" => BothSigned(approval'[y])
    <2>1. approval[x] # NoCall
        BY <1>5 DEF Sign, NoCall
    <2>2. /\ approval[x].op # Nobody => SignedAs(signed', approval[x].op, "operator", approval[x].of)
          /\ approval[x].comp # Nobody => SignedAs(signed', approval[x].comp, "compliance", approval[x].of)
        BY <1>5, <2>1, SignFacts, SignedGrows DEF IInv, CallInv
    <2> QED BY <1>5, <2>1, <2>2, SignFacts DEF IInv, CallInv
<1>6. ASSUME NEW x \in Approvals, Sign(x), x # y
      PROVE  approval'[y] = approval[y] /\ \A a \in Activations : signed[a] \subseteq signed'[a]
    BY <1>6, SignFacts
<1>7. ASSUME \/ \E a \in Activations : Request(a)
             \/ Connection \/ (\E o \in LiveOrders : Gate(o)) \/ UNCHANGED vars
      PROVE  approval' = approval /\ signed' = signed
    BY <1>7 DEF Request, CheckRequest, RevokeOthers, CreateActivation, Expire,
                Connection, Reauthenticate, EngageKillSwitch, Reconnect, ResetKillSwitch,
                SetConnection, Gate, CheckConnection, CheckActivation, vars
<1>8. CASE \E x \in Approvals, p \in People, a \in Activations : ReadActivation(x, p, a)
    BY <1>1, <1>2, <1>3, <1>8
<1> QED BY <1>1, <1>4, <1>5, <1>6, <1>7, <1>8 DEF Next, Supervise

LEMMA RequestStep == IInv /\ [Next]_vars => RequestInv'
<1> SUFFICES ASSUME IInv, [Next]_vars PROVE RequestInv'
    OBVIOUS
<1>1. ASSUME NEW a \in Activations, Request(a) PROVE RequestInv'
    <2>1. approval' = approval
        BY <1>1 DEF Request, CheckRequest, RevokeOthers, CreateActivation, Expire
    <2>2. \A b \in Activations : request[b] = "done" => request'[b] = "done"
        BY <1>1 DEF IInv, TypeOK, Request, CheckRequest, RevokeOthers, CreateActivation, Expire
    <2>3. \A x \in Approvals : approval[x] # NoCall => approval[x].of \in Activations
        BY DEF IInv, TypeOK, Call
    <2>4. \A b \in Activations : act'[b].status # "none" => request'[b] = "done"
        BY <1>1 DEF IInv, TypeOK, Row, RequestInv, Request, CheckRequest, RevokeOthers,
                    CreateActivation, Expire
    <2> QED BY <2>1, <2>2, <2>3, <2>4 DEF IInv, RequestInv
<1>2. ASSUME NEW x \in Approvals, Sign(x) PROVE RequestInv'
    <2>1. \A a \in Activations : act'[a].status = act[a].status
        BY <1>2, SignFacts
    <2>2. request' = request
        BY <1>2 DEF Sign
    <2>3. approval[x] # NoCall
        BY <1>2 DEF Sign, NoCall
    <2>4. \A y \in Approvals : approval'[y] # NoCall =>
                approval[y] # NoCall /\ approval'[y].of = approval[y].of
        BY <1>2, <2>3, SignFacts
    <2> QED BY <2>1, <2>2, <2>4 DEF IInv, RequestInv
<1>3. ASSUME NEW x \in Approvals, MarkExpired(x) \/ Approve(x) PROVE RequestInv'
    <2>1. approval[x] \in Call /\ approval[x] # NoCall
        BY <1>3 DEF IInv, TypeOK, MarkExpired, Approve, NoCall
    <2>2. approval[x].of \in Activations /\ request[approval[x].of] = "done"
        BY <2>1 DEF IInv, RequestInv, Call
    <2>3. request' = request /\ \A a \in Activations \ {approval[x].of} : act'[a] = act[a]
        BY <1>3 DEF IInv, TypeOK, MarkExpired, Approve
    <2>4. \A y \in Approvals : approval'[y] # NoCall => approval'[y] = approval[y]
        BY <1>3 DEF IInv, TypeOK, MarkExpired, Approve
    <2> QED BY <2>2, <2>3, <2>4 DEF IInv, RequestInv
<1>4. ASSUME NEW x \in Approvals, NEW p \in People, NEW a \in Activations, ReadActivation(x, p, a)
      PROVE  RequestInv'
    <2>1. act' = act /\ request' = request /\ request[a] = "done"
        BY <1>4 DEF IInv, RequestInv, ReadActivation, requestVars
    <2>2. \A y \in Approvals : approval'[y] # NoCall =>
                approval'[y] = approval[y] \/ approval'[y].of = a
        BY <1>4 DEF IInv, TypeOK, ReadActivation
    <2> QED BY <2>1, <2>2 DEF IInv, RequestInv
<1>5. CASE UNCHANGED <<act, request, approval>>
    BY <1>5 DEF IInv, RequestInv
<1>6. ASSUME Connection \/ (\E o \in LiveOrders : Gate(o)) \/ UNCHANGED vars
      PROVE  UNCHANGED <<act, request, approval>>
    BY <1>6 DEF Connection, Reauthenticate, EngageKillSwitch, Reconnect,
                ResetKillSwitch, SetConnection, Gate, CheckConnection, CheckActivation,
                requestVars, vars
<1> QED BY <1>1, <1>2, <1>3, <1>4, <1>5, <1>6 DEF Next, Supervise

LEMMA TwoPeopleStep == IInv /\ [Next]_vars => TwoPeople'
<1> SUFFICES ASSUME IInv, [Next]_vars PROVE TwoPeople'
    OBVIOUS
<1>1. ASSUME \A a \in Activations :
                /\ signed[a] \subseteq signed'[a]
                /\ act'[a].status = "approved" => TwoSigners(a)
      PROVE  TwoPeople'
    BY <1>1, TwoSignersGrows DEF TwoPeople
<1>2. ASSUME NEW x \in Approvals, Approve(x) PROVE TwoPeople'
    <2>1. TwoSigners(approval[x].of)
        BY <1>2, TwoSignersOfCall DEF Approve
    <2>2. signed' = signed /\ \A a \in Activations \ {approval[x].of} : act'[a] = act[a]
        BY <1>2 DEF IInv, TypeOK, Approve
    <2> QED BY <1>1, <2>1, <2>2 DEF IInv, TwoPeople
<1>3. ASSUME NEW x \in Approvals, Sign(x) PROVE TwoPeople'
    <2>1. \A a \in Activations : act'[a].status = act[a].status /\ signed[a] \subseteq signed'[a]
        BY <1>3, SignFacts
    <2> QED BY <1>1, <2>1 DEF IInv, TwoPeople
<1>4. ASSUME /\ signed' = signed
             /\ \A a \in Activations : act'[a].status = "approved" => act[a].status = "approved"
      PROVE  TwoPeople'
    BY <1>1, <1>4 DEF IInv, TwoPeople
<1>7. ASSUME NEW b \in Activations, Request(b)
      PROVE  /\ signed' = signed
             /\ \A a \in Activations : act'[a].status = "approved" => act[a].status = "approved"
    BY <1>7 DEF IInv, TypeOK, Row, Request, CheckRequest, RevokeOthers, CreateActivation, Expire
<1>8. ASSUME NEW x \in Approvals, MarkExpired(x)
      PROVE  /\ signed' = signed
             /\ \A a \in Activations : act'[a].status = "approved" => act[a].status = "approved"
    BY <1>8 DEF IInv, TypeOK, Row, MarkExpired
<1>5. CASE UNCHANGED <<act, signed>>
    BY <1>1, <1>5 DEF IInv, TwoPeople
<1>6. ASSUME \/ \E x \in Approvals, p \in People, a \in Activations : ReadActivation(x, p, a)
             \/ Connection \/ (\E o \in LiveOrders : Gate(o)) \/ UNCHANGED vars
      PROVE  UNCHANGED <<act, signed>>
    BY <1>6 DEF ReadActivation, Connection, Reauthenticate, EngageKillSwitch, Reconnect,
                ResetKillSwitch, SetConnection, Gate, CheckConnection, CheckActivation,
                requestVars, vars
<1> QED BY <1>2, <1>3, <1>4, <1>5, <1>6, <1>7, <1>8 DEF Next, Supervise

-----------------------------------------------------------------------------
\* The strengthened invariant is inductive.
THEOREM Inductive == Spec => []IInv
<1>1. IInv /\ [Next]_vars => IInv'
    BY TypeStep, RowStep, CallStep, RequestStep, TwoPeopleStep DEF IInv
<1> QED BY InitIInv, <1>1, PTL DEF Spec

\* Every variable keeps its type.
THEOREM TypeCorrect == Spec => []TypeOK
<1>1. IInv => TypeOK
    BY DEF IInv
<1> QED BY Inductive, <1>1, PTL

\* An activation is approved only after two people, neither of them its requester,
\* approved it, one in each part, however their calls interleave.
THEOREM DualControl == Spec => []TwoPeople
<1>1. IInv => TwoPeople
    BY DEF IInv
<1> QED BY Inductive, <1>1, PTL

\* No live order is authorized without such an activation, unexpired.
THEOREM LiveOrdersAreAuthorized == Spec => LiveOrderHasTwoSigners
<1>1. ASSUME IInv, [Next]_vars, NEW o \in LiveOrders,
             order[o] # "authorized", order'[o] = "authorized"
      PROVE  \E a \in Activations \ expired : TwoSigners(a)
    <2>1. order' # order
        BY <1>1
    <2>2. PICK p \in LiveOrders : Gate(p)
        BY <1>1, <2>1 DEF Next, Request, CheckRequest, RevokeOthers, CreateActivation, Expire,
              Supervise, ReadActivation, MarkExpired, Sign, Approve, Connection, Reauthenticate,
              EngageKillSwitch, Reconnect, ResetKillSwitch, SetConnection, vars
    <2>3. CheckActivation(p) /\ \E a \in Activations : Usable(a)
        BY <1>1, <2>2 DEF IInv, TypeOK, Gate, CheckConnection, CheckActivation
    <2> QED BY <1>1, <2>3 DEF Usable, IInv, TwoPeople
<1>2. IInv /\ [Next]_vars =>
        [ \A o \in LiveOrders : order[o] # "authorized" /\ order'[o] = "authorized" =>
            \E a \in Activations \ expired : TwoSigners(a) ]_vars
    BY <1>1
<1> QED BY Inductive, <1>2, PTL DEF Spec, LiveOrderHasTwoSigners

\* A revoked activation that no approver has read stays revoked.
THEOREM RevocationSettles == Spec => WithdrawnStays
<1>1. ASSUME IInv, [Next]_vars, NEW a \in Activations, Withdrawn(a)
      PROVE  Withdrawn(a)'
    <2>1. ASSUME act'[a].status = "revoked",
                 \A x \in Approvals : approval'[x] # NoCall =>
                    approval[x] # NoCall /\ approval'[x].of = approval[x].of
          PROVE  Withdrawn(a)'
        BY <1>1, <2>1 DEF Withdrawn
    <2>2. ASSUME NEW b \in Activations, Request(b) PROVE Withdrawn(a)'
        <3>1. approval' = approval
            BY <2>2 DEF Request, CheckRequest, RevokeOthers, CreateActivation, Expire
        <3>2. request[a] = "done"
            BY <1>1 DEF IInv, RequestInv, Withdrawn
        <3>3. act'[a].status = "revoked"
            BY <1>1, <2>2, <3>2 DEF IInv, TypeOK, Row, Withdrawn, Request, CheckRequest,
                                    RevokeOthers, CreateActivation, Expire
        <3> QED BY <2>1, <3>1, <3>3
    <2>3. ASSUME NEW x \in Approvals, NEW p \in People, NEW b \in Activations,
                 ReadActivation(x, p, b)
          PROVE  Withdrawn(a)'
        <3>1. b # a /\ act' = act
            BY <1>1, <2>3 DEF Withdrawn, ReadActivation, requestVars
        <3>2. \A y \in Approvals : approval'[y] = approval[y] \/ approval'[y].of = b
            BY <1>1, <2>3 DEF IInv, TypeOK, ReadActivation
        <3> QED BY <1>1, <3>1, <3>2 DEF Withdrawn
    <2>4. ASSUME NEW x \in Approvals, MarkExpired(x) \/ Approve(x) PROVE Withdrawn(a)'
        <3>1. approval[x] # NoCall
            BY <2>4 DEF MarkExpired, Approve, NoCall
        <3>2. approval[x].of # a
            BY <1>1, <3>1 DEF Withdrawn
        <3>3. act'[a] = act[a] /\ \A y \in Approvals : approval'[y] # NoCall => approval'[y] = approval[y]
            BY <1>1, <2>4, <3>2 DEF IInv, TypeOK, MarkExpired, Approve
        <3> QED BY <1>1, <2>1, <3>3 DEF Withdrawn
    <2>5. ASSUME NEW x \in Approvals, Sign(x) PROVE Withdrawn(a)'
        <3>1. act'[a].status = act[a].status
            BY <1>1, <2>5, SignFacts
        <3>2. approval[x] # NoCall
            BY <2>5 DEF Sign, NoCall
        <3>3. \A y \in Approvals : approval'[y] # NoCall =>
                    approval[y] # NoCall /\ approval'[y].of = approval[y].of
            BY <1>1, <2>5, <3>2, SignFacts
        <3> QED BY <1>1, <2>1, <3>1, <3>3 DEF Withdrawn
    <2>6. ASSUME Connection \/ (\E o \in LiveOrders : Gate(o)) \/ UNCHANGED vars
          PROVE  UNCHANGED <<act, approval>>
        BY <2>6 DEF Connection, Reauthenticate, EngageKillSwitch, Reconnect, ResetKillSwitch,
                    SetConnection, Gate, CheckConnection, CheckActivation, requestVars, vars
    <2>7. CASE UNCHANGED <<act, approval>>
        BY <1>1, <2>1, <2>7 DEF Withdrawn
    <2> QED BY <1>1, <2>2, <2>3, <2>4, <2>5, <2>6, <2>7 DEF Next, Supervise
<1>2. IInv /\ [Next]_vars => [ \A a \in Activations : Withdrawn(a) => Withdrawn(a)' ]_vars
    BY <1>1
<1> QED BY Inductive, <1>2, PTL DEF Spec, WithdrawnStays
=============================================================================
