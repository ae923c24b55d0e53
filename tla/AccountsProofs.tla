--------------------------- MODULE AccountsProofs -----------------------------
(***************************************************************************)
(* What guards an account, for any number of tokens, requests, reset links, *)
(* enrolments, backup codes and restarts, and for any window, limit,       *)
(* budget, users and calls of the assistants.  Each part has a section and *)
(* an inductive invariant of its own.                                      *)
(***************************************************************************)
EXTENDS MCServices, SumTheorems, SequenceTheorems

(***************************************************************************)
(* Sessions                                                                *)
(***************************************************************************)

\* A revocation that was answered is in the cache, or a restart has emptied it since.
CacheTold ==
    \A t \in Tokens :
        /\ revokedIn[t] <= restarts
        /\ revoking[t] = "done" => t \in revokedCache \/ restarts > revokedIn[t]

\* A revocation under way or answered has its row, unless the write failed or the token
\* has expired.
RowTold ==
    \A t \in Tokens : revoking[t] # "no" => Issued(t) /\ (t \in blocked \union lostBlock \/ ~Valid(t))

\* A request that is looking for the row of a token revoked before it came has passed a
\* cache that a restart had emptied.
LateCalls ==
    \A c \in Calls : call[c].at = "looking" =>
        /\ call[c].token \in Tokens
        /\ call[c].late => /\ revoking[call[c].token] = "done"
                           /\ restarts > revokedIn[call[c].token]

\* The inductive invariant of the sessions.
SessInv == SessTypeOK /\ CacheTold /\ RowTold /\ LateCalls /\ RevokedStaysOut

\* The invariant holds at boot, and every step of a login, a revocation, a request, the
\* sweep, the clock or a restart keeps it (sessions.js, middleware/auth.js).
THEOREM SessionsInductive == SessSpec => []SessInv
<1>1. SessInit => SessInv
  BY DEF SessInit, SessInv, SessTypeOK, CacheTold, RowTold, LateCalls, RevokedStaysOut, NewCall
<1>2. SessInv /\ [SessNext]_sessVars => SessInv'
  <2> SUFFICES ASSUME SessInv, [SessNext]_sessVars
               PROVE  SessInv'
    OBVIOUS
  <2> USE DEF SessInv
  <2>0. /\ time \in Nat /\ restarts \in Nat
        /\ \A t \in Tokens : expires[t] \in Nat /\ revokedIn[t] \in Nat
    BY DEF SessTypeOK
  <2>1. CASE Sweep
    <3>1. SessTypeOK' /\ CacheTold' /\ LateCalls' /\ RevokedStaysOut'
      BY <2>1 DEF Sweep, SessTypeOK, CacheTold, LateCalls, RevokedStaysOut
    <3>2. ASSUME NEW t \in Tokens, revoking[t] # "no", t \notin blocked', t \notin lostBlock
          PROVE  ~Valid(t)
      BY <2>0, <2>1, <3>2 DEF Sweep, Swept, RowTold, Valid
    <3>3. RowTold'
      BY <2>1, <3>2 DEF Sweep, RowTold, Valid, Issued
    <3> QED
      BY <3>1, <3>3
  <2>2. CASE Restart
    <3>1. SessTypeOK'
      <4>1. \A c \in Calls : call'[c] = call[c] \/ call'[c] = [NewCall EXCEPT !.at = "cut"]
        BY <2>2 DEF Restart, SessTypeOK
      <4>2. restarts' \in Nat /\ DOMAIN call' = Calls
        BY <2>0, <2>2 DEF Restart
      <4> QED
        BY <2>2, <4>1, <4>2 DEF Restart, SessTypeOK, NewCall
    <3>2. CacheTold'
      BY <2>0, <2>2 DEF Restart, CacheTold
    <3>3. RowTold'
      BY <2>2 DEF Restart, SessTypeOK, RowTold, Valid, Issued
    <3>4. LateCalls'
      BY <2>2 DEF Restart, SessTypeOK, LateCalls, NewCall
    <3> QED
      BY <2>2, <3>1, <3>2, <3>3, <3>4 DEF Restart, RevokedStaysOut
  <2>3. CASE TimeGoesOn
    <3>1. SessTypeOK'
      <4>1. time' \in Nat
        BY <2>0, <2>3 DEF TimeGoesOn
      <4> QED
        BY <2>3, <4>1 DEF TimeGoesOn, SessTypeOK
    <3>2. \A t \in Tokens : ~Valid(t) => ~Valid(t)'
      BY <2>0, <2>3 DEF TimeGoesOn, Valid
    <3>3. RowTold'
      BY <2>3, <3>2 DEF TimeGoesOn, RowTold, Issued
    <3> QED
      BY <2>3, <3>1, <3>3 DEF TimeGoesOn, CacheTold, LateCalls, RevokedStaysOut
  <2>4. ASSUME NEW t \in Tokens, Unlist(t)
        PROVE  SessInv'
    <3>1. SessTypeOK'
      BY <2>4 DEF Unlist, Note, SessTypeOK
    <3>2. CacheTold'
      <4> SUFFICES ASSUME NEW u \in Tokens
                   PROVE  /\ revokedIn'[u] <= restarts'
                          /\ revoking'[u] = "done" => u \in revokedCache' \/ restarts' > revokedIn'[u]
        BY DEF CacheTold
      <4>1. restarts' = restarts /\ revokedCache' = revokedCache \union {t}
        BY <2>4 DEF Unlist, Note
      <4>2. CASE u = t
        <5>1. revokedIn'[t] = restarts
          BY <2>4 DEF Unlist, SessTypeOK
        <5> QED
          BY <2>0, <4>1, <4>2, <5>1
      <4>3. CASE u # t
        <5>1. revokedIn'[u] = revokedIn[u] /\ revoking'[u] = revoking[u]
          BY <2>4, <4>3 DEF Unlist, SessTypeOK
        <5> QED
          BY <4>1, <5>1 DEF CacheTold
      <4> QED
        BY <4>2, <4>3
    <3>3. RowTold'
      BY <2>4 DEF Unlist, SessTypeOK, RowTold, Valid, Issued
    <3>4. LateCalls'
      BY <2>4 DEF Unlist, SessTypeOK, LateCalls
    <3> QED
      BY <2>4, <3>1, <3>2, <3>3, <3>4 DEF Unlist, RevokedStaysOut
  <2>5. ASSUME NEW t \in Tokens, NEW b \in BOOLEAN, Login(t, b)
        PROVE  SessInv'
    <3>1. SessTypeOK'
      <4>1. Life \in Nat
        BY SessionAssumption
      <4>2. expires' \in [Tokens -> Nat]
        <5>1. time + Life \in Nat
          BY <2>0, <4>1
        <5> QED
          BY <2>5, <5>1 DEF Login, SessTypeOK
      <4> QED
        BY <2>5, <4>2 DEF Login, SessTypeOK
    <3>2. RowTold'
      BY <2>5 DEF Login, SessTypeOK, RowTold, Valid, Issued
    <3> QED
      BY <2>5, <3>1, <3>2 DEF Login, CacheTold, LateCalls, RevokedStaysOut
  <2>6. ASSUME NEW t \in Tokens, NEW b \in BOOLEAN, BlockToken(t, b)
        PROVE  SessInv'
    <3>1. SessTypeOK'
      BY <2>6 DEF BlockToken, SessTypeOK
    <3>2. CacheTold' /\ LateCalls'
      BY <2>6 DEF BlockToken, SessTypeOK, CacheTold, LateCalls
    <3>3. RowTold'
      BY <2>6 DEF BlockToken, SessTypeOK, RowTold, Valid, Issued
    <3> QED
      BY <2>6, <3>1, <3>2, <3>3 DEF BlockToken, RevokedStaysOut
  <2>7. ASSUME NEW c \in Calls, NEW t \in Tokens, Present(c, t)
        PROVE  SessInv'
    <3>1. SessTypeOK'
      BY <2>7 DEF Present, SessTypeOK, NewCall
    <3>2. LateCalls'
      BY <2>7 DEF Present, SessTypeOK, LateCalls, CacheTold, NewCall
    <3> QED
      BY <2>7, <3>1, <3>2 DEF Present, CacheTold, RowTold, Valid, Issued, RevokedStaysOut
  <2>8. ASSUME NEW c \in Calls, NEW failing \in BOOLEAN, LookUp(c, failing)
        PROVE  SessInv'
    <3> DEFINE t == call[c].token
               found == t \in blocked /\ ~failing
    <3>1. t \in Tokens
      BY <2>8 DEF LookUp, LateCalls
    <3>2. ASSUME call[c].late, ~found
          PROVE  restarts > revokedIn[t] /\ (failing \/ t \in lostBlock \/ ~Valid(t))
      BY <2>8, <3>1, <3>2 DEF LookUp, LateCalls, RowTold
    <3> DEFINE slip == [cacheLost |-> restarts > revokedIn[t], rowLost |-> failing \/ t \in lostBlock,
                       expired |-> ~Valid(t)]
    <3>7. slips' = slips \/ (call[c].late /\ ~found /\ slips' = slips \union {slip})
      BY <2>8 DEF LookUp
    <3>8. slip \in [cacheLost : BOOLEAN, rowLost : BOOLEAN, expired : BOOLEAN]
      OBVIOUS
    <3>9. call' = [call EXCEPT ![c] = [NewCall EXCEPT !.at = IF found THEN "rejected" ELSE "let in"]]
      BY <2>8 DEF LookUp
    <3>10. revokedCache' \subseteq Tokens
      BY <2>8, <3>1 DEF LookUp, SessTypeOK
    <3>3. SessTypeOK'
      <4>1. slips' \subseteq [cacheLost : BOOLEAN, rowLost : BOOLEAN, expired : BOOLEAN]
        BY <3>7, <3>8 DEF SessTypeOK
      <4>2. [NewCall EXCEPT !.at = IF found THEN "rejected" ELSE "let in"] \in
              [at : {"new", "looking", "rejected", "let in", "cut"},
               token : Tokens \union {"none"}, late : BOOLEAN]
        BY DEF NewCall
      <4>3. call' \in [Calls -> [at : {"new", "looking", "rejected", "let in", "cut"},
                                token : Tokens \union {"none"}, late : BOOLEAN]]
        BY <3>9, <4>2 DEF SessTypeOK
      <4> QED
        BY <2>8, <3>10, <4>1, <4>3 DEF LookUp, SessTypeOK
    <3>4. CacheTold' /\ RowTold'
      BY <2>8 DEF LookUp, CacheTold, RowTold, Valid, Issued
    <3>5. LateCalls'
      BY <2>8 DEF LookUp, SessTypeOK, LateCalls, NewCall
    <3>6. RevokedStaysOut'
      <4>1. slip.cacheLost = (restarts > revokedIn[t]) /\ slip.expired = ~Valid(t)
            /\ slip.rowLost = (failing \/ t \in lostBlock)
        OBVIOUS
      <4>2. ASSUME call[c].late, ~found
            PROVE  slip.cacheLost /\ (slip.rowLost \/ slip.expired)
        BY <3>2, <4>1, <4>2
      <4> HIDE DEF slip, found
      <4> QED
        BY <3>7, <4>2 DEF RevokedStaysOut
    <3> QED
      BY <3>3, <3>4, <3>5, <3>6
  <2>9. CASE UNCHANGED sessVars
    BY <2>9 DEF sessVars, SessTypeOK, CacheTold, RowTold, LateCalls, RevokedStaysOut, Valid, Issued
  <2> QED
    BY <2>1, <2>2, <2>3, <2>4, <2>5, <2>6, <2>7, <2>8, <2>9 DEF SessNext
<1> QED
  BY <1>1, <1>2, PTL DEF SessSpec

\* A request that presents a revoked token is let in only when both memories of the
\* revocation were lost (RevokedStaysOut), whatever restarts, failures and races.
THEOREM RevokedSessionsStayOut == SessSpec => []RevokedStaysOut
<1>1. SessInv => RevokedStaysOut
  BY DEF SessInv
<1> QED
  BY <1>1, SessionsInductive, PTL

(***************************************************************************)
(* Reset links and the second factor                                       *)
(***************************************************************************)

\* A link that a change of password has closed is never open again.
SpentAreUsed == \A l \in spent : link[l] = "used"

\* A verification works with a secret, and what turned the factor on is in the row.
SecretKept ==
    /\ \A e \in Enrols : enrol[e].at \in {"verify", "enabling"} => enrol[e].secret # 0
    /\ totpEnabled /\ overwrites = {} => totpSecret = proven /\ proven # 0

\* The inductive invariant of the credentials.
CredInv == CredTypeOK /\ SpentAreUsed /\ OldLinksStayClosed /\ SecretKept

\* The requests about links and passwords keep the invariant (/forgot, /reset and
\* /change-password of routes/auth.js).
LEMMA PasswordSteps ==
    ASSUME CredInv,
           \/ \E l \in Links : SendLink(l)
           \/ \E r \in Resets : \/ ChangePassword(r) \/ StorePassword(r) \/ MarkUsed(r)
                                \/ \E l \in Links : FindLink(r, l)
                                \/ \E failing \in BOOLEAN : BurnLinks(r, failing)
    PROVE  CredInv'
<1> USE DEF CredInv, resetVars, totpVars
<1>1. UNCHANGED totpVars
  BY DEF SendLink, FindLink, ChangePassword, StorePassword, MarkUsed, BurnLinks
<1>2. SecretKept'
  BY <1>1 DEF SecretKept
<1>3. /\ link' \in [Links -> {"unsent", "open", "used"}]
      /\ reset' \in [Resets -> [at : {"new", "found", "stored", "marked", "done"}, by : SUBSET Links]]
      /\ spent' \subseteq Links /\ lateUses' \subseteq Links
  BY DEF CredTypeOK, SendLink, FindLink, ChangePassword, StorePassword, MarkUsed, BurnLinks, Burn
<1>4. CredTypeOK'
  BY <1>1, <1>3 DEF CredTypeOK
<1>5. SpentAreUsed'
  BY DEF CredTypeOK, SpentAreUsed, SendLink, FindLink, ChangePassword, StorePassword, MarkUsed,
         BurnLinks, Burn
<1>6. OldLinksStayClosed'
  BY DEF OldLinksStayClosed, SpentAreUsed, SendLink, FindLink, ChangePassword, StorePassword,
         MarkUsed, BurnLinks
<1> QED
  BY <1>2, <1>4, <1>5, <1>6

\* The requests about the second factor keep it (/2fa/enroll, /2fa/verify, /2fa/disable).
LEMMA FactorSteps ==
    ASSUME CredInv, NEW e \in Enrols,
           \/ \E kind \in {"enrol", "verify", "disable"} : ReadAccount(e, kind)
           \/ Enrolled(e) \/ Enable(e) \/ Disable(e)
           \/ \E right \in BOOLEAN : CheckCode(e, right)
    PROVE  CredInv'
<1> USE CredentialAssumption DEF CredInv, resetVars, Moves
<1>1. UNCHANGED resetVars
  BY DEF ReadAccount, CheckCode, Enrolled, Enable, Disable
<1>2. SpentAreUsed' /\ OldLinksStayClosed'
  BY <1>1 DEF SpentAreUsed, OldLinksStayClosed
<1>9. /\ enrol[e].secret \in 0 .. SecretBound /\ SecretBound \in Nat
      /\ totpSecret \in 0 .. SecretBound /\ proven \in 0 .. SecretBound
      /\ secrets \in 0 .. SecretBound /\ totpEnabled \in BOOLEAN
  BY DEF CredTypeOK
<1>3. /\ totpSecret' \in 0 .. SecretBound /\ proven' \in 0 .. SecretBound
      /\ secrets' \in 0 .. SecretBound
  <2>1. CASE \E k \in {"enrol", "verify", "disable"} : ReadAccount(e, k)
    BY <1>9, <2>1 DEF ReadAccount
  <2>2. CASE \E right \in BOOLEAN : CheckCode(e, right)
    BY <1>9, <2>2 DEF CheckCode
  <2>3. CASE Enrolled(e)
    BY <1>9, <2>3 DEF Enrolled
  <2>4. CASE Enable(e)
    BY <1>9, <2>4 DEF Enable
  <2>5. CASE Disable(e)
    BY <1>9, <2>5 DEF Disable
  <2> QED
    BY <2>1, <2>2, <2>3, <2>4, <2>5
<1>10. totpEnabled' \in BOOLEAN
  BY <1>9 DEF ReadAccount, CheckCode, Enrolled, Enable, Disable
<1>4. \E at \in {"enrol", "verify", "disable", "enabling", "done"}, n \in 0 .. SecretBound :
        /\ enrol' = [enrol EXCEPT ![e] = [at |-> at, secret |-> n]]
        /\ at \in {"verify", "enabling"} => n # 0
  BY DEF CredTypeOK, SecretKept, ReadAccount, CheckCode, Enrolled, Enable, Disable
<1>5. overwrites' \subseteq Enrols
  BY DEF CredTypeOK, ReadAccount, CheckCode, Enrolled, Enable, Disable
<1>6. CredTypeOK'
  BY <1>1, <1>3, <1>4, <1>5, <1>10 DEF CredTypeOK
<1>7. \A f \in Enrols : enrol'[f].at \in {"verify", "enabling"} => enrol'[f].secret # 0
  BY <1>4 DEF CredTypeOK, SecretKept
<1>8. totpEnabled' /\ overwrites' = {} => totpSecret' = proven' /\ proven' # 0
  BY DEF CredTypeOK, SecretKept, ReadAccount, CheckCode, Enrolled, Enable, Disable, KeepsPending
<1> QED
  BY <1>2, <1>6, <1>7, <1>8 DEF SecretKept

\* The invariant holds of a new account and is kept by every request (routes/auth.js).
THEOREM CredentialsInductive == CredSpec => []CredInv
<1>1. CredInit => CredInv
  <2> SUFFICES ASSUME CredInit
               PROVE  CredInv
    OBVIOUS
  <2>1. CredTypeOK
    <3>1. 0 \in 0 .. SecretBound
      BY CredentialAssumption
    <3>2. /\ link \in [Links -> {"unsent", "open", "used"}]
          /\ reset \in [Resets -> [at : {"new", "found", "stored", "marked", "done"}, by : SUBSET Links]]
          /\ enrol \in [Enrols -> [at : {"new", "enrol", "verify", "disable", "enabling", "done"},
                                   secret : 0 .. SecretBound]]
      BY <3>1 DEF CredInit, NoCopy
    <3> QED
      BY <3>1, <3>2, Zenon DEF CredInit, CredTypeOK
  <2>2. SpentAreUsed /\ OldLinksStayClosed /\ SecretKept
    BY DEF CredInit, SpentAreUsed, OldLinksStayClosed, SecretKept, NoCopy
  <2> QED
    BY <2>1, <2>2 DEF CredInv
<1>2. CredInv /\ [CredNext]_credVars => CredInv'
  <2> SUFFICES ASSUME CredInv, [CredNext]_credVars
               PROVE  CredInv'
    OBVIOUS
  <2>1. CASE UNCHANGED credVars
    BY <2>1 DEF credVars, CredInv, CredTypeOK, SpentAreUsed, OldLinksStayClosed, SecretKept
  <2> QED
    BY <2>1, PasswordSteps, FactorSteps, Zenon DEF CredNext
<1> QED
  BY <1>1, <1>2, PTL DEF CredSpec

(***************************************************************************)
(* Backup codes                                                            *)
(***************************************************************************)

\* A code that a stale copy of a request still lists.
Revived(c) == \E r \in stale : c \in codeRequest[r].copy

\* What is in the list is alive, but for the codes a stale write brought back.
DeadAreGone == \A c \in dead \intersect unused : Revived(c)

\* Only a request that has read the row is stale, and no code is of a batch to come.
CodesMade ==
    /\ \A r \in stale : codeRequest[r].at # "new"
    /\ \A c \in dead \union unused : c[1] <= batches
    /\ \A r \in CodeRequests : \A c \in codeRequest[r].copy : c[1] <= batches

\* The inductive invariant of the codes.
CodesInv == CodesTypeOK /\ DeadAreGone /\ CodesMade /\ CodesOpenOnce

\* The codes of a batch are codes, and the authenticator's digits are none.
LEMMA BatchFacts ==
    /\ \A b \in 1 .. Batches : Batch(b) \subseteq Codes /\ \A c \in Batch(b) : c[1] = b
    /\ Totp \notin Codes
BY CodesAssumption DEF Batch, Codes, Totp

\* The write of a list by a request that a code opened: what was dead and opens again,
\* or is brought back, is listed by the copy of a stale request.
LEMMA StaleWrites ==
    ASSUME CodesInv, NEW r \in CodeRequests, Matches(r), Opens(r),
           codeRequest' \in [CodeRequests -> [at : {"new", "comparing", "disabling", "answered"},
                                              kind : {"none", "verify", "regenerate", "disable"},
                                              code : Codes \union {Totp}, copy : SUBSET Codes]],
           \A q \in CodeRequests : /\ codeRequest'[q].copy = codeRequest[q].copy
                                   /\ codeRequest[q].at # "new" => codeRequest'[q].at # "new"
    PROVE  /\ lateOpens' \subseteq Codes /\ stale' \subseteq CodeRequests
           /\ \A q \in stale' : codeRequest'[q].at # "new"
           /\ \A c \in Codes : Revived(c) => Revived(c)'
           /\ CodesOpenOnce'
           /\ unused # codeRequest[r].copy => \A c \in codeRequest[r].copy : Revived(c)'
<1> USE DEF CodesInv
<1>1. /\ lateOpens \subseteq Codes /\ dead \subseteq Codes /\ stale \subseteq CodeRequests
      /\ codeRequest[r].at = "comparing"
  BY DEF CodesTypeOK, Matches
<1>2. /\ lateOpens' = lateOpens \union ({codeRequest[r].code} \intersect dead)
      /\ stale' = IF unused # codeRequest[r].copy THEN stale \union {r} ELSE stale
  BY DEF Opens
<1>3. stale' \subseteq CodeRequests /\ \A q \in stale' : codeRequest'[q].at # "new"
  BY <1>1, <1>2 DEF CodesMade
<1>4. \A c \in Codes : Revived(c) => Revived(c)'
  BY <1>1, <1>2 DEF Revived
<1>5. unused # codeRequest[r].copy => \A c \in codeRequest[r].copy : Revived(c)'
  BY <1>2 DEF Revived
<1>6. ASSUME NEW c \in dead, c = codeRequest[r].code
      PROVE  Revived(c)'
  <2>1. c \in codeRequest[r].copy
    BY <1>1, <1>6, BatchFacts DEF Matches
  <2>2. CASE c \in unused
    BY <1>1, <1>4, <1>6, <2>2 DEF DeadAreGone
  <2>3. CASE c \notin unused
    BY <1>5, <2>1, <2>3
  <2> QED
    BY <2>2, <2>3
<1>7. CodesOpenOnce'
  <2> SUFFICES ASSUME NEW c \in lateOpens'
               PROVE  Revived(c)'
    BY DEF CodesOpenOnce, Revived
  <2>1. CASE c \in lateOpens
    <3>1. Revived(c) /\ c \in Codes
      BY <1>1, <2>1 DEF CodesOpenOnce, Revived
    <3> QED
      BY <1>4, <3>1
  <2>2. CASE c \in {codeRequest[r].code} \intersect dead
    BY <1>6, <2>2
  <2> QED
    BY <1>2, <2>1, <2>2
<1> QED
  BY <1>1, <1>2, <1>3, <1>4, <1>5, <1>7

\* Every request with a code, and a new enrolment, keep the invariant (/verify-totp,
\* /2fa/backup-codes/regenerate and /2fa/disable of routes/auth.js).
LEMMA CodeSteps ==
    ASSUME CodesInv, NEW r \in CodeRequests,
           CodeRefused(r) \/ SignInWithCode(r) \/ Regenerate(r) \/ DisableConsumes(r) \/ DisableClears(r)
    PROVE  CodesInv'
<1> USE DEF CodesInv
<1> DEFINE Request == [at : {"new", "comparing", "disabling", "answered"},
                       kind : {"none", "verify", "regenerate", "disable"},
                       code : Codes \union {Totp}, copy : SUBSET Codes]
<1>1. /\ codeRequest \in [CodeRequests -> Request] /\ unused \subseteq Codes /\ dead \subseteq Codes
      /\ stale \subseteq CodeRequests /\ lateOpens \subseteq Codes
      /\ batches \in 1 .. Batches /\ factorOn \in BOOLEAN
      /\ codeRequest[r].at # "new"
  BY DEF CodesTypeOK, CodeRefused, Matches, SignInWithCode, Regenerate, DisableConsumes, DisableClears
<1>2. \E at \in {"disabling", "answered"} : codeRequest' = [codeRequest EXCEPT ![r].at = at]
  BY DEF CodeRefused, SignInWithCode, Regenerate, DisableConsumes, DisableClears, Answer
<1>3. codeRequest' \in [CodeRequests -> Request]
  BY <1>1, <1>2
<1>4. \A q \in CodeRequests : /\ codeRequest'[q].copy = codeRequest[q].copy
                              /\ codeRequest[q].at # "new" => codeRequest'[q].at # "new"
  BY <1>1, <1>2
<1>5. CASE UNCHANGED <<lateOpens, stale, batches>> /\ factorOn' \in BOOLEAN /\ dead' \subseteq dead \union unused
           /\ unused' \subseteq unused /\ (unused' = {} \/ dead' = dead)
  <2>1. CodesTypeOK'
    BY <1>1, <1>3, <1>5 DEF CodesTypeOK
  <2>2. DeadAreGone'
    BY <1>1, <1>4, <1>5 DEF DeadAreGone, Revived
  <2>3. CodesMade'
    BY <1>1, <1>4, <1>5 DEF CodesMade
  <2>4. CodesOpenOnce'
    BY <1>1, <1>4, <1>5 DEF CodesOpenOnce
  <2> QED
    BY <2>1, <2>2, <2>3, <2>4
<1>6. CASE CodeRefused(r) \/ DisableClears(r)
  BY <1>1, <1>5, <1>6 DEF CodeRefused, DisableClears
<1>7. CASE SignInWithCode(r) \/ DisableConsumes(r)
  <2>1. /\ Matches(r) /\ Opens(r) /\ unused' = Rest(r) /\ factorOn' = factorOn /\ batches' = batches
        /\ dead' = dead \union Spent(r) \union (unused \ Rest(r))
    BY <1>7 DEF SignInWithCode, DisableConsumes
  <2>2. /\ lateOpens' \subseteq Codes /\ stale' \subseteq CodeRequests
        /\ \A q \in stale' : codeRequest'[q].at # "new"
        /\ \A c \in Codes : Revived(c) => Revived(c)'
        /\ CodesOpenOnce'
        /\ unused # codeRequest[r].copy => \A c \in codeRequest[r].copy : Revived(c)'
    BY <1>3, <1>4, <2>1, StaleWrites
  <2>3. Spent(r) \subseteq Codes /\ \A c \in Spent(r) : c \in codeRequest[r].copy
    BY <1>1, <2>1 DEF Spent, Matches
  <2>4. codeRequest[r].copy \subseteq Codes
    BY <1>1
  <2>5. unused' \subseteq Codes /\ dead' \subseteq Codes
    BY <1>1, <2>1, <2>3, <2>4 DEF Rest, Consumed
  <2>6. CodesTypeOK'
    BY <1>1, <1>3, <2>1, <2>2, <2>5 DEF CodesTypeOK
  <2>7. DeadAreGone'
    <3> SUFFICES ASSUME NEW c \in dead' \intersect unused'
                 PROVE  Revived(c)'
      BY DEF DeadAreGone
    <3>1. CASE codeRequest[r].code = Totp
      <4>1. c \in dead \intersect unused
        BY <2>1, <3>1 DEF Rest, Spent
      <4> QED
        BY <1>1, <2>2, <4>1 DEF DeadAreGone
    <3>2. CASE codeRequest[r].code # Totp
      <4>1. c \in codeRequest[r].copy /\ c # codeRequest[r].code
        BY <2>1, <3>2 DEF Rest, Consumed
      <4>2. CASE unused # codeRequest[r].copy
        BY <2>2, <4>1, <4>2
      <4>3. CASE unused = codeRequest[r].copy
        <5>1. c \in dead \intersect unused
          BY <2>1, <3>2, <4>1, <4>3 DEF Rest, Consumed, Spent
        <5> QED
          BY <1>1, <2>2, <5>1 DEF DeadAreGone
      <4> QED
        BY <4>2, <4>3
    <3> QED
      BY <3>1, <3>2
  <2>8. CodesMade'
    <3>1. \A c \in dead' \union unused' : c \in dead \union unused \union codeRequest[r].copy
      BY <2>1, <2>3 DEF Rest, Consumed
    <3> QED
      BY <1>4, <2>1, <2>2, <3>1 DEF CodesMade
  <2> QED
    BY <2>2, <2>6, <2>7, <2>8
<1>8. CASE Regenerate(r)
  <2>1. /\ Matches(r) /\ Opens(r) /\ unused' = Batch(batches + 1) /\ factorOn' = factorOn
        /\ batches < Batches /\ batches' = batches + 1
        /\ dead' = dead \union Spent(r) \union unused
    BY <1>8 DEF Regenerate
  <2>2. /\ lateOpens' \subseteq Codes /\ stale' \subseteq CodeRequests
        /\ \A q \in stale' : codeRequest'[q].at # "new"
        /\ CodesOpenOnce'
    BY <1>3, <1>4, <2>1, StaleWrites
  <2>3. Spent(r) \subseteq Codes /\ \A c \in Spent(r) : c \in codeRequest[r].copy
    BY <1>1, <2>1 DEF Spent, Matches
  <2>4. batches + 1 \in 1 .. Batches
    BY <1>1, <2>1, CodesAssumption
  <2>5. unused' \subseteq Codes /\ \A c \in unused' : c[1] = batches + 1
    BY <2>1, <2>4, BatchFacts
  <2>6. CodesTypeOK'
    BY <1>1, <1>3, <2>1, <2>2, <2>3, <2>4, <2>5 DEF CodesTypeOK
  <2>7. \A c \in dead' : c \in Codes /\ c[1] <= batches
    BY <1>1, <2>1, <2>3 DEF CodesMade
  <2>8. DeadAreGone'
    BY <1>1, <2>5, <2>7 DEF DeadAreGone
  <2>9. CodesMade'
    <3>1. \A c \in Codes : c[1] <= batches => c[1] <= batches + 1
      BY <1>1 DEF Codes
    <3>2. \A q \in CodeRequests : \A c \in codeRequest'[q].copy : c \in Codes /\ c[1] <= batches
      BY <1>1, <1>4 DEF CodesMade
    <3> QED
      BY <1>1, <2>1, <2>2, <2>5, <2>7, <3>1, <3>2 DEF CodesMade
  <2> QED
    BY <2>2, <2>6, <2>8, <2>9
<1> QED
  BY <1>6, <1>7, <1>8

\* The invariant holds of a fresh enrolment and is kept by every request.
THEOREM CodesInductive == CodesSpec => []CodesInv
<1>1. CodesInit => CodesInv
  <2> SUFFICES ASSUME CodesInit
               PROVE  CodesInv
    OBVIOUS
  <2>1. 1 \in 1 .. Batches /\ <<1, 1>> \in Codes
    BY CodesAssumption DEF Codes
  <2>2. Batch(1) \subseteq Codes /\ \A c \in Batch(1) : c[1] = 1
    BY <2>1, BatchFacts
  <2>3. CodesTypeOK
    BY <2>1, <2>2 DEF CodesInit, CodesTypeOK
  <2>4. DeadAreGone /\ CodesMade /\ CodesOpenOnce
    BY <2>2 DEF CodesInit, DeadAreGone, CodesMade, CodesOpenOnce
  <2> QED
    BY <2>3, <2>4 DEF CodesInv
<1>2. CodesInv /\ [CodesNext]_codesVars => CodesInv'
  <2> SUFFICES ASSUME CodesInv, [CodesNext]_codesVars
               PROVE  CodesInv'
    OBVIOUS
  <2>1. ASSUME NEW r \in CodeRequests, NEW kind \in {"verify", "regenerate", "disable"},
               NEW c \in Codes \union {Totp}, ReadCodes(r, kind, c)
        PROVE  CodesInv'
    <3>1. CodesTypeOK'
      BY <2>1 DEF ReadCodes, CodesInv, CodesTypeOK
    <3>2. r \notin stale /\ \A q \in CodeRequests : q # r => codeRequest'[q] = codeRequest[q]
      BY <2>1 DEF ReadCodes, CodesInv, CodesTypeOK, CodesMade
    <3>3. codeRequest'[r].copy = unused /\ codeRequest'[r].at = "comparing"
      BY <2>1 DEF ReadCodes, CodesInv, CodesTypeOK
    <3>4. UNCHANGED <<unused, dead, stale, lateOpens, batches>> /\ stale \subseteq CodeRequests
      BY <2>1 DEF ReadCodes, CodesInv, CodesTypeOK
    <3>5. DeadAreGone'
      BY <3>2, <3>4 DEF CodesInv, DeadAreGone, Revived
    <3>6. CodesOpenOnce'
      BY <3>2, <3>4 DEF CodesInv, CodesOpenOnce
    <3>7. CodesMade'
      BY <3>2, <3>3, <3>4 DEF CodesInv, CodesMade
    <3> QED
      BY <3>1, <3>5, <3>6, <3>7 DEF CodesInv
  <2>2. CASE EnrolAgain
    <3>1. /\ unused' = Batch(batches + 1) /\ batches' = batches + 1 /\ batches < Batches
          /\ dead' = dead \union unused /\ factorOn' = TRUE
          /\ UNCHANGED <<codeRequest, lateOpens, stale>>
      BY <2>2 DEF EnrolAgain
    <3>2. batches \in 1 .. Batches /\ batches + 1 \in 1 .. Batches
      BY <3>1, CodesAssumption DEF CodesInv, CodesTypeOK
    <3>3. unused' \subseteq Codes /\ \A c \in unused' : c[1] = batches + 1
      BY <3>1, <3>2, BatchFacts
    <3>4. CodesTypeOK'
      BY <3>1, <3>2, <3>3 DEF CodesInv, CodesTypeOK
    <3>5. \A c \in dead' : c \in Codes /\ c[1] <= batches
      BY <3>1 DEF CodesInv, CodesTypeOK, CodesMade
    <3>6. DeadAreGone'
      BY <3>2, <3>3, <3>5 DEF DeadAreGone
    <3>7. \A c \in Codes : c[1] <= batches => c[1] <= batches + 1
      BY <3>2 DEF Codes
    <3>8. \A q \in CodeRequests : codeRequest[q].copy \subseteq Codes
      BY DEF CodesInv, CodesTypeOK
    <3>9. CodesMade'
      BY <3>1, <3>2, <3>3, <3>5, <3>7, <3>8 DEF CodesInv, CodesMade
    <3> QED
      BY <3>1, <3>4, <3>6, <3>9 DEF CodesInv, CodesOpenOnce
  <2>3. CASE UNCHANGED codesVars
    BY <2>3 DEF codesVars, CodesInv, CodesTypeOK, DeadAreGone, Revived, CodesMade, CodesOpenOnce
  <2> QED
    BY <2>1, <2>2, <2>3, CodeSteps DEF CodesNext
<1> QED
  BY <1>1, <1>2, PTL DEF CodesSpec

-----------------------------------------------------------------------------

\* No interleaving of sign-ins, resets, enrolments and sign-outs gives the account away by
\* an old link, a spent code or a secret its owner never proved (AccountStaysOwned).
THEOREM AccountIsKept == AccountsSpec => []AccountStaysOwned
<1>1. CredInv => OldLinksStayClosed /\ OwnerCanSignIn
  BY DEF CredInv, SecretKept, OwnerCanSignIn
<1>2. CodesInv => CodesOpenOnce
  BY DEF CodesInv
<1> QED
  BY <1>1, <1>2, CredentialsInductive, CodesInductive, PTL DEF AccountsSpec, AccountStaysOwned

(***************************************************************************)
(* The limiters                                                            *)
(* What the sliding limiter remembers is the end of what it accepted; what *)
(* the fixed one accepted before its window is its limit twice over.       *)
(***************************************************************************)

SlidingCalls == accepted["sliding"]
FixedCalls == accepted["fixed"]

\* The calls of the window that is open: those counted, up to the limit.
OpenCalls == IF hits.count > Limit THEN Limit ELSE hits.count
WindowStart == hits.resetAt - Window

RateTyped ==
    /\ instant \in Instants
    /\ hits \in [count : 0 .. Limit + 1, resetAt : Int]
    /\ recent \in Seq(Instants)
    /\ accepted \in [Kinds -> Seq(Instants)]

\* What the sliding limiter remembers is the end of what it accepted, and the rest has
\* left the window; what it accepted is in order.
SlidingWell ==
    /\ Len(recent) <= Limit /\ Len(recent) <= Len(SlidingCalls)
    /\ \A k \in 1 .. Len(recent) : recent[k] = SlidingCalls[Len(SlidingCalls) - Len(recent) + k]
    /\ \A i \in 1 .. Len(SlidingCalls) - Len(recent) : SlidingCalls[i] <= instant - Window
    /\ \A i \in 1 .. Len(SlidingCalls) : SlidingCalls[i] <= instant
    /\ \A i, j \in 1 .. Len(SlidingCalls) : i <= j => SlidingCalls[i] <= SlidingCalls[j]
    /\ Spaced(SlidingCalls, Limit)

\* What the fixed limiter accepted: nothing after the end of its window, nothing but the
\* open calls since its start, and Limit calls before those nothing within a window of it.
FixedWell ==
    /\ WindowStart <= instant
    /\ \A i \in 1 .. Len(FixedCalls) : FixedCalls[i] <= hits.resetAt
    /\ \A i \in 1 .. Len(FixedCalls) - OpenCalls : FixedCalls[i] < WindowStart
    /\ \A i \in 1 .. Len(FixedCalls) - OpenCalls - Limit : FixedCalls[i] + Window < WindowStart
    /\ Spaced(FixedCalls, 2 * Limit)

RateInv == RateTyped /\ SlidingWell /\ FixedWell

LEMMA RateTypes ==
  ASSUME RateTyped
  PROVE  /\ instant \in Nat /\ hits.count \in Nat /\ hits.resetAt \in Int /\ Window \in Nat /\ Limit \in Nat
         /\ Window > 0 /\ Limit > 0
         /\ OpenCalls \in Nat /\ OpenCalls <= Limit /\ WindowStart \in Int
         /\ recent \in Seq(Nat) /\ SlidingCalls \in Seq(Nat) /\ FixedCalls \in Seq(Nat)
         /\ Len(recent) \in Nat /\ DOMAIN recent = 1 .. Len(recent)
         /\ Len(SlidingCalls) \in Nat /\ DOMAIN SlidingCalls = 1 .. Len(SlidingCalls)
         /\ Len(FixedCalls) \in Nat /\ DOMAIN FixedCalls = 1 .. Len(FixedCalls)
         /\ \A i \in 1 .. Len(recent) : recent[i] \in Nat
         /\ \A i \in 1 .. Len(SlidingCalls) : SlidingCalls[i] \in Nat
         /\ \A i \in 1 .. Len(FixedCalls) : FixedCalls[i] \in Nat
<1>1. Instants \subseteq Nat
  BY RateAssumption DEF Instants
<1>2. recent \in Seq(Nat) /\ SlidingCalls \in Seq(Nat) /\ FixedCalls \in Seq(Nat)
  BY <1>1, SeqMonotonic DEF RateTyped, SlidingCalls, FixedCalls, Kinds
<1>3. instant \in Nat /\ hits.count \in Nat /\ hits.resetAt \in Int /\ Window \in Nat /\ Limit \in Nat
      /\ Window > 0 /\ Limit > 0
  BY <1>1, RateAssumption DEF RateTyped
<1>4. OpenCalls \in Nat /\ OpenCalls <= Limit /\ WindowStart \in Int
  BY <1>3 DEF OpenCalls, WindowStart
<1> QED
  BY <1>2, <1>3, <1>4, LenProperties, ElementOfSeq

\* Appending an instant.
LEMMA Appended ==
  ASSUME NEW s \in Seq(Nat), NEW t \in Nat
  PROVE  /\ Append(s, t) \in Seq(Nat) /\ Len(Append(s, t)) = Len(s) + 1 /\ Len(s) \in Nat
         /\ Append(s, t)[Len(s) + 1] = t
         /\ \A i \in 1 .. Len(s) : Append(s, t)[i] = s[i]
BY AppendProperties, LenProperties

LEMMA SpacedMeans ==
  ASSUME NEW s \in Seq(Nat), NEW n
  PROVE  Spaced(s, n) <=> \A i \in 1 .. Len(s) : i + n \in 1 .. Len(s) => s[i + n] - s[i] >= Window
BY LenProperties DEF Spaced

\* Calls stay spaced when the n-th before the new one is a window away.
LEMMA SpacedAppend ==
  ASSUME NEW s \in Seq(Nat), NEW n \in Nat, n > 0, NEW t \in Nat, Spaced(s, n),
         Len(s) + 1 - n \in 1 .. Len(s) => s[Len(s) + 1 - n] + Window <= t
  PROVE  Spaced(Append(s, t), n)
<1> DEFINE a == Append(s, t)
<1>1. a \in Seq(Nat) /\ Len(a) = Len(s) + 1 /\ Len(s) \in Nat /\ a[Len(s) + 1] = t
      /\ \A i \in 1 .. Len(s) : a[i] = s[i]
  BY Appended
<1> HIDE DEF a
<1>2. \A i \in 1 .. Len(s) : s[i] \in Nat
  BY ElementOfSeq, <1>1
<1>3. ASSUME NEW i \in 1 .. Len(a), i + n \in 1 .. Len(a) PROVE a[i + n] - a[i] >= Window
  <2> DEFINE l == Len(s)
  <2>0. l \in Nat /\ i \in 1 .. l + 1 /\ i + n \in 1 .. l + 1
    BY <1>1, <1>3
  <2>01. i \in 1 .. l /\ i \in Nat
    BY <2>0
  <2>1. i \in 1 .. Len(s) /\ a[i] = s[i] /\ s[i] \in Nat /\ i \in Nat
    BY <1>1, <1>2, <2>01
  <2>2. CASE i + n = Len(s) + 1
    <3>1. i = Len(s) + 1 - n
      BY <2>1, <2>2, <1>1
    <3>2. s[i] + Window <= t
      BY <2>1, <3>1
    <3>3. a[i + n] = t
      BY <1>1, <2>2
    <3> QED
      BY <2>1, <3>2, <3>3, RateAssumption
  <2>3. CASE i + n # Len(s) + 1
    <3>1. i + n \in 1 .. Len(s)
      BY <2>0, <2>3
    <3>2. a[i + n] = s[i + n]
      BY <1>1, <3>1
    <3>3. s[i + n] - s[i] >= Window
      BY <2>1, <3>1, SpacedMeans
    <3> QED
      BY <2>1, <3>2, <3>3
  <2> QED
    BY <2>2, <2>3
<1> QED
  BY <1>1, <1>3, SpacedMeans DEF a

LEMMA RateInit_Inv == RateInit => RateInv
<1> SUFFICES ASSUME RateInit PROVE RateInv
  OBVIOUS
<1> USE DEF RateInit
<1>1. RateTyped
  BY RateAssumption DEF RateTyped, Instants, Kinds
<1>2. SlidingCalls = <<>> /\ FixedCalls = <<>> /\ Len(SlidingCalls) = 0 /\ Len(FixedCalls) = 0 /\ recent = <<>> /\ Len(recent) = 0
  BY DEF SlidingCalls, FixedCalls, Kinds
<1>3. Spaced(SlidingCalls, Limit) /\ Spaced(FixedCalls, 2 * Limit)
  BY <1>2 DEF Spaced
<1>4. SlidingWell
  BY <1>2, <1>3, RateAssumption DEF SlidingWell
<1>5. OpenCalls = 0 /\ WindowStart = -1 - Window
  BY RateAssumption DEF OpenCalls, WindowStart
<1>6. FixedWell
  BY <1>2, <1>3, <1>5, RateAssumption DEF FixedWell
<1> QED
  BY <1>1, <1>4, <1>6 DEF RateInv

\* What Accept does to the histories.
LEMMA Accepts ==
  ASSUME RateInv, NEW kind \in Kinds, Accept(kind)
  PROVE  /\ accepted' \in [Kinds -> Seq(Instants)]
         /\ accepted'[kind] = Append(accepted[kind], instant)
         /\ \A k \in Kinds : k # kind => accepted'[k] = accepted[k]
<1>1. Append(accepted[kind], instant) \in Seq(Instants)
  BY AppendProperties DEF RateInv, RateTyped
<1> QED
  BY <1>1 DEF RateInv, RateTyped, Accept

LEMMA SlidingKept ==
  ASSUME RateInv, UNCHANGED <<instant, recent>>, SlidingCalls' = SlidingCalls
  PROVE  SlidingWell'
BY DEF RateInv, SlidingWell, Spaced

LEMMA FixedKept ==
  ASSUME RateInv, UNCHANGED <<instant, hits>>, FixedCalls' = FixedCalls
  PROVE  FixedWell'
BY DEF RateInv, FixedWell, Spaced, OpenCalls, WindowStart

LEMMA FixedStarts_Inv == ASSUME RateInv, FixedStarts PROVE RateInv'
<1>1. /\ instant > hits.resetAt /\ hits' = [count |-> 1, resetAt |-> instant + Window]
      /\ Accept("fixed") /\ UNCHANGED <<instant, recent>>
  BY DEF FixedStarts
<1>2. accepted' \in [Kinds -> Seq(Instants)] /\ FixedCalls' = Append(FixedCalls, instant) /\ SlidingCalls' = SlidingCalls
  BY <1>1, Accepts DEF Kinds, FixedCalls, SlidingCalls
<1>3. RateTyped /\ FixedWell
  BY DEF RateInv
<1>4. hits' \in [count : 0 .. Limit + 1, resetAt : Int] /\ hits'.count = 1 /\ hits'.resetAt = instant + Window
  BY <1>1, <1>3, RateTypes, RateAssumption
<1>5. RateTyped'
  BY <1>1, <1>2, <1>3, <1>4 DEF RateTyped
<1>6. OpenCalls' = 1 /\ WindowStart' = instant
  <2>1. OpenCalls' = 1
    BY <1>4, RateAssumption DEF OpenCalls
  <2>2. WindowStart' = instant
    BY <1>3, <1>4, RateTypes DEF WindowStart
  <2> QED
    BY <2>1, <2>2
<1>7. Len(FixedCalls') = Len(FixedCalls) + 1 /\ FixedCalls'[Len(FixedCalls) + 1] = instant /\ \A i \in 1 .. Len(FixedCalls) : FixedCalls'[i] = FixedCalls[i]
  BY <1>2, <1>3, RateTypes, Appended
<1>8. ASSUME NEW i \in 1 .. Len(FixedCalls) PROVE FixedCalls[i] < instant /\ FixedCalls[i] \in Nat
  <2>1. FixedCalls[i] <= hits.resetAt /\ FixedCalls[i] \in Nat
    BY <1>3, RateTypes DEF FixedWell
  <2> QED
    BY <2>1, <1>1, <1>3, RateTypes
<1>9. ASSUME NEW i \in 1 .. Len(FixedCalls) - Limit PROVE FixedCalls[i] + Window < instant /\ i \in 1 .. Len(FixedCalls)
  <2>1. i \in 1 .. Len(FixedCalls) /\ i \in 1 .. Len(FixedCalls) - OpenCalls
    BY <1>3, RateTypes
  <2>2. FixedCalls[i] < WindowStart /\ FixedCalls[i] \in Nat
    BY <1>3, <2>1, RateTypes DEF FixedWell
  <2>3. FixedCalls[i] + Window < hits.resetAt
    BY <2>2, <1>3, RateTypes DEF WindowStart
  <2> QED
    BY <2>1, <2>2, <2>3, <1>1, <1>3, RateTypes
<1>10. Spaced(FixedCalls', 2 * Limit)
  <2>1. Len(FixedCalls) + 1 - 2 * Limit \in 1 .. Len(FixedCalls) => FixedCalls[Len(FixedCalls) + 1 - 2 * Limit] + Window <= instant
    <3> DEFINE i == Len(FixedCalls) + 1 - 2 * Limit
    <3> SUFFICES ASSUME i \in 1 .. Len(FixedCalls) PROVE FixedCalls[i] + Window <= instant
      OBVIOUS
    <3>1. i \in 1 .. Len(FixedCalls) - Limit
      BY <1>3, RateTypes
    <3> HIDE DEF i
    <3>2. FixedCalls[i] + Window < instant /\ FixedCalls[i] \in Nat
      BY <1>8, <1>9, <3>1
    <3> QED
      BY <3>2, <1>3, RateTypes
  <2>2. 2 * Limit \in Nat /\ 2 * Limit > 0 /\ FixedCalls \in Seq(Nat) /\ instant \in Nat
    BY <1>3, RateTypes
  <2>3. Spaced(FixedCalls, 2 * Limit)
    BY <1>3 DEF FixedWell
  <2>4. Spaced(Append(FixedCalls, instant), 2 * Limit)
    BY <2>1, <2>2, <2>3, SpacedAppend
  <2> QED
    BY <2>4, <1>2
<1>11. \A i \in 1 .. Len(FixedCalls') : FixedCalls'[i] <= hits'.resetAt
  <2> SUFFICES ASSUME NEW i \in 1 .. Len(FixedCalls') PROVE FixedCalls'[i] <= instant + Window
    BY <1>4
  <2>1. instant \in Nat /\ Window \in Nat /\ Len(FixedCalls) \in Nat
    BY <1>3, RateTypes
  <2>2. i = Len(FixedCalls) + 1 \/ i \in 1 .. Len(FixedCalls)
    BY <1>7, <2>1
  <2>3. CASE i = Len(FixedCalls) + 1
    BY <1>7, <2>1, <2>3
  <2>4. CASE i \in 1 .. Len(FixedCalls)
    <3>1. FixedCalls'[i] = FixedCalls[i] /\ FixedCalls[i] < instant /\ FixedCalls[i] \in Nat
      BY <1>7, <1>8, <2>4
    <3> QED
      BY <2>1, <3>1
  <2> QED
    BY <2>2, <2>3, <2>4
<1>12. \A i \in 1 .. Len(FixedCalls') - 1 : FixedCalls'[i] < instant
  BY <1>3, <1>7, <1>8, RateTypes
<1>13. \A i \in 1 .. Len(FixedCalls') - 1 - Limit : FixedCalls'[i] + Window < instant
  BY <1>3, <1>7, <1>9, RateTypes
<1>14. FixedWell'
  BY <1>1, <1>3, <1>6, <1>10, <1>11, <1>12, <1>13, RateTypes DEF FixedWell
<1>15. SlidingWell'
  BY <1>1, <1>2, SlidingKept
<1> QED
  BY <1>5, <1>14, <1>15 DEF RateInv

LEMMA FixedCounts_Inv == ASSUME RateInv, FixedCounts PROVE RateInv'
<1>1. instant <= hits.resetAt /\ UNCHANGED <<instant, recent>>
  BY DEF FixedCounts
<1>2. RateTyped /\ FixedWell /\ hits.count \in 0 .. Limit + 1
  BY DEF RateInv, RateTyped
<1>3. CASE OverLimit(hits.count + 1)
  <2>1. hits' = [hits EXCEPT !.count = IF OverLimit(hits.count) THEN hits.count ELSE hits.count + 1]
        /\ accepted' = accepted
    BY <1>3 DEF FixedCounts
  <2>2. hits.count = Limit \/ hits.count = Limit + 1
    <3>1. hits.count \in Nat /\ Limit \in Nat /\ hits.count <= Limit + 1
      BY <1>2, RateTypes
    <3>2. hits.count + 1 > Limit
      BY <1>3 DEF OverLimit
    <3> QED
      BY <3>1, <3>2
  <2>3. hits' \in [count : 0 .. Limit + 1, resetAt : Int] /\ hits'.count = Limit + 1 /\ hits'.resetAt = hits.resetAt
    <3>1. Limit \in Nat /\ hits \in [count : 0 .. Limit + 1, resetAt : Int]
      BY <1>2, RateTypes DEF RateTyped
    <3>2. (IF OverLimit(hits.count) THEN hits.count ELSE hits.count + 1) = Limit + 1
      BY <2>2, <3>1 DEF OverLimit
    <3>3. hits' = [hits EXCEPT !.count = Limit + 1] /\ Limit + 1 \in 0 .. Limit + 1
      BY <2>1, <3>1, <3>2
    <3> QED
      BY <3>1, <3>3
  <2>4. OpenCalls' = OpenCalls /\ WindowStart' = WindowStart
    BY <2>2, <2>3, <1>2, RateTypes DEF OpenCalls, WindowStart
  <2>5. RateTyped'
    BY <1>1, <1>2, <2>1, <2>3 DEF RateTyped
  <2>6. FixedCalls' = FixedCalls /\ SlidingCalls' = SlidingCalls
    BY <2>1 DEF FixedCalls, SlidingCalls
  <2>7. FixedWell'
    BY <1>1, <1>2, <2>3, <2>4, <2>6 DEF FixedWell, Spaced
  <2> QED
    BY <1>1, <2>5, <2>6, <2>7, SlidingKept DEF RateInv
<1>4. CASE ~OverLimit(hits.count + 1)
  <2>1. hits' = [hits EXCEPT !.count = hits.count + 1] /\ Accept("fixed")
    BY <1>4 DEF FixedCounts
  <2>2. hits.count + 1 <= Limit
    BY <1>2, <1>4, RateTypes DEF OverLimit
  <2>3. hits' \in [count : 0 .. Limit + 1, resetAt : Int] /\ hits'.count = hits.count + 1
        /\ hits'.resetAt = hits.resetAt
    <3>1. Limit \in Nat /\ hits \in [count : 0 .. Limit + 1, resetAt : Int] /\ hits.count \in Nat
      BY <1>2, RateTypes DEF RateTyped
    <3>2. hits.count + 1 \in 0 .. Limit + 1
      BY <2>2, <3>1
    <3> QED
      BY <2>1, <3>1, <3>2
  <2>4. OpenCalls' = OpenCalls + 1 /\ WindowStart' = WindowStart /\ OpenCalls + 1 <= Limit
    BY <2>2, <2>3, <1>2, RateTypes DEF OpenCalls, WindowStart
  <2>5. accepted' \in [Kinds -> Seq(Instants)] /\ FixedCalls' = Append(FixedCalls, instant) /\ SlidingCalls' = SlidingCalls
    BY <2>1, Accepts DEF Kinds, FixedCalls, SlidingCalls
  <2>6. RateTyped'
    BY <1>1, <1>2, <2>3, <2>5 DEF RateTyped
  <2>7. Len(FixedCalls') = Len(FixedCalls) + 1 /\ FixedCalls'[Len(FixedCalls) + 1] = instant
        /\ \A i \in 1 .. Len(FixedCalls) : FixedCalls'[i] = FixedCalls[i]
    BY <1>2, <2>5, RateTypes, Appended
  <2>8. Spaced(FixedCalls', 2 * Limit)
    <3>1. Len(FixedCalls) + 1 - 2 * Limit \in 1 .. Len(FixedCalls) => FixedCalls[Len(FixedCalls) + 1 - 2 * Limit] + Window <= instant
      <4> DEFINE i == Len(FixedCalls) + 1 - 2 * Limit
      <4> SUFFICES ASSUME i \in 1 .. Len(FixedCalls) PROVE FixedCalls[i] + Window <= instant
        OBVIOUS
      <4>1. i \in 1 .. Len(FixedCalls) - OpenCalls - Limit
        BY <1>2, <2>4, RateTypes
      <4>2. FixedCalls[i] \in Nat
        BY <1>2, RateTypes
      <4> HIDE DEF i
      <4>3. FixedCalls[i] + Window < WindowStart /\ WindowStart <= instant
        BY <1>2, <4>1 DEF FixedWell
      <4> QED
        BY <4>2, <4>3, <1>2, RateTypes
    <3>2. 2 * Limit \in Nat /\ 2 * Limit > 0 /\ FixedCalls \in Seq(Nat) /\ instant \in Nat
      BY <1>2, RateTypes
    <3>3. Spaced(FixedCalls, 2 * Limit)
      BY <1>2 DEF FixedWell
    <3>4. Spaced(Append(FixedCalls, instant), 2 * Limit)
      BY <3>1, <3>2, <3>3, SpacedAppend
    <3> QED
      BY <3>4, <2>5
  <2>9. \A i \in 1 .. Len(FixedCalls') : FixedCalls'[i] <= hits'.resetAt
    <3> SUFFICES ASSUME NEW i \in 1 .. Len(FixedCalls') PROVE FixedCalls'[i] <= hits.resetAt
      BY <2>3
    <3>1. Len(FixedCalls) \in Nat
      BY <1>2, RateTypes
    <3>2. i = Len(FixedCalls) + 1 \/ i \in 1 .. Len(FixedCalls)
      BY <2>7, <3>1
    <3>3. CASE i = Len(FixedCalls) + 1
      BY <1>1, <2>7, <3>3
    <3>4. CASE i \in 1 .. Len(FixedCalls)
      BY <1>2, <2>7, <3>4 DEF FixedWell
    <3> QED
      BY <3>2, <3>3, <3>4
  <2>10. Len(FixedCalls') - OpenCalls' = Len(FixedCalls) - OpenCalls
    BY <1>2, <2>4, <2>7, RateTypes
  <2>11. \A i \in 1 .. Len(FixedCalls) - OpenCalls : i \in 1 .. Len(FixedCalls)
    BY <1>2, RateTypes
  <2>12. \A i \in 1 .. Len(FixedCalls) - OpenCalls - Limit : i \in 1 .. Len(FixedCalls)
    BY <1>2, RateTypes
  <2>13. \A i \in 1 .. Len(FixedCalls') - OpenCalls' : FixedCalls'[i] < WindowStart'
    BY <1>2, <2>4, <2>7, <2>10, <2>11 DEF FixedWell
  <2>14. \A i \in 1 .. Len(FixedCalls') - OpenCalls' - Limit : FixedCalls'[i] + Window < WindowStart'
    BY <1>2, <2>4, <2>7, <2>10, <2>12 DEF FixedWell
  <2>15. FixedWell'
    BY <1>1, <1>2, <2>4, <2>8, <2>9, <2>13, <2>14 DEF FixedWell
  <2> QED
    BY <1>1, <2>5, <2>6, <2>15, SlidingKept DEF RateInv
<1> QED
  BY <1>3, <1>4

\* What the filter leaves.
LEMMA RememberedWell ==
  ASSUME RateInv
  PROVE  \E g \in 0 .. Len(recent) :
           /\ Remembered \in Seq(Instants) /\ Len(Remembered) = Len(recent) - g
           /\ \A k \in 1 .. Len(recent) - g : Remembered[k] = recent[g + k]
           /\ \A k \in 1 .. g : recent[k] <= instant - Window
<1> DEFINE G == {i \in DOMAIN recent : ~StillCounts(recent[i])}
           g == Cardinality(G)
           m == Len(recent)
<1>1. RateTyped /\ SlidingWell /\ m \in Nat /\ DOMAIN recent = 1 .. m /\ \A i \in 1 .. m : recent[i] \in Nat
  BY RateTypes DEF RateInv
<1>2. \A i, j \in 1 .. m : i <= j => recent[i] <= recent[j]
  <2> SUFFICES ASSUME NEW i \in 1 .. m, NEW j \in 1 .. m, i <= j PROVE recent[i] <= recent[j]
    OBVIOUS
  <2> DEFINE d == Len(SlidingCalls) - m
  <2>1. d \in Nat /\ Len(SlidingCalls) \in Nat
    BY <1>1, RateTypes DEF SlidingWell
  <2>2. recent[i] = SlidingCalls[d + i] /\ recent[j] = SlidingCalls[d + j]
    BY <1>1 DEF SlidingWell
  <2>3. d + i \in 1 .. Len(SlidingCalls) /\ d + j \in 1 .. Len(SlidingCalls) /\ d + i <= d + j
    BY <1>1, <2>1
  <2> HIDE DEF d
  <2> QED
    BY <1>1, <2>2, <2>3 DEF SlidingWell
<1>3. \A i \in 1 .. m : i \in G <=> recent[i] <= instant - Window
  <2>1. instant \in Nat /\ Window \in Nat
    BY <1>1, RateTypes
  <2> QED
    BY <1>1, <2>1 DEF StillCounts
<1>4. G \subseteq 1 .. m /\ IsFiniteSet(G)
  <2>1. IsFiniteSet(1 .. m)
    BY <1>1, FS_Interval
  <2>2. G \subseteq 1 .. m
    BY <1>1
  <2> QED
    BY <2>1, <2>2, FS_Subset
<1>5. \A i, j \in 1 .. m : i <= j /\ j \in G => i \in G
  <2>1. instant \in Nat /\ Window \in Nat
    BY <1>1, RateTypes
  <2> QED
    BY <1>1, <1>2, <1>3, <2>1
<1> HIDE DEF G, m
<1>6. G = 1 .. g /\ g \in 0 .. m
  <2>1. CASE G = {}
    <3>1. g = 0
      BY <2>1, FS_EmptySet
    <3> QED
      BY <2>1, <3>1, <1>1
  <2>2. CASE G # {}
    <3> DEFINE id == [x \in G |-> x]
    <3>1. \A x \in G : id[x] \in Nat /\ id[x] = x
      BY <1>1, <1>4
    <3> HIDE DEF id
    <3>2. PICK x \in G : \A y \in G : id[y] <= id[x]
      BY <1>4, <2>2, <3>1, GreatestOfFinite
    <3>3. \A y \in G : y <= x
      BY <3>1, <3>2
    <3>4. x \in 1 .. m /\ x \in Nat
      BY <1>1, <1>4
    <3>5. G = 1 .. x
      <4>1. \A y \in G : y \in 1 .. x
        BY <1>1, <1>4, <3>3, <3>4
      <4>2. \A y \in 1 .. x : y \in G
        BY <1>1, <1>5, <3>4
      <4> QED
        BY <4>1, <4>2
    <3>6. Cardinality(1 .. x) = x
      <4>1. Cardinality(1 .. x) = IF 1 > x THEN 0 ELSE x - 1 + 1
        BY <3>4, FS_Interval
      <4> QED
        BY <4>1, <3>4, <1>1
    <3> QED
      BY <3>4, <3>5, <3>6, <1>1
  <2> QED
    BY <2>1, <2>2
<1>7. Remembered = SubSeq(recent, g + 1, m)
  BY DEF Remembered, G, m
<1> HIDE DEF g
<1>8. \A i \in (g + 1) .. m : recent[i] \in Instants
  <2>1. \A i \in 1 .. m : recent[i] \in Instants
    BY <1>1, ElementOfSeq DEF m, RateTyped
  <2> QED
    BY <1>1, <1>6, <2>1
<1>9. /\ Remembered \in Seq(Instants)
      /\ Len(Remembered) = IF g + 1 <= m THEN m - (g + 1) + 1 ELSE 0
      /\ \A i \in 1 .. m - (g + 1) + 1 : Remembered[i] = recent[(g + 1) + i - 1]
  <2>1. g + 1 \in Int /\ m \in Int
    BY <1>1, <1>6
  <2> QED
    BY <1>7, <1>8, <2>1, SubSeqProperties
<1>10. Len(Remembered) = m - g /\ \A k \in 1 .. m - g : Remembered[k] = recent[g + k]
  <2>1. m - (g + 1) + 1 = m - g /\ \A k \in 1 .. m - g : (g + 1) + k - 1 = g + k
    BY <1>1, <1>6
  <2> QED
    BY <1>1, <1>6, <1>9, <2>1
<1>11. \A k \in 1 .. g : recent[k] <= instant - Window
  <2>1. \A k \in 1 .. g : k \in G /\ k \in 1 .. m
    BY <1>1, <1>6
  <2> QED
    BY <1>3, <2>1
<1> QED
  BY <1>6, <1>9, <1>10, <1>11 DEF m

LEMMA Slides_Inv == ASSUME RateInv, Slides PROVE RateInv'
<1>1. RateTyped /\ SlidingWell
  BY DEF RateInv
<1>2. UNCHANGED <<instant, hits>> /\ IF Len(Remembered) >= Limit THEN UNCHANGED <<recent, accepted>>
                                     ELSE recent' = Append(Remembered, instant) /\ Accept("sliding")
  BY DEF Slides
<1>3. CASE Len(Remembered) >= Limit
  <2>1. UNCHANGED <<instant, hits, recent, accepted>>
    BY <1>2, <1>3
  <2>2. SlidingCalls' = SlidingCalls /\ FixedCalls' = FixedCalls
    BY <2>1 DEF SlidingCalls, FixedCalls
  <2>3. RateTyped'
    BY <1>1, <2>1 DEF RateTyped
  <2> QED
    BY <2>1, <2>2, <2>3, SlidingKept, FixedKept DEF RateInv
<1>4. CASE ~(Len(Remembered) >= Limit)
  <2>1. recent' = Append(Remembered, instant) /\ Accept("sliding")
    BY <1>2, <1>4
  <2>2. accepted' \in [Kinds -> Seq(Instants)] /\ SlidingCalls' = Append(SlidingCalls, instant) /\ FixedCalls' = FixedCalls
    BY <2>1, Accepts DEF Kinds, FixedCalls, SlidingCalls
  <2> DEFINE m == Len(recent)
             n == Len(SlidingCalls)
             K == Remembered
  <2>3. PICK g \in 0 .. m :
           /\ K \in Seq(Instants) /\ Len(K) = m - g
           /\ \A k \in 1 .. m - g : K[k] = recent[g + k]
           /\ \A k \in 1 .. g : recent[k] <= instant - Window
    BY RememberedWell
  <2>4. /\ m \in Nat /\ n \in Nat /\ g \in Nat /\ instant \in Nat /\ Window \in Nat /\ Limit \in Nat /\ Limit > 0
        /\ Window > 0 /\ SlidingCalls \in Seq(Nat) /\ m <= n /\ g <= m
        /\ \A i \in 1 .. n : SlidingCalls[i] \in Nat
    BY <1>1, RateTypes DEF SlidingWell
  <2>5. m - g < Limit
    BY <1>4, <2>3, <2>4
  <2>6. recent' \in Seq(Instants) /\ Len(recent') = m - g + 1 /\ recent'[m - g + 1] = instant
        /\ \A k \in 1 .. m - g : recent'[k] = recent[g + k]
    <3>1. instant \in Instants
      BY <1>1 DEF RateTyped
    <3>2. recent' \in Seq(Instants) /\ Len(recent') = Len(K) + 1 /\ recent'[Len(K) + 1] = instant
          /\ \A k \in 1 .. Len(K) : recent'[k] = K[k]
      BY <2>1, <2>3, <3>1, AppendProperties
    <3> QED
      BY <2>3, <3>2
  <2>7. Len(SlidingCalls') = n + 1 /\ SlidingCalls'[n + 1] = instant /\ \A i \in 1 .. n : SlidingCalls'[i] = SlidingCalls[i]
    BY <2>2, <2>4, Appended
  <2>8. \A k \in 1 .. m : recent[k] = SlidingCalls[n - m + k]
    BY <1>1 DEF SlidingWell
  <2>9. ASSUME NEW i \in 1 .. n - m + g PROVE SlidingCalls[i] <= instant - Window /\ i \in 1 .. n
    <3>1. i \in 1 .. n
      BY <2>4
    <3>2. CASE i \in 1 .. n - m
      BY <3>1, <3>2, <1>1 DEF SlidingWell
    <3>3. CASE i \notin 1 .. n - m
      <4>1. i - (n - m) \in 1 .. g /\ i - (n - m) \in 1 .. m /\ n - m + (i - (n - m)) = i
        BY <2>4, <3>1, <3>3
      <4>2. recent[i - (n - m)] <= instant - Window /\ recent[i - (n - m)] = SlidingCalls[i]
        BY <2>3, <2>8, <4>1
      <4> QED
        BY <3>1, <4>2
    <3> QED
      BY <3>2, <3>3
  <2>10. Spaced(SlidingCalls', Limit)
    <3>1. n + 1 - Limit \in 1 .. n => SlidingCalls[n + 1 - Limit] + Window <= instant
      <4> SUFFICES ASSUME n + 1 - Limit \in 1 .. n PROVE SlidingCalls[n + 1 - Limit] + Window <= instant
        OBVIOUS
      <4>1. n + 1 - Limit \in 1 .. n - m + g
        BY <2>4, <2>5
      <4>2. SlidingCalls[n + 1 - Limit] <= instant - Window /\ SlidingCalls[n + 1 - Limit] \in Nat
        BY <2>4, <2>9, <4>1
      <4> QED
        BY <2>4, <4>2
    <3>2. Spaced(SlidingCalls, Limit)
      BY <1>1 DEF SlidingWell
    <3> QED
      BY <2>2, <2>4, <3>1, <3>2, SpacedAppend
  <2>11. (n + 1) - (m - g + 1) = n - m + g
    BY <2>4
  <2> HIDE DEF K, m, n
  <2>12. \A k \in 1 .. (m - g + 1) : recent'[k] = SlidingCalls'[(n + 1) - (m - g + 1) + k]
    <3> TAKE k \in 1 .. (m - g + 1)
    <3>1. CASE k = m - g + 1
      BY <2>4, <2>6, <2>7, <3>1
    <3>2. CASE k \in 1 .. m - g
      <4>1. g + k \in 1 .. m /\ n - m + (g + k) = (n + 1) - (m - g + 1) + k /\ n - m + (g + k) \in 1 .. n
        BY <2>4, <3>2
      <4>2. recent'[k] = SlidingCalls[n - m + (g + k)]
        BY <2>6, <2>8, <3>2, <4>1
      <4> QED
        BY <2>7, <4>1, <4>2
    <3> QED
      BY <2>4, <3>1, <3>2
  <2>13. \A i \in 1 .. (n + 1) - (m - g + 1) : SlidingCalls'[i] <= instant - Window
    BY <2>7, <2>9, <2>11
  <2>14. \A i \in 1 .. n : SlidingCalls[i] <= instant
    BY <1>1 DEF SlidingWell, n
  <2>15. \A i \in 1 .. n + 1 : SlidingCalls'[i] <= instant
    <3> TAKE i \in 1 .. n + 1
    <3>1. i = n + 1 \/ i \in 1 .. n
      BY <2>4
    <3> QED
      BY <2>4, <2>7, <2>14, <3>1
  <2>16. \A i, j \in 1 .. n + 1 : i <= j => SlidingCalls'[i] <= SlidingCalls'[j]
    <3> TAKE i, j \in 1 .. n + 1
    <3> HAVE i <= j
    <3>1. j = n + 1 \/ (j \in 1 .. n /\ i \in 1 .. n)
      BY <2>4
    <3>2. CASE j = n + 1
      BY <2>7, <2>15, <3>2
    <3>3. CASE j \in 1 .. n /\ i \in 1 .. n
      <4>1. SlidingCalls[i] <= SlidingCalls[j]
        BY <1>1, <3>3 DEF SlidingWell, n
      <4> QED
        BY <2>7, <3>3, <4>1
    <3> QED
      BY <3>1, <3>2, <3>3
  <2>17. SlidingWell'
    <3>1. Len(recent') = m - g + 1 /\ Len(SlidingCalls') = n + 1 /\ instant' = instant
      BY <1>2, <2>6, <2>7
    <3>2. m - g + 1 <= Limit /\ m - g + 1 <= n + 1
      BY <2>4, <2>5
    <3> QED
      BY <3>1, <3>2, <2>10, <2>12, <2>13, <2>15, <2>16 DEF SlidingWell
  <2>18. RateTyped'
    BY <1>1, <1>2, <2>2, <2>6 DEF RateTyped
  <2> QED
    BY <1>2, <2>2, <2>17, <2>18, FixedKept DEF RateInv
<1> QED
  BY <1>3, <1>4

LEMMA TimePasses_Inv == ASSUME RateInv, TimePasses PROVE RateInv'
<1>1. instant < LastInstant /\ instant' = instant + 1 /\ UNCHANGED <<hits, recent, accepted>>
  BY DEF TimePasses
<1>2. RateTyped /\ SlidingWell /\ FixedWell
  BY DEF RateInv
<1>3. instant \in Nat /\ Window \in Nat /\ WindowStart \in Int /\ Len(SlidingCalls) \in Nat /\ Len(recent) \in Nat
      /\ (\A i \in 1 .. Len(SlidingCalls) : SlidingCalls[i] \in Nat) /\ Len(recent) <= Len(SlidingCalls)
  BY <1>2, RateTypes DEF SlidingWell
<1>4. instant' \in Instants
  BY <1>1, <1>3, RateAssumption DEF Instants
<1>5. SlidingCalls' = SlidingCalls /\ FixedCalls' = FixedCalls /\ OpenCalls' = OpenCalls /\ WindowStart' = WindowStart
  BY <1>1 DEF SlidingCalls, FixedCalls, OpenCalls, WindowStart
<1>6. RateTyped'
  BY <1>1, <1>2, <1>4 DEF RateTyped
<1>7. \A i \in 1 .. Len(SlidingCalls) - Len(recent) : SlidingCalls[i] <= instant' - Window
  <2>1. \A i \in 1 .. Len(SlidingCalls) - Len(recent) : SlidingCalls[i] <= instant - Window /\ SlidingCalls[i] \in Nat
    BY <1>2, <1>3 DEF SlidingWell
  <2> QED
    BY <2>1, <1>1, <1>3
<1>8. \A i \in 1 .. Len(SlidingCalls) : SlidingCalls[i] <= instant'
  <2>1. \A i \in 1 .. Len(SlidingCalls) : SlidingCalls[i] <= instant /\ SlidingCalls[i] \in Nat
    BY <1>2, <1>3 DEF SlidingWell
  <2> QED
    BY <2>1, <1>1, <1>3
<1>9. SlidingWell'
  BY <1>1, <1>2, <1>5, <1>7, <1>8 DEF SlidingWell, Spaced
<1>10. WindowStart <= instant'
  BY <1>1, <1>2, <1>3 DEF FixedWell
<1>11. FixedWell'
  BY <1>1, <1>2, <1>5, <1>10 DEF FixedWell, Spaced
<1> QED
  BY <1>6, <1>9, <1>11 DEF RateInv

\* The inductive invariant of the limiters.
THEOREM RateInductive == RateSpec => []RateInv
<1>1. RateInv /\ [RateNext]_rateVars => RateInv'
  <2> SUFFICES ASSUME RateInv, [RateNext]_rateVars PROVE RateInv'
    OBVIOUS
  <2>1. CASE UNCHANGED rateVars
    <3>1. UNCHANGED <<instant, hits, recent, accepted>>
      BY <2>1 DEF rateVars
    <3>2. SlidingCalls' = SlidingCalls /\ FixedCalls' = FixedCalls /\ RateTyped'
      BY <3>1 DEF SlidingCalls, FixedCalls, RateInv, RateTyped
    <3> QED
      BY <3>1, <3>2, SlidingKept, FixedKept DEF RateInv
  <2> QED
    BY <2>1, FixedStarts_Inv, FixedCounts_Inv, Slides_Inv, TimePasses_Inv DEF RateNext
<1> QED
  BY <1>1, RateInit_Inv, PTL DEF RateSpec

LEMMA RateInvHolds == RateInv => RateTypeOK /\ WindowBound
BY DEF RateInv, RateTyped, RateTypeOK, SlidingWell, FixedWell, WindowBound, SlidingCalls, FixedCalls

(***************************************************************************)
(* The assistants' daily budget                                            *)
(* What a row tells, and what the calls under way still owe it, is spent.  *)
(***************************************************************************)

CallStates == [at : {"idle", "checking", "recording", "creating", "incrementing"} \cup Providers,
               account : Accounts \cup {Unread}, row : Nat \cup {Unread}, tokens : AnswerSizes \cup {0}]

\* The most an answer uses, and what of a user's day a call leaves to the others: nothing
\* once it may be answered without another look at that day's row.
Most == Max(AnswerSizes)
Unlooked(a, pending) ==
    \/ pending.at \in Providers /\ pending.account[1] = a[1]
    \/ pending.at = "checking" /\ pending.account[1] = a[1] /\ pending.account # a
Spare(a, pending) == IF Unlooked(a, pending) THEN 0 ELSE Most

OwedBy(a) == SumFunction([c \in AiCalls |-> Owed(a, asking[c])])
Room(a) == SumFunction([c \in AiCalls |-> Spare(a, asking[c])])
RowOf(a) == IF usage[a] = <<>> THEN 0 ELSE usage[a][1]

CallWell(c) ==
    /\ asking[c].at # "idle" => asking[c].account \in Accounts
    /\ asking[c].at = "incrementing" => asking[c].row \in DOMAIN usage[asking[c].account]

\* No row of a day says more than its answers used; and while nothing went uncounted
\* there is one row, which says all but what is owed, and there is room for every call
\* that is not looked at again.
RowsUnder(a) ==
    /\ OwedBy(a) <= used[a]
    /\ \A k \in DOMAIN usage[a] : usage[a][k] + OwedBy(a) <= used[a]
Bounded(a) == used[a] <= TokenLimit - 1 + Cardinality(AiCalls) * Most
Booked(a) ==
    /\ RowsUnder(a)
    /\ a[2] > today => used[a] = 0
    /\ a \notin uncounted =>
         /\ Len(usage[a]) <= 1
         /\ RowOf(a) + OwedBy(a) = used[a]
         /\ Bounded(a)
         /\ a[2] = today => used[a] <= TokenLimit - 1 + Room(a)

BudgetTyped ==
    /\ today \in Days /\ configured \subseteq Providers
    /\ usage \in [Accounts -> Seq(Nat)]
    /\ asking \in [AiCalls -> CallStates]
    /\ used \in [Accounts -> 0 .. SpentBound]
    /\ uncounted \subseteq Accounts

BudgetInv ==
    /\ BudgetTyped
    /\ \A c \in AiCalls : CallWell(c)
    /\ \A a \in Accounts : Booked(a)

LEMMA RowsOfDay ==
  ASSUME NEW s \in Seq(Nat)
  PROVE  /\ Len(s) \in Nat /\ DOMAIN s = 1 .. Len(s)
         /\ \A k \in DOMAIN s : k \in Nat /\ s[k] \in Nat
         /\ Len(s) <= 1 /\ s # <<>> => Len(s) = 1 /\ s[1] \in Nat /\ \A k \in DOMAIN s : k = 1
<1>1. Len(s) \in Nat /\ DOMAIN s = 1 .. Len(s) /\ s \in [1 .. Len(s) -> Nat]
  BY LenProperties
<1>2. s # <<>> => Len(s) # 0
  BY EmptySeq
<1> QED
  BY <1>1, <1>2

LEMMA MostTokens == Most \in Nat /\ \A t \in AnswerSizes \cup {0} : t \in Nat /\ t <= Most
<1>1. IsFiniteSet(AnswerSizes) /\ AnswerSizes # {} /\ AnswerSizes \subseteq Nat
  BY AiBudgetAssumption
<1> DEFINE id == [x \in AnswerSizes |-> x]
<1>2. \A x \in AnswerSizes : id[x] \in Nat /\ id[x] = x
  BY <1>1
<1> HIDE DEF id
<1>3. \E x \in AnswerSizes : \A y \in AnswerSizes : id[y] <= id[x]
  BY <1>1, <1>2, GreatestOfFinite
<1>4. \E x \in AnswerSizes : \A y \in AnswerSizes : x >= y
  BY <1>1, <1>2, <1>3
<1>5. Most \in AnswerSizes /\ \A y \in AnswerSizes : Most >= y
  BY <1>4 DEF Max, Most
<1> QED
  BY <1>1, <1>5

LEMMA OwedType ==
  ASSUME NEW a \in Accounts, NEW x \in CallStates
  PROVE  /\ Owed(a, x) \in Nat /\ Spare(a, x) \in Nat /\ Spare(a, x) <= Most
         /\ Owed(a, x) <= Spare(a, x)
<1>1. x.tokens \in Nat /\ x.tokens <= Most
  BY MostTokens DEF CallStates
<1>2. x.at \in {"recording", "creating", "incrementing"} => ~ Unlooked(a, x)
  BY DEF Unlooked, Providers
<1> QED
  BY <1>1, <1>2, MostTokens DEF Owed, Spare

\* The two sums: their types, and that what is owed is within the room.
LEMMA SumsType ==
  ASSUME asking \in [AiCalls -> CallStates], NEW a \in Accounts
  PROVE  /\ OwedBy(a) \in Nat /\ Room(a) \in Nat
         /\ OwedBy(a) <= Room(a) /\ Room(a) <= Cardinality(AiCalls) * Most
<1> DEFINE f == [c \in AiCalls |-> Owed(a, asking[c])]
           g == [c \in AiCalls |-> Spare(a, asking[c])]
<1>1. \A c \in AiCalls : f[c] \in Nat /\ g[c] \in Nat /\ f[c] <= g[c] /\ g[c] <= Most
  BY OwedType
<1>2. OwedBy(a) = SumFunctionOnSet(f, AiCalls) /\ Room(a) = SumFunctionOnSet(g, AiCalls)
  BY DEF OwedBy, Room, SumFunction
<1> HIDE DEF f, g
<1>3. IsFiniteSet(AiCalls)
  BY AiBudgetAssumption
<1>4. SumFunctionOnSet(f, AiCalls) \in Nat /\ SumFunctionOnSet(g, AiCalls) \in Nat
  BY <1>1, <1>3, SumNat
<1>5. \A c \in AiCalls : f[c] \in Int /\ g[c] \in Int /\ f[c] <= g[c]
  BY <1>1
<1>6. SumFunctionOnSet(f, AiCalls) <= SumFunctionOnSet(g, AiCalls)
  BY <1>3, <1>5, SumMonotone
<1>7. Most \in Int
  BY MostTokens
<1>8. \A c \in AiCalls : g[c] \in Int /\ g[c] <= Most
  BY <1>1
<1>9. SumFunctionOnSet(g, AiCalls) <= Cardinality(AiCalls) * Most
  BY <1>3, <1>7, <1>8, SumBound
<1> QED
  BY <1>2, <1>4, <1>6, <1>9

\* What a call's step does to the sums.
LEMMA CallMoves ==
  ASSUME asking \in [AiCalls -> CallStates], NEW c \in AiCalls, NEW n \in CallStates,
         asking' = [asking EXCEPT ![c] = n], NEW a \in Accounts
  PROVE  /\ OwedBy(a)' = OwedBy(a) - Owed(a, asking[c]) + Owed(a, n)
         /\ Room(a)' = Room(a) - Spare(a, asking[c]) + Spare(a, n)
         /\ OwedBy(a) \in Nat /\ Room(a) \in Nat /\ OwedBy(a)' \in Nat /\ Room(a)' \in Nat
         /\ OwedBy(a)' <= Room(a)'
<1> DEFINE f == [d \in AiCalls |-> Owed(a, asking[d])]
           ff == [d \in AiCalls |-> Owed(a, asking'[d])]
           g == [d \in AiCalls |-> Spare(a, asking[d])]
           gg == [d \in AiCalls |-> Spare(a, asking'[d])]
<1>0. asking' \in [AiCalls -> CallStates] /\ asking'[c] = n /\ \A d \in AiCalls : d # c => asking'[d] = asking[d]
  OBVIOUS
<1>1. \A d \in AiCalls : f[d] \in Nat /\ g[d] \in Nat /\ ff[d] \in Nat /\ gg[d] \in Nat
  BY <1>0, OwedType
<1>2. \A d \in AiCalls \ {c} : ff[d] = f[d] /\ gg[d] = g[d]
  BY <1>0
<1>3. f[c] = Owed(a, asking[c]) /\ ff[c] = Owed(a, n) /\ g[c] = Spare(a, asking[c]) /\ gg[c] = Spare(a, n)
  BY <1>0
<1>4. OwedBy(a) = SumFunctionOnSet(f, AiCalls) /\ Room(a) = SumFunctionOnSet(g, AiCalls)
  BY DEF OwedBy, Room, SumFunction
<1>5. OwedBy(a)' = SumFunctionOnSet(ff, AiCalls) /\ Room(a)' = SumFunctionOnSet(gg, AiCalls)
  BY DEF OwedBy, Room, SumFunction
<1>12. \A d \in AiCalls : ff[d] \in Int /\ gg[d] \in Int /\ ff[d] <= gg[d]
  BY <1>0, OwedType
<1> HIDE DEF f, ff, g, gg
<1>6. IsFiniteSet(AiCalls)
  BY AiBudgetAssumption
<1>7. (\A d \in AiCalls : f[d] \in Int /\ ff[d] \in Int) /\ \A d \in AiCalls \ {c} : ff[d] = f[d]
  BY <1>1, <1>2
<1>8. SumFunctionOnSet(ff, AiCalls) = SumFunctionOnSet(f, AiCalls) - f[c] + ff[c]
  BY <1>6, <1>7, SumChange
<1>11. (\A d \in AiCalls : g[d] \in Int /\ gg[d] \in Int) /\ \A d \in AiCalls \ {c} : gg[d] = g[d]
  BY <1>1, <1>2
<1>9. SumFunctionOnSet(gg, AiCalls) = SumFunctionOnSet(g, AiCalls) - g[c] + gg[c]
  BY <1>6, <1>11, SumChange
<1>10. /\ SumFunctionOnSet(f, AiCalls) \in Nat /\ SumFunctionOnSet(ff, AiCalls) \in Nat
       /\ SumFunctionOnSet(g, AiCalls) \in Nat /\ SumFunctionOnSet(gg, AiCalls) \in Nat
  BY <1>1, <1>6, SumNat
<1>13. SumFunctionOnSet(ff, AiCalls) <= SumFunctionOnSet(gg, AiCalls)
  BY <1>6, <1>12, SumMonotone
<1> QED
  BY <1>3, <1>4, <1>5, <1>8, <1>9, <1>10, <1>13

LEMMA RoomBound ==
  ASSUME asking' \in [AiCalls -> CallStates], NEW a \in Accounts
  PROVE  Room(a)' <= Cardinality(AiCalls) * Most
<1> DEFINE gg == [c \in AiCalls |-> Spare(a, asking'[c])]
<1>1. \A c \in AiCalls : gg[c] \in Int /\ gg[c] <= Most
  BY OwedType
<1>2. Room(a)' = SumFunctionOnSet(gg, AiCalls)
  BY DEF Room, SumFunction
<1> HIDE DEF gg
<1>3. IsFiniteSet(AiCalls) /\ Most \in Int
  BY AiBudgetAssumption, MostTokens
<1> QED
  BY <1>1, <1>2, <1>3, SumBound

LEMMA CallsTyped ==
  ASSUME BudgetInv
  PROVE  /\ asking \in [AiCalls -> CallStates]
         /\ \A a \in Accounts : /\ used[a] \in Nat /\ usage[a] \in Seq(Nat) /\ Booked(a)
                                /\ OwedBy(a) \in Nat /\ Room(a) \in Nat
                                /\ OwedBy(a) <= Room(a) /\ Room(a) <= Cardinality(AiCalls) * Most
<1>1. asking \in [AiCalls -> CallStates]
  BY DEF BudgetInv, BudgetTyped
<1>2. \A a \in Accounts : used[a] \in Nat /\ usage[a] \in Seq(Nat) /\ Booked(a)
  BY AiBudgetAssumption DEF BudgetInv, BudgetTyped
<1> QED
  BY <1>1, <1>2, SumsType

\* A day's books stay in order when nothing is used or written, no more is owed, as much
\* is unless the day is uncounted, and the room does not shrink.
LEMMA BookedKept ==
  ASSUME BudgetInv, NEW a \in Accounts, used'[a] = used[a], usage'[a] = usage[a], today' = today,
         uncounted \subseteq uncounted', OwedBy(a)' \in Nat, Room(a)' \in Nat,
         OwedBy(a)' <= OwedBy(a), a \notin uncounted' => OwedBy(a)' = OwedBy(a),
         a[2] = today => Room(a)' >= Room(a)
  PROVE  Booked(a)'
<1>1. /\ used[a] \in Nat /\ usage[a] \in Seq(Nat) /\ Booked(a) /\ OwedBy(a) \in Nat /\ Room(a) \in Nat
  BY CallsTyped
<1>2. \A k \in DOMAIN usage[a] : usage[a][k] \in Nat
  BY <1>1
<1>3. RowsUnder(a)'
  BY <1>1, <1>2 DEF Booked, RowsUnder
<1>4. ASSUME a \notin uncounted'
      PROVE  /\ Len(usage'[a]) <= 1
             /\ RowOf(a)' + OwedBy(a)' = used'[a]
             /\ Bounded(a)'
  <2>1. RowOf(a)' = RowOf(a) /\ (Bounded(a)' <=> Bounded(a)) /\ a \notin uncounted
    BY <1>4 DEF RowOf, Bounded
  <2> QED
    BY <2>1, <1>1, <1>4 DEF Booked
<1>5. ASSUME a \notin uncounted', a[2] = today PROVE used'[a] <= TokenLimit - 1 + Room(a)'
  <2>1. used[a] <= TokenLimit - 1 + Room(a)
    BY <1>1, <1>5 DEF Booked
  <2>2. TokenLimit \in Int
    BY AiBudgetAssumption
  <2> QED
    BY <2>1, <2>2, <1>1, <1>5
<1>6. a[2] > today' => used'[a] = 0
  BY <1>1 DEF Booked
<1> QED
  BY <1>3, <1>4, <1>5, <1>6 DEF Booked

LEMMA BudgetInit_Inv == BudgetInit => BudgetInv
<1> SUFFICES ASSUME BudgetInit PROVE BudgetInv
  OBVIOUS
<1> USE DEF BudgetInit
<1>1. NoCall \in CallStates /\ NoCall.at = "idle"
  BY DEF NoCall, CallStates
<1>2. BudgetTyped
  BY <1>1, AiBudgetAssumption DEF BudgetTyped, Days
<1>3. ASSUME NEW c \in AiCalls PROVE CallWell(c)
  BY <1>1 DEF CallWell
<1>4. ASSUME NEW a \in Accounts PROVE Booked(a)
  <2>1. OwedBy(a) \in Nat /\ Room(a) \in Nat /\ Room(a) <= Cardinality(AiCalls) * Most
    BY <1>2, SumsType DEF BudgetTyped
  <2>2. OwedBy(a) = 0
    <3> DEFINE f == [c \in AiCalls |-> Owed(a, asking[c])]
    <3>1. \A c \in AiCalls : f[c] = 0
      BY <1>1 DEF Owed
    <3>2. OwedBy(a) = SumFunctionOnSet(f, AiCalls)
      BY DEF OwedBy, SumFunction
    <3> HIDE DEF f
    <3>3. \A c \in AiCalls : f[c] \in Int /\ f[c] <= 0
      BY <3>1
    <3>4. IsFiniteSet(AiCalls) /\ 0 \in Int
      BY AiBudgetAssumption
    <3>5. SumFunctionOnSet(f, AiCalls) <= Cardinality(AiCalls) * 0
      BY <3>3, <3>4, SumBound
    <3>6. Cardinality(AiCalls) \in Nat
      BY <3>4, FS_CardinalityType
    <3> QED
      BY <2>1, <3>2, <3>5, <3>6
  <2>3. usage[a] = <<>> /\ used[a] = 0 /\ Len(usage[a]) = 0 /\ DOMAIN usage[a] = {}
    OBVIOUS
  <2>4. Bounded(a)
    <3>1. 0 <= Cardinality(AiCalls) * Most
      <4>1. Cardinality(AiCalls) \in Nat /\ Most \in Nat
        BY AiBudgetAssumption, FS_CardinalityType, MostTokens
      <4> QED
        BY <4>1
    <3>2. Cardinality(AiCalls) * Most \in Int
      BY AiBudgetAssumption, FS_CardinalityType, MostTokens
    <3> QED
      BY <2>3, <3>1, <3>2, AiBudgetAssumption DEF Bounded
  <2> QED
    BY <2>1, <2>2, <2>3, <2>4, AiBudgetAssumption DEF Booked, RowsUnder, RowOf
<1> QED
  BY <1>2, <1>3, <1>4 DEF BudgetInv

LEMMA Midnight_Inv == ASSUME BudgetInv, Midnight PROVE BudgetInv'
<1>1. today' = today + 1 /\ today < DayBound /\ UNCHANGED <<configured, usage, asking, used, uncounted>>
  BY DEF Midnight
<1>2. today \in Int /\ today' \in Days
  BY <1>1, AiBudgetAssumption DEF BudgetInv, BudgetTyped, Days
<1>3. BudgetTyped'
  BY <1>1, <1>2 DEF BudgetInv, BudgetTyped
<1>4. ASSUME NEW c \in AiCalls PROVE CallWell(c)'
  BY <1>1 DEF BudgetInv, CallWell
<1>5. ASSUME NEW a \in Accounts PROVE Booked(a)'
  <2>1. /\ used[a] \in Nat /\ Booked(a) /\ OwedBy(a) \in Nat /\ Room(a) \in Nat /\ a[2] \in Int
    BY CallsTyped DEF Accounts, Days
  <2>2. OwedBy(a)' = OwedBy(a) /\ Room(a)' = Room(a) /\ RowOf(a)' = RowOf(a)
        /\ (Bounded(a)' <=> Bounded(a)) /\ used' = used /\ usage' = usage
    BY <1>1 DEF OwedBy, Room, RowOf, Bounded
  <2>3. RowsUnder(a)'
    BY <2>1, <2>2 DEF Booked, RowsUnder
  <2>4. a[2] > today' => used'[a] = 0
    BY <2>1, <1>1, <1>2 DEF Booked
  <2>5. a[2] = today' => used'[a] <= TokenLimit - 1 + Room(a)'
    <3> SUFFICES ASSUME a[2] = today' PROVE used'[a] <= TokenLimit - 1 + Room(a)'
      OBVIOUS
    <3>1. a[2] > today
      BY <1>1, <1>2
    <3>2. used[a] = 0
      BY <2>1, <3>1 DEF Booked
    <3> QED
      BY <2>1, <2>2, <3>2, AiBudgetAssumption
  <2> QED
    BY <2>1, <2>2, <2>3, <2>4, <2>5, <1>1 DEF Booked
<1> QED
  BY <1>3, <1>4, <1>5 DEF BudgetInv

\* A call that goes on without using or writing anything, owing what it owed (or leaving
\* the day uncounted), and leaving as much room.
LEMMA CallGoesOn ==
  ASSUME BudgetInv, NEW c \in AiCalls, NEW n \in CallStates, asking' = [asking EXCEPT ![c] = n],
         UNCHANGED <<today, configured, usage, used>>,
         uncounted \subseteq uncounted', uncounted' \subseteq Accounts,
         n.at # "idle" => n.account \in Accounts,
         n.at = "incrementing" => n.row \in DOMAIN usage[n.account],
         \A a \in Accounts : /\ Owed(a, n) <= Owed(a, asking[c])
                             /\ a \notin uncounted' => Owed(a, n) = Owed(a, asking[c])
                             /\ a[2] = today => Spare(a, n) >= Spare(a, asking[c])
  PROVE  BudgetInv'
<1>1. asking' \in [AiCalls -> CallStates] /\ asking'[c] = n /\ asking[c] \in CallStates
      /\ \A d \in AiCalls : d # c => asking'[d] = asking[d]
  BY CallsTyped
<1>2. BudgetTyped'
  BY <1>1 DEF BudgetInv, BudgetTyped
<1>3. ASSUME NEW d \in AiCalls PROVE CallWell(d)'
  <2>1. CASE d = c
    BY <1>1, <2>1 DEF CallWell
  <2>2. CASE d # c
    BY <1>1, <2>2 DEF CallWell, BudgetInv
  <2> QED
    BY <2>1, <2>2
<1>4. ASSUME NEW a \in Accounts PROVE Booked(a)'
  <2>1. /\ OwedBy(a)' = OwedBy(a) - Owed(a, asking[c]) + Owed(a, n)
        /\ Room(a)' = Room(a) - Spare(a, asking[c]) + Spare(a, n)
        /\ OwedBy(a) \in Nat /\ Room(a) \in Nat /\ OwedBy(a)' \in Nat /\ Room(a)' \in Nat
    BY CallsTyped, CallMoves
  <2>2. Owed(a, n) \in Nat /\ Owed(a, asking[c]) \in Nat /\ Spare(a, n) \in Nat /\ Spare(a, asking[c]) \in Nat
    BY <1>1, OwedType
  <2>3. OwedBy(a)' <= OwedBy(a) /\ (a \notin uncounted' => OwedBy(a)' = OwedBy(a))
        /\ (a[2] = today => Room(a)' >= Room(a))
    BY <2>1, <2>2
  <2> QED
    BY <2>1, <2>3, BookedKept
<1> QED
  BY <1>2, <1>3, <1>4 DEF BudgetInv

LEMMA AskAI_Inv == ASSUME BudgetInv, NEW c \in AiCalls, NEW u \in AiUsers, AskAI(c, u) PROVE BudgetInv'
<1> DEFINE n == [at |-> "checking", account |-> <<u, today>>, row |-> Unread, tokens |-> 0]
<1>1. /\ asking[c] = NoCall /\ UNCHANGED <<today, configured, usage, used, uncounted>>
      /\ asking' = [asking EXCEPT ![c].at = "checking", ![c].account = <<u, today>>]
  BY DEF AskAI
<1>2. asking' = [asking EXCEPT ![c] = n]
  <2>1. ASSUME NEW x, x = [NoCall EXCEPT !.at = "checking", !.account = <<u, today>>] PROVE x = n
    BY <2>1 DEF NoCall
  <2> HIDE DEF n
  <2>2. asking' = [asking EXCEPT ![c] = [asking[c] EXCEPT !.at = "checking", !.account = <<u, today>>]]
    BY <1>1
  <2> QED
    BY <1>1, <2>1, <2>2
<1>3. <<u, today>> \in Accounts
  BY DEF BudgetInv, BudgetTyped, Accounts
<1>4. n \in CallStates /\ n.at = "checking" /\ n.account = <<u, today>>
  BY <1>3 DEF CallStates
<1> HIDE DEF n
<1>5. ASSUME NEW a \in Accounts
      PROVE  /\ Owed(a, n) <= Owed(a, asking[c])
             /\ a \notin uncounted' => Owed(a, n) = Owed(a, asking[c])
             /\ a[2] = today => Spare(a, n) >= Spare(a, asking[c])
  <2>1. Owed(a, n) = 0 /\ Owed(a, asking[c]) = 0
    BY <1>1, <1>4 DEF Owed, NoCall
  <2>2. a[2] = today => ~ Unlooked(a, n)
    <3>1. a = <<a[1], a[2]>>
      BY DEF Accounts
    <3> QED
      BY <3>1, <1>4 DEF Unlooked, Providers
  <2>3. Spare(a, asking[c]) <= Most /\ Spare(a, asking[c]) \in Nat
    BY CallsTyped, OwedType
  <2>4. a[2] = today => Spare(a, n) = Most
    BY <2>2 DEF Spare
  <2> QED
    BY <2>1, <2>3, <2>4, MostTokens
<1> QED
  BY <1>1, <1>2, <1>3, <1>4, <1>5, CallGoesOn DEF BudgetInv, BudgetTyped

\* A call that ends owes nothing and leaves all the room.
LEMMA NoCallOwes ==
  /\ NoCall \in CallStates /\ NoCall.at = "idle"
  /\ \A a \in Accounts : Owed(a, NoCall) = 0 /\ Spare(a, NoCall) = Most
BY DEF NoCall, CallStates, Owed, Spare, Unlooked, Providers

LEMMA CallEnds ==
  ASSUME BudgetInv, NEW c \in AiCalls, asking' = [asking EXCEPT ![c] = NoCall],
         UNCHANGED <<today, configured, usage, used>>,
         uncounted \subseteq uncounted', uncounted' \subseteq Accounts,
         \A a \in Accounts : a \notin uncounted' => Owed(a, asking[c]) = 0
  PROVE  BudgetInv'
<1>1. ASSUME NEW a \in Accounts
      PROVE  /\ Owed(a, NoCall) <= Owed(a, asking[c])
             /\ a \notin uncounted' => Owed(a, NoCall) = Owed(a, asking[c])
             /\ a[2] = today => Spare(a, NoCall) >= Spare(a, asking[c])
  <2>1. /\ Owed(a, asking[c]) \in Nat /\ Spare(a, asking[c]) \in Nat /\ Spare(a, asking[c]) <= Most
    BY CallsTyped, OwedType
  <2> QED
    BY <2>1, NoCallOwes, MostTokens
<1> QED
  BY <1>1, NoCallOwes, CallGoesOn

LEMMA CheckDailyBudget_Inv == ASSUME BudgetInv, NEW c \in AiCalls, CheckDailyBudget(c) PROVE BudgetInv'
<1> DEFINE b == asking[c].account
           n == [asking[c] EXCEPT !.at = FirstProvider]
<1>1. asking[c] \in CallStates /\ asking[c].at = "checking" /\ b \in Accounts
      /\ UNCHANGED <<today, configured, usage, used, uncounted>>
  BY CallsTyped DEF CheckDailyBudget, BudgetInv, CallWell
<1>2. PICK kept \in RowsRead(b) :
         asking' = [asking EXCEPT ![c] = IF LimitReached(b, kept) THEN NoCall ELSE n]
  BY <1>1 DEF CheckDailyBudget
<1>3. \A a \in Accounts : Owed(a, asking[c]) = 0
  BY <1>1 DEF Owed
<1>4. CASE LimitReached(b, kept)
  <2>1. asking' = [asking EXCEPT ![c] = NoCall]
    BY <1>2, <1>4
  <2> QED
    BY <2>1, <1>1, <1>3, CallEnds DEF BudgetInv, BudgetTyped
<1>5. CASE ~LimitReached(b, kept)
  <2>1. n \in CallStates /\ n.at \in Providers /\ n.account = b
    BY <1>1 DEF CallStates, FirstProvider, Providers
  <2>2. asking' = [asking EXCEPT ![c] = n]
    BY <1>2, <1>5
  <2> HIDE DEF n
  <2>3. asking' \in [AiCalls -> CallStates] /\ asking'[c] = n
        /\ \A d \in AiCalls : d # c => asking'[d] = asking[d]
    BY <2>1, <2>2, CallsTyped
  <2>4. BudgetTyped'
    BY <2>3, <1>1 DEF BudgetInv, BudgetTyped
  <2>5. ASSUME NEW d \in AiCalls PROVE CallWell(d)'
    <3>1. CASE d = c
      BY <1>1, <2>1, <2>3, <3>1 DEF CallWell, Providers
    <3>2. CASE d # c
      BY <1>1, <2>3, <3>2 DEF CallWell, BudgetInv
    <3> QED
      BY <3>1, <3>2
  <2>6. ASSUME NEW a \in Accounts PROVE Booked(a)'
    <3>1. /\ OwedBy(a)' = OwedBy(a) - Owed(a, asking[c]) + Owed(a, n)
          /\ Room(a)' = Room(a) - Spare(a, asking[c]) + Spare(a, n)
          /\ OwedBy(a) \in Nat /\ Room(a) \in Nat /\ OwedBy(a)' \in Nat /\ Room(a)' \in Nat
      BY <2>1, <2>2, CallsTyped, CallMoves
    <3>2. Owed(a, n) = 0
      BY <2>1 DEF Owed, Providers
    <3>3. OwedBy(a)' = OwedBy(a)
      BY <1>3, <3>1, <3>2
    <3>4. CASE a # b
      <4>1. Spare(a, n) = Spare(a, asking[c])
        BY <1>1, <2>1, <3>4 DEF Spare, Unlooked, Providers
      <4>2. Spare(a, n) \in Nat
        BY <2>1, OwedType
      <4>3. Room(a)' = Room(a)
        BY <3>1, <4>1, <4>2
      <4> QED
        BY <1>1, <3>1, <3>3, <4>3, BookedKept
    <3>5. CASE a = b
      <4>1. used[a] \in Nat /\ usage[a] \in Seq(Nat) /\ Booked(a)
        BY CallsTyped
      <4>2. OwedBy(a)' <= Room(a)'
        BY <2>1, <2>2, CallsTyped, CallMoves
      <4>3. a \notin uncounted => RowOf(a) <= TokenLimit - 1 /\ RowOf(a) \in Nat
        <5> SUFFICES ASSUME a \notin uncounted PROVE RowOf(a) <= TokenLimit - 1 /\ RowOf(a) \in Nat
          OBVIOUS
        <5>1. CASE usage[a] = <<>>
          BY <5>1, AiBudgetAssumption DEF RowOf
        <5>2. CASE usage[a] # <<>>
          <6>0. Len(usage[a]) <= 1
            BY <4>1 DEF Booked
          <6>1. Len(usage[a]) = 1 /\ DOMAIN usage[a] = 1 .. 1 /\ usage[a][1] \in Nat
            BY <4>1, <5>2, <6>0, RowsOfDay
          <6>2. kept \in DOMAIN usage[a]
            BY <5>2, <3>5 DEF RowsRead
          <6>3. kept = 1
            BY <6>1, <6>2
          <6>4. kept # Unread
            BY <6>3, AiBudgetAssumption
          <6>5. ~ (usage[a][kept] >= TokenLimit)
            BY <6>4, <1>5, <3>5 DEF LimitReached
          <6>6. usage[a][1] <= TokenLimit - 1
            BY <6>1, <6>3, <6>5, AiBudgetAssumption
          <6> QED
            BY <5>2, <6>1, <6>6 DEF RowOf
        <5> QED
          BY <5>1, <5>2
      <4>4. used' = used /\ usage' = usage /\ today' = today /\ uncounted' = uncounted
            /\ RowOf(a)' = RowOf(a) /\ (Bounded(a)' <=> Bounded(a))
        BY <1>1 DEF RowOf, Bounded
      <4>5. a \notin uncounted => used[a] <= TokenLimit - 1 + Room(a)'
        <5> SUFFICES ASSUME a \notin uncounted PROVE used[a] <= TokenLimit - 1 + Room(a)'
          OBVIOUS
        <5>1. used[a] = RowOf(a) + OwedBy(a)
          BY <4>1 DEF Booked
        <5>2. RowOf(a) <= TokenLimit - 1 /\ RowOf(a) \in Nat
          BY <4>3
        <5> QED
          BY <5>1, <5>2, <4>2, <3>1, <3>3, AiBudgetAssumption
      <4>6. RowsUnder(a)'
        BY <4>1, <4>4, <3>3 DEF Booked, RowsUnder
      <4> QED
        BY <4>1, <4>4, <4>5, <4>6, <3>3 DEF Booked
    <3> QED
      BY <3>4, <3>5
  <2> QED
    BY <2>4, <2>5, <2>6 DEF BudgetInv
<1> QED
  BY <1>4, <1>5

LEMMA ProviderFails_Inv ==
  ASSUME BudgetInv, NEW c \in AiCalls, OpenRouterFails(c) \/ AnthropicFails(c) PROVE BudgetInv'
<1>1. asking[c] \in CallStates /\ asking[c].at \in Providers /\ asking[c].account \in Accounts
      /\ UNCHANGED <<today, configured, usage, used, uncounted>>
  BY CallsTyped DEF OpenRouterFails, AnthropicFails, Providers, BudgetInv, CallWell
<1>2. \A a \in Accounts : Owed(a, asking[c]) = 0
  BY <1>1 DEF Owed, Providers
<1>3. CASE asking' = [asking EXCEPT ![c] = NoCall]
  BY <1>1, <1>2, <1>3, CallEnds DEF BudgetInv, BudgetTyped
<1>4. CASE asking' = [asking EXCEPT ![c] = [@ EXCEPT !.at = "anthropic"]]
  <2> DEFINE n == [asking[c] EXCEPT !.at = "anthropic"]
  <2>1. n \in CallStates /\ n.at = "anthropic" /\ n.account = asking[c].account
    BY <1>1 DEF CallStates, Providers
  <2>2. asking' = [asking EXCEPT ![c] = n]
    BY <1>4
  <2> HIDE DEF n
  <2>3. ASSUME NEW a \in Accounts
        PROVE  /\ Owed(a, n) <= Owed(a, asking[c])
               /\ a \notin uncounted' => Owed(a, n) = Owed(a, asking[c])
               /\ a[2] = today => Spare(a, n) >= Spare(a, asking[c])
    <3>1. Owed(a, n) = 0 /\ Owed(a, asking[c]) = 0
      BY <1>2, <2>1 DEF Owed
    <3>2. Spare(a, n) = Spare(a, asking[c])
      BY <1>1, <2>1 DEF Spare, Unlooked, Providers
    <3>3. Spare(a, n) \in Nat
      BY <2>1, OwedType
    <3> QED
      BY <3>1, <3>2, <3>3
  <2> QED
    BY <1>1, <2>1, <2>2, <2>3, CallGoesOn DEF BudgetInv, BudgetTyped
<1> QED
  BY <1>3, <1>4 DEF OpenRouterFails, AnthropicFails

LEMMA AiAnswered_Inv ==
  ASSUME BudgetInv, NEW c \in AiCalls, NEW t \in AnswerSizes, Answered(c, t) PROVE BudgetInv'
<1> DEFINE b == <<asking[c].account[1], today>>
           n == [at |-> "recording", account |-> b, row |-> Unread, tokens |-> t]
<1>1. asking[c] \in CallStates /\ asking[c].at \in Providers /\ asking[c].account \in Accounts
      /\ UNCHANGED <<today, configured, usage>> /\ today \in Days
  BY CallsTyped DEF Answered, Providers, BudgetInv, BudgetTyped, CallWell
<1>2. b \in Accounts
  BY <1>1 DEF Accounts
<1>3. /\ used[b] + t <= SpentBound
      /\ used' = [used EXCEPT ![b] = @ + t]
      /\ \/ asking' = [asking EXCEPT ![c] = n] /\ uncounted' = uncounted
         \/ asking' = [asking EXCEPT ![c] = NoCall] /\ uncounted' = uncounted \cup {b}
  <2>1. ASSUME NEW x, x = [NoCall EXCEPT !.at = "recording", !.account = b, !.tokens = t] PROVE x = n
    BY <2>1 DEF NoCall
  <2> HIDE DEF n
  <2> QED
    BY <2>1 DEF Answered
<1>4. n \in CallStates /\ n.at = "recording" /\ n.account = b /\ n.tokens = t
  BY <1>2 DEF CallStates
<1>5. \A a \in Accounts : /\ Owed(a, n) = IF a = b THEN t ELSE 0
                          /\ Spare(a, n) = Most
                          /\ Owed(a, asking[c]) = 0
  BY <1>1, <1>4 DEF Owed, Spare, Unlooked, Providers
<1>6. Spare(b, asking[c]) = 0
  BY <1>1 DEF Spare, Unlooked
<1> HIDE DEF n
<1>7. PICK m \in {n, NoCall} : asking' = [asking EXCEPT ![c] = m] /\ (m = n => uncounted' = uncounted)
                              /\ (m # n => uncounted' = uncounted \cup {b})
  <2>1. n # NoCall
    BY <1>4, NoCallOwes
  <2> QED
    BY <2>1, <1>3
<1>8. m \in CallStates /\ m.at \in {"recording", "idle"} /\ (m.at # "idle" => m.account \in Accounts)
      /\ (\A a \in Accounts : Spare(a, m) = Most /\ (a # b => Owed(a, m) = 0))
      /\ (m = n => Owed(b, m) = t) /\ (m # n => Owed(b, m) = 0)
  BY <1>2, <1>4, <1>5, NoCallOwes
<1>9. t \in Nat /\ t <= Most
  BY MostTokens
<1> HIDE DEF b
<1>10. used[b] \in Nat /\ used'[b] = used[b] + t /\ used' \in [Accounts -> 0 .. SpentBound]
       /\ \A a \in Accounts : a # b => used'[a] = used[a]
  BY <1>2, <1>3, <1>9, AiBudgetAssumption DEF BudgetInv, BudgetTyped
<1>11. asking' \in [AiCalls -> CallStates] /\ asking'[c] = m
       /\ \A d \in AiCalls : d # c => asking'[d] = asking[d]
  BY <1>7, <1>8, CallsTyped
<1>12. BudgetTyped'
  BY <1>1, <1>2, <1>7, <1>10, <1>11 DEF BudgetInv, BudgetTyped
<1>13. ASSUME NEW d \in AiCalls PROVE CallWell(d)'
  <2>1. CASE d = c
    BY <1>8, <1>11, <2>1 DEF CallWell
  <2>2. CASE d # c
    BY <1>1, <1>11, <2>2 DEF CallWell, BudgetInv
  <2> QED
    BY <2>1, <2>2
<1>14. ASSUME NEW a \in Accounts PROVE Booked(a)'
  <2>1. /\ OwedBy(a)' = OwedBy(a) - Owed(a, asking[c]) + Owed(a, m)
        /\ Room(a)' = Room(a) - Spare(a, asking[c]) + Spare(a, m)
        /\ OwedBy(a) \in Nat /\ Room(a) \in Nat /\ OwedBy(a)' \in Nat /\ Room(a)' \in Nat
    BY <1>7, <1>8, CallsTyped, CallMoves
  <2>2. CASE a # b
    <3>1. OwedBy(a)' = OwedBy(a)
      BY <2>1, <2>2, <1>5, <1>8
    <3>2. Room(a)' >= Room(a)
      <4>1. Spare(a, asking[c]) <= Most /\ Spare(a, asking[c]) \in Nat
        BY <1>1, OwedType
      <4> QED
        BY <4>1, <2>1, <1>8, MostTokens
    <3> QED
      BY <1>1, <1>7, <1>10, <2>1, <2>2, <3>1, <3>2, BookedKept
  <2>3. CASE a = b
    <3>1. used[a] \in Nat /\ usage[a] \in Seq(Nat) /\ Booked(a) /\ a[2] = today
          /\ Room(a)' <= Cardinality(AiCalls) * Most
      <4>1. Room(a)' <= Cardinality(AiCalls) * Most
        BY <1>11, RoomBound
      <4> QED
        BY <2>3, <4>1, CallsTyped DEF b
    <3>2. usage' = usage /\ today' = today /\ RowOf(a)' = RowOf(a)
      BY <1>1 DEF RowOf
    <3>3. \A k \in DOMAIN usage[a] : usage[a][k] \in Nat
      BY <3>1
    <3>4. OwedBy(a)' <= OwedBy(a) + t
      BY <2>1, <2>3, <1>5, <1>8, <1>9
    <3>5. RowsUnder(a)'
      <4>1. RowsUnder(a)
        BY <3>1 DEF Booked
      <4>2. OwedBy(a)' <= used'[a]
        BY <4>1, <3>1, <3>4, <2>1, <1>9, <1>10, <2>3 DEF RowsUnder
      <4>3. ASSUME NEW k \in DOMAIN usage[a] PROVE usage[a][k] + OwedBy(a)' <= used'[a]
        <5>1. usage[a][k] + OwedBy(a) <= used[a] /\ usage[a][k] \in Nat
          BY <4>1, <3>3 DEF RowsUnder
        <5> QED
          BY <5>1, <3>1, <3>4, <2>1, <1>9, <1>10, <2>3
      <4> QED
        BY <4>2, <4>3, <3>2 DEF RowsUnder
    <3>6. ASSUME a \notin uncounted'
          PROVE  /\ Len(usage'[a]) <= 1 /\ RowOf(a)' + OwedBy(a)' = used'[a]
                 /\ Bounded(a)' /\ used'[a] <= TokenLimit - 1 + Room(a)'
      <4>1. m = n /\ a \notin uncounted
        BY <1>7, <2>3, <3>6
      <4>2. OwedBy(a)' = OwedBy(a) + t
        BY <4>1, <2>1, <2>3, <1>5, <1>8, <1>9
      <4>3. Room(a)' = Room(a) + Most
        BY <2>1, <2>3, <1>6, <1>8, MostTokens
      <4>4. used[a] <= TokenLimit - 1 + Room(a) /\ Len(usage[a]) <= 1 /\ RowOf(a) + OwedBy(a) = used[a]
        BY <3>1, <4>1 DEF Booked
      <4>5. used'[a] <= TokenLimit - 1 + Room(a)'
        BY <4>3, <4>4, <1>9, <1>10, <2>1, <2>3, <3>1, MostTokens, AiBudgetAssumption
      <4>6. RowOf(a) \in Int
        <5>1. usage[a] # <<>> => usage[a][1] \in Nat
          BY <3>1, EmptySeq
        <5> QED
          BY <5>1 DEF RowOf
      <4>7. RowOf(a)' + OwedBy(a)' = used'[a]
        BY <4>2, <4>4, <4>6, <1>9, <1>10, <2>1, <2>3, <3>1, <3>2
      <4>8. Bounded(a)'
        <5>1. Cardinality(AiCalls) * Most \in Int
          BY AiBudgetAssumption, FS_CardinalityType, MostTokens
        <5>2. used'[a] \in Int
          BY <1>10, <1>9, <2>3
        <5> QED
          BY <4>5, <5>1, <5>2, <3>1, <2>1, AiBudgetAssumption DEF Bounded
      <4> QED
        BY <4>4, <4>5, <4>7, <4>8, <3>2
    <3>7. ~ (a[2] > today')
      BY <3>1, <3>2, <1>1 DEF Days
    <3> QED
      BY <3>5, <3>6, <3>7 DEF Booked
  <2> QED
    BY <2>2, <2>3
<1> QED
  BY <1>12, <1>13, <1>14 DEF BudgetInv

LEMMA FindUsage_Inv == ASSUME BudgetInv, NEW c \in AiCalls, FindUsage(c) PROVE BudgetInv'
<1> DEFINE b == asking[c].account
<1>1. asking[c] \in CallStates /\ asking[c].at = "recording" /\ b \in Accounts
      /\ UNCHANGED <<today, configured, usage, used, uncounted>>
  BY CallsTyped DEF FindUsage, BudgetInv, CallWell
<1>2. PICK kept \in RowsRead(b) :
         asking' = [asking EXCEPT ![c].at = IF kept = Unread THEN "creating" ELSE "incrementing", ![c].row = kept]
  BY DEF FindUsage
<1> DEFINE n == [asking[c] EXCEPT !.at = IF kept = Unread THEN "creating" ELSE "incrementing", !.row = kept]
<1>3. usage[b] \in Seq(Nat) /\ (kept = Unread \/ (kept \in DOMAIN usage[b] /\ kept \in Nat))
  <2>1. usage[b] \in Seq(Nat)
    BY <1>1, CallsTyped
  <2>2. \A k \in DOMAIN usage[b] : k \in Nat
    BY <2>1, RowsOfDay
  <2> QED
    BY <2>1, <2>2 DEF RowsRead
<1>4. n \in CallStates /\ n.at \in {"creating", "incrementing"} /\ n.account = b /\ n.tokens = asking[c].tokens
      /\ n.row = kept /\ (n.at = "incrementing" => kept # Unread)
  BY <1>1, <1>3 DEF CallStates
<1>5. asking' = [asking EXCEPT ![c] = n]
  BY <1>2
<1> HIDE DEF n
<1>6. ASSUME NEW a \in Accounts
      PROVE  /\ Owed(a, n) <= Owed(a, asking[c])
             /\ a \notin uncounted' => Owed(a, n) = Owed(a, asking[c])
             /\ a[2] = today => Spare(a, n) >= Spare(a, asking[c])
  <2>1. Owed(a, n) = Owed(a, asking[c])
    BY <1>1, <1>4 DEF Owed
  <2>2. Spare(a, n) = Most /\ Spare(a, asking[c]) = Most
    BY <1>1, <1>4 DEF Spare, Unlooked, Providers
  <2>3. Owed(a, n) \in Nat
    BY <1>4, OwedType
  <2> QED
    BY <2>1, <2>2, <2>3, MostTokens
<1>7. n.at = "incrementing" => n.row \in DOMAIN usage[n.account]
  BY <1>3, <1>4
<1> QED
  BY <1>1, <1>4, <1>5, <1>6, <1>7, CallGoesOn DEF BudgetInv, BudgetTyped

LEMMA RecordFails_Inv == ASSUME BudgetInv, NEW c \in AiCalls, RecordFails(c) PROVE BudgetInv'
<1>1. /\ asking[c].account \in Accounts /\ uncounted' = uncounted \cup {asking[c].account}
      /\ asking' = [asking EXCEPT ![c] = NoCall] /\ UNCHANGED <<today, configured, usage, used>>
  BY DEF RecordFails, BudgetInv, CallWell
<1>2. uncounted' \subseteq Accounts /\ uncounted \subseteq uncounted'
  BY <1>1 DEF BudgetInv, BudgetTyped
<1>3. \A a \in Accounts : a \notin uncounted' => Owed(a, asking[c]) = 0
  BY <1>1 DEF Owed
<1> QED
  BY <1>1, <1>2, <1>3, CallEnds

\* A step of the recording call that writes its day's rows: the day it writes is in order
\* again and every other day is as it was.
LEMMA RowsWritten ==
  ASSUME BudgetInv, NEW c \in AiCalls, NEW n \in CallStates, NEW rows \in Seq(Nat), NEW b \in Accounts,
         asking[c].account = b, n.account = b \/ n = NoCall,
         asking' = [asking EXCEPT ![c] = n], usage' = [usage EXCEPT ![b] = rows],
         asking[c].at \in {"creating", "incrementing"},
         n.at = "incrementing" => n.row \in DOMAIN rows, n.at \in {"idle", "incrementing"},
         DOMAIN usage[b] \subseteq DOMAIN rows,
         UNCHANGED <<today, configured, used>>,
         uncounted \subseteq uncounted', uncounted' \subseteq Accounts,
         Owed(b, n) <= Owed(b, asking[c]),
         \A k \in DOMAIN rows :
            \/ rows[k] = 0 /\ Owed(b, n) = Owed(b, asking[c])
            \/ k \in DOMAIN usage[b] /\ rows[k] + Owed(b, n) <= usage[b][k] + Owed(b, asking[c]),
         b \notin uncounted' =>
            /\ Len(rows) <= 1
            /\ (IF rows = <<>> THEN 0 ELSE rows[1]) + Owed(b, n) = RowOf(b) + Owed(b, asking[c])
  PROVE  BudgetInv'
<1>1. asking' \in [AiCalls -> CallStates] /\ asking'[c] = n /\ asking[c] \in CallStates
      /\ \A d \in AiCalls : d # c => asking'[d] = asking[d]
  BY CallsTyped
<1>2. usage' \in [Accounts -> Seq(Nat)] /\ usage'[b] = rows
      /\ \A a \in Accounts : a # b => usage'[a] = usage[a]
  BY DEF BudgetInv, BudgetTyped
<1>3. BudgetTyped'
  BY <1>1, <1>2 DEF BudgetInv, BudgetTyped
<1>4. ASSUME NEW d \in AiCalls PROVE CallWell(d)'
  <2>1. CASE d = c
    BY <1>1, <1>2, <2>1, NoCallOwes DEF CallWell
  <2>2. CASE d # c
    <3>1. CallWell(d) /\ asking'[d] = asking[d] /\ \A a \in Accounts : DOMAIN usage[a] \subseteq DOMAIN usage'[a]
      BY <1>1, <1>2, <2>2 DEF BudgetInv
    <3> QED
      BY <3>1 DEF CallWell
  <2> QED
    BY <2>1, <2>2
<1>5. \A a \in Accounts : Spare(a, n) = Most /\ Spare(a, asking[c]) = Most
                        /\ (a # b => Owed(a, n) = 0 /\ Owed(a, asking[c]) = 0)
  BY NoCallOwes DEF Spare, Unlooked, Providers, Owed
<1>6. ASSUME NEW a \in Accounts PROVE Booked(a)'
  <2>1. /\ OwedBy(a)' = OwedBy(a) - Owed(a, asking[c]) + Owed(a, n)
        /\ Room(a)' = Room(a) - Spare(a, asking[c]) + Spare(a, n)
        /\ OwedBy(a) \in Nat /\ Room(a) \in Nat /\ OwedBy(a)' \in Nat /\ Room(a)' \in Nat
    BY CallsTyped, CallMoves
  <2>2. Room(a)' = Room(a)
    BY <2>1, <1>5, MostTokens
  <2>3. CASE a # b
    <3>1. OwedBy(a)' = OwedBy(a)
      BY <2>1, <2>3, <1>5
    <3> QED
      BY <1>2, <2>1, <2>2, <2>3, <3>1, BookedKept
  <2>4. CASE a = b
    <3>1. used[b] \in Nat /\ usage[b] \in Seq(Nat) /\ Booked(b) /\ RowsUnder(b)
      BY CallsTyped DEF Booked
    <3>2. Owed(b, n) \in Nat /\ Owed(b, asking[c]) \in Nat
      BY <1>1, OwedType
    <3>0. OwedBy(b)' = OwedBy(b) - Owed(b, asking[c]) + Owed(b, n) /\ OwedBy(b) \in Nat /\ OwedBy(b)' \in Nat
      BY <2>1, <2>4
    <3>3. OwedBy(b)' <= OwedBy(b)
      BY <3>0, <3>2
    <3>4. ASSUME NEW k \in DOMAIN rows PROVE rows[k] + OwedBy(b)' <= used[b]
      <4>1. rows[k] \in Nat
        OBVIOUS
      <4>2. CASE rows[k] = 0
        BY <4>2, <2>1, <2>4, <3>1, <3>3 DEF RowsUnder
      <4>3. CASE k \in DOMAIN usage[b] /\ rows[k] + Owed(b, n) <= usage[b][k] + Owed(b, asking[c])
        <5>1. usage[b][k] \in Nat
          BY <3>1, <4>3, RowsOfDay
        <5>2. usage[b][k] + OwedBy(b) <= used[b]
          BY <3>1, <4>3 DEF RowsUnder
        <5>3. rows[k] + Owed(b, n) <= usage[b][k] + Owed(b, asking[c])
          BY <4>3
        <5>4. \A x, y, p, q, o, v \in Nat : x + p <= y + q /\ y + o <= v => x + (o - q + p) <= v
          OBVIOUS
        <5>5. rows[k] + (OwedBy(b) - Owed(b, asking[c]) + Owed(b, n)) <= used[b]
          BY <5>1, <5>2, <5>3, <5>4, <4>1, <3>0, <3>1, <3>2
        <5> QED
          BY <5>5, <3>0
      <4> QED
        BY <4>2, <4>3
    <3>5. RowsUnder(b)'
      <4>1. OwedBy(b)' <= used[b]
        BY <3>1, <3>3, <2>1, <2>4 DEF RowsUnder
      <4> QED
        BY <4>1, <3>4, <1>2 DEF RowsUnder
    <3>6. ASSUME b \notin uncounted'
          PROVE  Len(usage'[b]) <= 1 /\ RowOf(b)' + OwedBy(b)' = used'[b] /\ Bounded(b)'
                 /\ (b[2] = today => used'[b] <= TokenLimit - 1 + Room(b)')
      <4>1. RowOf(b) + OwedBy(b) = used[b] /\ Bounded(b) /\ (b[2] = today => used[b] <= TokenLimit - 1 + Room(b))
        BY <3>1, <3>6 DEF Booked
      <4>2. RowOf(b)' = IF rows = <<>> THEN 0 ELSE rows[1]
        BY <1>2 DEF RowOf
      <4>3. RowOf(b) \in Nat /\ RowOf(b)' \in Nat
        <5>1. usage[b] # <<>> => usage[b][1] \in Nat
          BY <3>1, EmptySeq
        <5>2. rows # <<>> => rows[1] \in Nat
          BY EmptySeq
        <5> QED
          BY <4>2, <5>1, <5>2 DEF RowOf
      <4>4. RowOf(b)' + Owed(b, n) = RowOf(b) + Owed(b, asking[c])
        BY <3>6, <4>2
      <4>5. RowOf(b)' + OwedBy(b)' = used[b]
        BY <4>1, <4>3, <4>4, <3>0, <3>1, <3>2
      <4>6. Bounded(b)'
        BY <4>1 DEF Bounded
      <4> QED
        BY <4>1, <4>5, <4>6, <3>6, <1>2, <2>2, <2>4
    <3>7. b[2] > today' => used'[b] = 0
      BY <3>1 DEF Booked
    <3> QED
      BY <2>4, <3>5, <3>6, <3>7 DEF Booked
  <2> QED
    BY <2>3, <2>4
<1> QED
  BY <1>3, <1>4, <1>6 DEF BudgetInv

LEMMA CreateUsage_Inv == ASSUME BudgetInv, NEW c \in AiCalls, CreateUsage(c) PROVE BudgetInv'
<1> DEFINE b == asking[c].account
           n == [asking[c] EXCEPT !.at = "incrementing", !.row = Len(usage[b]) + 1]
           rows == Append(usage[b], 0)
<1>1. asking[c] \in CallStates /\ asking[c].at = "creating" /\ b \in Accounts /\ usage[b] \in Seq(Nat)
      /\ UNCHANGED <<today, configured, used>>
  BY CallsTyped DEF CreateUsage, BudgetInv, CallWell
<1>2. n \in CallStates /\ n.at = "incrementing" /\ n.account = b /\ n.tokens = asking[c].tokens
      /\ n.row = Len(usage[b]) + 1
  <2>1. Len(usage[b]) + 1 \in Nat
    BY <1>1, RowsOfDay
  <2> QED
    BY <1>1, <2>1 DEF CallStates
<1>3. rows \in Seq(Nat) /\ Len(rows) = Len(usage[b]) + 1 /\ rows[Len(usage[b]) + 1] = 0
      /\ \A k \in 1 .. Len(usage[b]) : rows[k] = usage[b][k]
  BY <1>1, AppendProperties
<1>4. asking' = [asking EXCEPT ![c] = n] /\ usage' = [usage EXCEPT ![b] = rows]
      /\ uncounted' = IF usage[b] = <<>> THEN uncounted ELSE uncounted \cup {b}
  BY DEF CreateUsage
<1>5. Len(usage[b]) \in Nat /\ DOMAIN usage[b] = 1 .. Len(usage[b])
      /\ DOMAIN rows = 1 .. (Len(usage[b]) + 1)
  BY <1>1, <1>3, LenProperties
<1> HIDE DEF n, rows
<1>6. Owed(b, n) = Owed(b, asking[c]) /\ Owed(b, n) \in Nat
  <2>1. Owed(b, n) = Owed(b, asking[c])
    BY <1>1, <1>2 DEF Owed
  <2> QED
    BY <2>1, <1>1, <1>2, OwedType
<1>7. ASSUME NEW k \in DOMAIN rows
      PROVE  \/ rows[k] = 0 /\ Owed(b, n) = Owed(b, asking[c])
             \/ k \in DOMAIN usage[b] /\ rows[k] + Owed(b, n) <= usage[b][k] + Owed(b, asking[c])
  <2>1. k = Len(usage[b]) + 1 \/ k \in 1 .. Len(usage[b])
    BY <1>5
  <2>2. CASE k \in 1 .. Len(usage[b])
    <3>1. rows[k] = usage[b][k] /\ usage[b][k] \in Nat
      BY <1>1, <1>3, <2>2, RowsOfDay
    <3> QED
      BY <3>1, <2>2, <1>5, <1>6
  <2> QED
    BY <2>1, <2>2, <1>3, <1>6
<1>8. ASSUME b \notin uncounted'
      PROVE  Len(rows) <= 1 /\ (IF rows = <<>> THEN 0 ELSE rows[1]) + Owed(b, n) = RowOf(b) + Owed(b, asking[c])
  <2>1. usage[b] = <<>>
    BY <1>4, <1>8
  <2>2. Len(usage[b]) = 0
    BY <2>1
  <2>3. Len(rows) = 1 /\ rows[1] = 0
    BY <1>3, <2>2
  <2>4. RowOf(b) = 0
    BY <2>1 DEF RowOf
  <2> QED
    BY <2>3, <2>4, <1>6
<1>9. n.row \in DOMAIN rows /\ DOMAIN usage[b] \subseteq DOMAIN rows
  BY <1>2, <1>5
<1>10. uncounted \subseteq uncounted' /\ uncounted' \subseteq Accounts /\ Owed(b, n) <= Owed(b, asking[c])
  BY <1>1, <1>4, <1>6 DEF BudgetInv, BudgetTyped
<1> QED
  BY ONLY BudgetInv, <1>1, <1>2, <1>3, <1>4, <1>7, <1>8, <1>9, <1>10, RowsWritten

LEMMA IncrementUsage_Inv == ASSUME BudgetInv, NEW c \in AiCalls, IncrementUsage(c) PROVE BudgetInv'
<1> DEFINE b == asking[c].account
           r == asking[c].row
           t == asking[c].tokens
           rows == [usage[b] EXCEPT ![r] = usage[b][r] + t]
<1>1. asking[c] \in CallStates /\ asking[c].at = "incrementing" /\ b \in Accounts /\ usage[b] \in Seq(Nat)
      /\ r \in DOMAIN usage[b]
      /\ UNCHANGED <<today, configured, used, uncounted>> /\ asking' = [asking EXCEPT ![c] = NoCall]
  BY CallsTyped DEF IncrementUsage, BudgetInv, CallWell
<1>2. usage' = [usage EXCEPT ![b] = rows]
  BY <1>1 DEF IncrementUsage, BudgetInv, BudgetTyped
<1>3. t \in Nat /\ Owed(b, asking[c]) = t /\ Owed(b, NoCall) = 0
  BY <1>1, MostTokens, NoCallOwes DEF Owed, CallStates
<1>4. Len(usage[b]) \in Nat /\ DOMAIN usage[b] = 1 .. Len(usage[b]) /\ usage[b][r] \in Nat
  BY <1>1, LenProperties
<1>5. rows \in Seq(Nat) /\ Len(rows) = Len(usage[b]) /\ DOMAIN rows = DOMAIN usage[b]
      /\ rows[r] = usage[b][r] + t /\ \A k \in DOMAIN usage[b] : k # r => rows[k] = usage[b][k]
  <2>1. usage[b][r] + t \in Nat
    BY <1>3, <1>4
  <2> QED
    BY <1>1, <1>4, <2>1, ExceptSeq, LenProperties
<1> HIDE DEF rows
<1>6. ASSUME NEW k \in DOMAIN rows
      PROVE  k \in DOMAIN usage[b] /\ rows[k] + Owed(b, NoCall) <= usage[b][k] + Owed(b, asking[c])
  <2>1. k \in DOMAIN usage[b] /\ usage[b][k] \in Nat
    BY <1>1, <1>5
  <2>2. rows[k] = usage[b][k] + t \/ rows[k] = usage[b][k]
    BY <1>5, <2>1
  <2> QED
    BY <2>1, <2>2, <1>3
<1>7. ASSUME b \notin uncounted'
      PROVE  Len(rows) <= 1
             /\ (IF rows = <<>> THEN 0 ELSE rows[1]) + Owed(b, NoCall) = RowOf(b) + Owed(b, asking[c])
  <2>1. Len(usage[b]) <= 1
    BY <1>1, <1>7, CallsTyped DEF Booked
  <2>0. usage[b] # <<>>
    BY <1>1
  <2>2. Len(usage[b]) = 1 /\ r = 1
    BY <1>1, <2>0, <2>1, RowsOfDay
  <2>3. usage[b] # <<>> /\ rows # <<>>
    BY <2>2, <1>5
  <2>4. RowOf(b) = usage[b][1] /\ rows[1] = usage[b][1] + t
    BY <2>2, <2>3, <1>5 DEF RowOf
  <2>5. usage[b][1] \in Nat
    BY <2>2, <1>4
  <2> QED
    BY <2>2, <2>3, <2>4, <2>5, <1>3, <1>5
<1>8. Owed(b, NoCall) <= Owed(b, asking[c]) /\ uncounted' \subseteq Accounts /\ uncounted \subseteq uncounted'
  BY <1>1, <1>3 DEF BudgetInv, BudgetTyped
<1> QED
  BY ONLY BudgetInv, <1>1, <1>2, <1>5, <1>6, <1>7, <1>8, NoCallOwes, RowsWritten

\* The inductive invariant of the budget.
THEOREM BudgetInductive == BudgetSpec => []BudgetInv
<1>1. BudgetInv /\ [BudgetNext]_budgetVars => BudgetInv'
  <2> SUFFICES ASSUME BudgetInv, [BudgetNext]_budgetVars PROVE BudgetInv'
    OBVIOUS
  <2>1. CASE Midnight
    BY <2>1, Midnight_Inv
  <2>2. ASSUME NEW c \in AiCalls,
               \/ \E u \in AiUsers : AskAI(c, u)
               \/ CheckDailyBudget(c) \/ OpenRouterFails(c) \/ AnthropicFails(c)
               \/ \E tokens \in AnswerSizes : Answered(c, tokens)
               \/ FindUsage(c) \/ CreateUsage(c) \/ IncrementUsage(c) \/ RecordFails(c)
        PROVE  BudgetInv'
    BY <2>2, AskAI_Inv, CheckDailyBudget_Inv, ProviderFails_Inv, AiAnswered_Inv, FindUsage_Inv,
       CreateUsage_Inv, IncrementUsage_Inv, RecordFails_Inv
  <2>3. CASE UNCHANGED budgetVars
    BY <2>3 DEF budgetVars, BudgetInv, BudgetTyped, CallWell, Booked, RowsUnder, Bounded, RowOf, OwedBy, Room
  <2> QED
    BY <2>1, <2>2, <2>3 DEF BudgetNext
<1> QED
  BY <1>1, BudgetInit_Inv, PTL DEF BudgetSpec

LEMMA BudgetInvHolds == BudgetInv => BudgetTypeOK /\ SpendingBounded /\ RowTellsSpending
<1> SUFFICES ASSUME BudgetInv PROVE BudgetTypeOK /\ SpendingBounded /\ RowTellsSpending
  OBVIOUS
<1>1. SpendingBounded
  BY DEF BudgetInv, Booked, Bounded, Most, SpendingBounded
<1>2. RowTellsSpending
  BY DEF BudgetInv, Booked, RowOf, OwedBy, RowTellsSpending
<1>3. ASSUME NEW a \in Accounts PROVE usage[a] \in Seq(0 .. SpentBound)
  <2>1. usage[a] \in Seq(Nat) /\ Booked(a) /\ OwedBy(a) \in Nat /\ used[a] \in 0 .. SpentBound
    BY CallsTyped DEF BudgetInv, BudgetTyped
  <2>2. ASSUME NEW k \in 1 .. Len(usage[a]) PROVE usage[a][k] \in 0 .. SpentBound
    <3>1. usage[a][k] \in Nat /\ k \in DOMAIN usage[a]
      BY <2>1, LenProperties
    <3>2. usage[a][k] + OwedBy(a) <= used[a]
      BY <2>1, <3>1 DEF Booked, RowsUnder
    <3> QED
      BY <2>1, <3>1, <3>2, AiBudgetAssumption
  <2>3. Len(usage[a]) \in Nat /\ usage[a] \in [1 .. Len(usage[a]) -> Nat]
    BY <2>1, LenProperties
  <2>4. usage[a] \in [1 .. Len(usage[a]) -> 0 .. SpentBound]
    BY <2>2, <2>3
  <2> QED
    BY <2>3, <2>4, SeqDef
<1>4. ASSUME NEW c \in AiCalls
      PROVE  /\ asking[c].at \in {"idle", "checking", "recording", "creating", "incrementing"} \cup Providers
             /\ asking[c].tokens \in Nat
  <2>1. asking[c] \in CallStates
    BY CallsTyped
  <2> QED
    BY <2>1, MostTokens DEF CallStates
<1>5. BudgetTypeOK
  BY <1>3, <1>4 DEF BudgetInv, BudgetTyped, BudgetTypeOK
<1> QED
  BY <1>1, <1>2, <1>5

\* A session revoked stays out, no window admits more calls than its limiter promises, and a
\* day of the assistants spends no more than its budget and the calls that had passed the
\* check (auth.js, rateLimit.js and openrouter.js).
THEOREM AccessIsGuarded == SessSpec /\ RateSpec /\ BudgetSpec => []AccessGuarded
<1>1. RevokedStaysOut /\ RateInv /\ BudgetInv => AccessGuarded
  BY RateInvHolds, BudgetInvHolds DEF AccessGuarded
<1> QED
  BY <1>1, RevokedSessionsStayOut, RateInductive, BudgetInductive, PTL
===============================================================================
