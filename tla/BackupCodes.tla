------------------------------ MODULE BackupCodes ------------------------------
(***************************************************************************)
(* The second factor at sign-in (server/routes/auth.js, services/totp.js): *)
(* the challenge of /login, /verify-totp with a backup code, the fresh     *)
(* batch of /2fa/backup-codes/regenerate and the end of both with          *)
(* /2fa/disable.  The row holds the list of codes still unused.            *)
(*                                                                         *)
(* Every handler reads the row, compares the code with bcrypt over awaits  *)
(* and writes the list it made of its copy.                                *)
(***************************************************************************)
EXTENDS Naturals, FiniteSets

CONSTANTS
    Batches,      \* bound: how many batches of codes are made, the first at enrolment
    BatchSize,    \* the codes of a batch
    CodeRequests  \* requests with a backup code, each sent at most once

ASSUME CodesAssumption == Batches \in Nat \ {0} /\ BatchSize \in Nat \ {0}

Codes == (1 .. Batches) \X (1 .. BatchSize)
Totp == <<0, 0>>            \* the six digits of the authenticator, in place of a code
Batch(b) == {<<b, n>> : n \in 1 .. BatchSize}

VARIABLES
    factorOn,     \* totpEnabled
    unused,       \* the codes of totpBackupCodes that are not null
    batches,      \* batches made so far
    codeRequest,  \* each request: where it is, its kind, its code and the list of its copy
    dead,         \* history: codes that were used, or replaced by a fresh batch or by none
    lateOpens,    \* history: codes that opened something after they were dead
    stale         \* history: requests that wrote when the list was not their copy any more

codesVars == <<factorOn, unused, batches, codeRequest, dead, lateOpens, stale>>

CodesInit ==
    /\ factorOn = TRUE /\ batches = 1
    /\ unused = Batch(1)
    /\ codeRequest = [r \in CodeRequests |-> [at |-> "new", kind |-> "none", code |-> <<1, 1>>, copy |-> {}]]
    /\ dead = {} /\ lateOpens = {} /\ stale = {}

\* /verify-totp after a valid challenge, /regenerate and /disable with the password: the
\* row is read, and the second factor must be on.
ReadCodes(r, kind, c) ==
    /\ codeRequest[r].at = "new" /\ factorOn
    /\ codeRequest' = [codeRequest EXCEPT ![r] = [at |-> "comparing", kind |-> kind, code |-> c, copy |-> unused]]
    /\ UNCHANGED <<factorOn, unused, batches, dead, lateOpens, stale>>

\* Mutant: the slot of a code that matched is not emptied.
KeepsCode(r) == codeRequest[r].copy

\* consumeBackupCode: the copy with the slot of the code null.
Consumed(r) == codeRequest[r].copy \ {codeRequest[r].code}

Matches(r) ==
    /\ codeRequest[r].at = "comparing"
    /\ codeRequest[r].code = Totp \/ codeRequest[r].code \in codeRequest[r].copy

\* The list is written when a backup code matched, and left alone after six digits.
Rest(r) == IF codeRequest[r].code = Totp THEN unused ELSE Consumed(r)
Spent(r) == {codeRequest[r].code} \ {Totp}
Answer(r) == codeRequest' = [codeRequest EXCEPT ![r].at = "answered"]
Opens(r) ==
    /\ lateOpens' = lateOpens \union ({codeRequest[r].code} \intersect dead)
    /\ stale' = IF unused # codeRequest[r].copy THEN stale \union {r} ELSE stale

\* No unused hash matches.
CodeRefused(r) ==
    /\ codeRequest[r].at = "comparing" /\ ~Matches(r)
    /\ Answer(r)
    /\ UNCHANGED <<factorOn, unused, batches, dead, lateOpens, stale>>

\* The new list is written, and the session token issued.  (The write is of a list that
\* differs from the copy, so it happens.)
SignInWithCode(r) ==
    /\ Matches(r) /\ codeRequest[r].kind = "verify"
    /\ unused' = Rest(r)
    /\ dead' = dead \union Spent(r) \union (unused \ Rest(r))
    /\ Opens(r) /\ Answer(r)
    /\ UNCHANGED <<factorOn, batches>>

\* A fresh batch replaces the list.
Regenerate(r) ==
    /\ Matches(r) /\ codeRequest[r].kind = "regenerate" /\ batches < Batches
    /\ batches' = batches + 1
    /\ unused' = Batch(batches + 1)
    /\ dead' = dead \union Spent(r) \union unused
    /\ Opens(r) /\ Answer(r)
    /\ UNCHANGED factorOn

\* /disable writes the list without the code, and then none with the factor off.
DisableConsumes(r) ==
    /\ Matches(r) /\ codeRequest[r].kind = "disable"
    /\ unused' = Rest(r)
    /\ dead' = dead \union Spent(r) \union (unused \ Rest(r))
    /\ Opens(r)
    /\ codeRequest' = [codeRequest EXCEPT ![r].at = "disabling"]
    /\ UNCHANGED <<factorOn, batches>>

DisableClears(r) ==
    /\ codeRequest[r].at = "disabling"
    /\ factorOn' = FALSE /\ unused' = {}
    /\ dead' = dead \union unused
    /\ Answer(r)
    /\ UNCHANGED <<batches, lateOpens, stale>>

\* /2fa/verify turns the factor on again with a fresh batch.
EnrolAgain ==
    /\ ~factorOn /\ batches < Batches
    /\ factorOn' = TRUE
    /\ batches' = batches + 1 /\ unused' = Batch(batches + 1)
    /\ dead' = dead \union unused
    /\ UNCHANGED <<codeRequest, lateOpens, stale>>

CodesNext ==
    \/ EnrolAgain
    \/ \E r \in CodeRequests :
         \/ CodeRefused(r) \/ SignInWithCode(r) \/ Regenerate(r) \/ DisableConsumes(r) \/ DisableClears(r)
         \/ \E kind \in {"verify", "regenerate", "disable"}, c \in Codes \union {Totp} : ReadCodes(r, kind, c)

CodesSpec == CodesInit /\ [][CodesNext]_codesVars

(***************************************************************************)
(* Properties                                                              *)
(***************************************************************************)

CodesTypeOK ==
    /\ factorOn \in BOOLEAN /\ unused \subseteq Codes /\ batches \in 1 .. Batches
    /\ codeRequest \in [CodeRequests -> [at : {"new", "comparing", "disabling", "answered"},
                                         kind : {"none", "verify", "regenerate", "disable"},
                                         code : Codes \union {Totp}, copy : SUBSET Codes]]
    /\ dead \subseteq Codes /\ lateOpens \subseteq Codes /\ stale \subseteq CodeRequests

\* A code that was used or replaced opens something again only when a request that had
\* read it as unused wrote after the list had changed: every other code opens one thing,
\* and none once a fresh batch replaced it or the factor was turned off.
CodesOpenOnce == \A c \in lateOpens : \E r \in stale : c \in codeRequest[r].copy
=============================================================================
