---------------------------- MODULE Credentials ----------------------------
(***************************************************************************)
(* What proves an account's owner (server/routes/auth.js): reset links and *)
(* the password they set, and the enrolment, verification and disabling of *)
(* the second factor.  Each request reads a row, works on its copy and     *)
(* writes back in later steps, so requests overlap.                        *)
(*                                                                         *)
(* One account.  A link is a reset token; a secret is the serial number of *)
(* a TOTP secret, 0 for none.                                              *)
(***************************************************************************)
EXTENDS Integers, FiniteSets

CONSTANTS
    Links,           \* reset tokens, each sent at most once
    Resets,          \* POST /reset and /change-password requests, one-shot
    Enrols,          \* the requests about the second factor, one-shot
    SecretBound      \* bound: secrets generated

ASSUME CredentialAssumption == SecretBound \in Nat

VARIABLES
    link,        \* each PasswordResetToken row: "unsent", "open", "used"
    reset,       \* each reset: where it is and the link it found
    spent,       \* history: links that a finished change of password was to close
    lateUses,    \* history: links found open by a reset although spent
    totpSecret, totpEnabled,   \* the columns of the User row
    proven,      \* history: the secret of the code that turned the second factor on
    secrets,     \* secrets generated so far
    enrol,       \* each 2FA request: where it is and its copy of the row
    overwrites   \* history: requests that wrote over a secret, or its absence, they had not read

resetVars == <<link, reset, spent, lateUses>>
totpVars == <<totpSecret, totpEnabled, proven, secrets, enrol, overwrites>>
credVars == <<link, reset, spent, lateUses,
              totpSecret, totpEnabled, proven, secrets, enrol, overwrites>>

NoCopy == [at |-> "new", secret |-> 0]

CredInit ==
    /\ link = [l \in Links |-> "unsent"]
    /\ reset = [r \in Resets |-> [at |-> "new", by |-> {}]]
    /\ spent = {} /\ lateUses = {}
    /\ totpSecret = 0 /\ totpEnabled = FALSE /\ proven = 0 /\ secrets = 0
    /\ enrol = [e \in Enrols |-> NoCopy]
    /\ overwrites = {}

(***************************************************************************)
(* Passwords                                                               *)
(***************************************************************************)

\* POST /forgot
SendLink(l) ==
    /\ link[l] = "unsent"
    /\ link' = [link EXCEPT ![l] = "open"]
    /\ UNCHANGED <<reset, spent, lateUses, totpVars>>

\* POST /reset: the row is found, unused and not expired.
FindLink(r, l) ==
    /\ reset[r].at = "new" /\ link[l] = "open"
    /\ reset' = [reset EXCEPT ![r] = [at |-> "found", by |-> {l}]]
    /\ lateUses' = lateUses \union ({l} \intersect spent)
    /\ UNCHANGED <<link, spent, totpVars>>

\* POST /change-password: the current password was right and the new one is stored.
ChangePassword(r) ==
    /\ reset[r].at = "new"
    /\ reset' = [reset EXCEPT ![r] = [at |-> "marked", by |-> {}]]
    /\ UNCHANGED <<link, spent, lateUses, totpVars>>

\* The new password is stored, then the row marked used.
StorePassword(r) ==
    /\ reset[r].at = "found"
    /\ reset' = [reset EXCEPT ![r].at = "stored"]
    /\ UNCHANGED <<link, spent, lateUses, totpVars>>

MarkUsed(r) ==
    /\ reset[r].at = "stored"
    /\ link' = [l \in Links |-> IF l \in reset[r].by THEN "used" ELSE link[l]]
    /\ reset' = [reset EXCEPT ![r].at = "marked"]
    /\ UNCHANGED <<spent, lateUses, totpVars>>

\* Mutant: only the link of the request is closed.
BurnOwnOnly(r) == [l \in Links |-> IF l \in reset[r].by THEN "used" ELSE link[l]]

\* The update of every row of the user that is not used yet.
Burn(r) == [l \in Links |-> IF link[l] = "open" THEN "used" ELSE link[l]]

\* Every other open link is closed.  /change-password goes on when that fails;
\* /reset, whose by is not empty, answers with the error.
BurnLinks(r, failing) ==
    /\ reset[r].at = "marked"
    /\ reset' = [reset EXCEPT ![r].at = "done"]
    /\ IF failing THEN UNCHANGED <<link, spent>>
       ELSE /\ link' = Burn(r)
            /\ spent' = spent \union {l \in Links : link[l] # "unsent"}
    /\ UNCHANGED <<lateUses, totpVars>>

(***************************************************************************)
(* The second factor                                                       *)
(***************************************************************************)

Moves(e, to, secret) == enrol' = [enrol EXCEPT ![e] = [at |-> to, secret |-> secret]]

\* /2fa/enroll and /2fa/verify of an account without a second factor, /2fa/disable of
\* one with it: findByPk.  A verification needs a secret in the row.
ReadAccount(e, kind) ==
    /\ enrol[e].at = "new"
    /\ totpEnabled = (kind = "disable")
    /\ kind = "verify" => totpSecret # 0
    /\ Moves(e, kind, totpSecret)
    /\ UNCHANGED <<resetVars, totpSecret, totpEnabled, proven, secrets, overwrites>>

\* Mutant: every enrolment stores a new secret.
ForgetsPending(secret) == FALSE

\* user.totpSecret || generateTotpSecret()
KeepsPending(secret) == secret # 0

\* /2fa/enroll answers with the pending secret of its copy, or stores a new one first.
Enrolled(e) ==
    /\ enrol[e].at = "enrol"
    /\ IF KeepsPending(enrol[e].secret)
       THEN UNCHANGED <<totpSecret, secrets, overwrites>>
       ELSE /\ secrets < SecretBound
            /\ secrets' = secrets + 1
            /\ totpSecret' = secrets + 1
            /\ overwrites' = IF totpSecret # enrol[e].secret THEN overwrites \union {e} ELSE overwrites
    /\ Moves(e, "done", 0)
    /\ UNCHANGED <<resetVars, totpEnabled, proven>>

\* /2fa/verify: the code is of the secret in the copy or it is refused; hashing the
\* backup codes comes between this check and the write.
CheckCode(e, right) ==
    /\ enrol[e].at = "verify"
    /\ Moves(e, IF right THEN "enabling" ELSE "done", enrol[e].secret)
    /\ UNCHANGED <<resetVars, totpSecret, totpEnabled, proven, secrets, overwrites>>

Enable(e) ==
    /\ enrol[e].at = "enabling"
    /\ totpEnabled' = TRUE
    /\ proven' = enrol[e].secret
    /\ overwrites' = IF totpSecret # enrol[e].secret THEN overwrites \union {e} ELSE overwrites
    /\ Moves(e, "done", 0)
    /\ UNCHANGED <<resetVars, totpSecret, secrets>>

\* /2fa/disable: by a code of the secret or a backup code.
Disable(e) ==
    /\ enrol[e].at = "disable"
    /\ totpEnabled' = FALSE /\ totpSecret' = 0
    /\ overwrites' = IF totpSecret # enrol[e].secret THEN overwrites \union {e} ELSE overwrites
    /\ Moves(e, "done", 0)
    /\ UNCHANGED <<resetVars, proven, secrets>>

CredNext ==
    \/ \E l \in Links : SendLink(l)
    \/ \E r \in Resets :
         \/ ChangePassword(r) \/ StorePassword(r) \/ MarkUsed(r)
         \/ \E l \in Links : FindLink(r, l)
         \/ \E failing \in BOOLEAN : BurnLinks(r, failing)
    \/ \E e \in Enrols :
         \/ \E kind \in {"enrol", "verify", "disable"} : ReadAccount(e, kind)
         \/ Enrolled(e) \/ Enable(e) \/ Disable(e)
         \/ \E right \in BOOLEAN : CheckCode(e, right)

CredSpec == CredInit /\ [][CredNext]_credVars

(***************************************************************************)
(* Properties                                                              *)
(***************************************************************************)

CredTypeOK ==
    /\ link \in [Links -> {"unsent", "open", "used"}]
    /\ reset \in [Resets -> [at : {"new", "found", "stored", "marked", "done"}, by : SUBSET Links]]
    /\ spent \subseteq Links /\ lateUses \subseteq Links
    /\ totpSecret \in 0 .. SecretBound /\ proven \in 0 .. SecretBound /\ secrets \in 0 .. SecretBound
    /\ totpEnabled \in BOOLEAN
    /\ enrol \in [Enrols -> [at : {"new", "enrol", "verify", "disable", "enabling", "done"},
                             secret : 0 .. SecretBound]]
    /\ overwrites \subseteq Enrols

\* No reset finds a link open that was sent before an earlier change of password had
\* finished closing the account's links, however the requests overlap.
OldLinksStayClosed == lateUses = {}

\* While the second factor is on, the row holds the secret whose code the owner gave to
\* turn it on, unless a request wrote to the row over another one's secret, or over its
\* absence, stored after the request had read the row.
OwnerCanSignIn == totpEnabled => totpSecret = proven \/ overwrites # {}
=============================================================================
