------------------------------ MODULE Sessions ------------------------------
(***************************************************************************)
(* Signed-in sessions (server/services/sessions.js,                        *)
(* server/middleware/auth.js and the login, logout and session routes of   *)
(* server/routes/auth.js): tokens that expire, the Session rows the user   *)
(* sees, the RevokedToken rows, and the process's cache of revoked tokens. *)
(*                                                                         *)
(* Every database call is a step of its own and may fail where the code    *)
(* goes on without it.                                                     *)
(***************************************************************************)
EXTENDS Integers, FiniteSets

CONSTANTS
    Tokens,          \* tokens, each issued by at most one login
    Calls,           \* authenticated requests, one-shot
    Life,            \* how long a token is valid
    LastTime,        \* bound: the last instant of the clock
    RestartBound     \* bound: restarts of the process

ASSUME SessionAssumption ==
    Life \in Nat \ {0} /\ LastTime \in Nat /\ RestartBound \in Nat

VARIABLES
    time,        \* Date.now()
    expires,     \* when each token expires; 0 before it is issued
    listed,      \* tokens with a Session row
    blocked,     \* tokens with a RevokedToken row
    revokedCache,\* tokens in the cache of the process
    revoking,    \* where the logout or revocation of each token is
    call,        \* each request: where it is, its token, whether it came after the revocation
    restarts,    \* restarts so far
    lostBlock,   \* history: tokens whose RevokedToken row could not be written
    revokedIn,   \* history: the restart count when the revocation of a token was answered
    slips        \* history: requests let in after the revocation, and what had been lost

sessVars == <<time, expires, listed, blocked, revokedCache, revoking, call, restarts,
              lostBlock, revokedIn, slips>>

NewCall == [at |-> "new", token |-> "none", late |-> FALSE]

SessInit ==
    /\ time = 0
    /\ expires = [t \in Tokens |-> 0]
    /\ listed = {} /\ blocked = {} /\ revokedCache = {}
    /\ revoking = [t \in Tokens |-> "no"]
    /\ call = [c \in Calls |-> NewCall]
    /\ restarts = 0 /\ lostBlock = {} /\ slips = {}
    /\ revokedIn = [t \in Tokens |-> 0]

Issued(t) == expires[t] # 0
Valid(t) == time < expires[t]

\* /login: the token is signed, and its Session row written if it can be.
Login(t, stamped) ==
    /\ ~Issued(t)
    /\ expires' = [expires EXCEPT ![t] = time + Life]
    /\ listed' = IF stamped THEN listed \union {t} ELSE listed
    /\ UNCHANGED <<time, blocked, revokedCache, revoking, call, restarts, lostBlock, revokedIn, slips>>

\* /logout with the token itself, or DELETE /sessions/:id of a listed one: the
\* RevokedToken row is written first, and a failure of that write is ignored.
BlockToken(t, written) ==
    /\ revoking[t] = "no"
    /\ Issued(t)
    /\ \/ Valid(t) /\ t \notin blocked
       \/ t \in listed
    /\ blocked' = IF written THEN blocked \union {t} ELSE blocked
    /\ lostBlock' = IF written THEN lostBlock ELSE lostBlock \union {t}
    /\ revoking' = [revoking EXCEPT ![t] = "noting"]
    /\ UNCHANGED <<time, expires, listed, revokedCache, call, restarts, revokedIn, slips>>

\* Mutant: the cache is not told of the revocation.
NoteNothing(t) == UNCHANGED revokedCache

\* noteRevokedInCache
Note(t) == revokedCache' = revokedCache \union {t}

\* The cache is told, and the Session row removed; the caller has its answer.
Unlist(t) ==
    /\ revoking[t] = "noting"
    /\ Note(t)
    /\ listed' = listed \ {t}
    /\ revoking' = [revoking EXCEPT ![t] = "done"]
    /\ revokedIn' = [revokedIn EXCEPT ![t] = restarts]
    /\ UNCHANGED <<time, expires, blocked, call, restarts, lostBlock, slips>>

\* authMiddleware: the signature and the expiry are checked, then the cache.  A
\* cached token is rejected; an expired entry is dropped, but then so is the token.
Present(c, t) ==
    /\ call[c].at = "new" /\ Issued(t)
    /\ call' = [call EXCEPT ![c] =
                  IF Valid(t) /\ t \notin revokedCache
                  THEN [at |-> "looking", token |-> t, late |-> revoking[t] = "done"]
                  ELSE [NewCall EXCEPT !.at = "rejected"]]
    /\ UNCHANGED <<time, expires, listed, blocked, revokedCache, revoking, restarts,
                   lostBlock, revokedIn, slips>>

\* The RevokedToken row is looked up; a lookup that fails finds none.  A row that is
\* found fills the cache.
LookUp(c, failing) ==
    /\ call[c].at = "looking"
    /\ LET t == call[c].token
           found == t \in blocked /\ ~failing
       IN  /\ revokedCache' = IF found THEN revokedCache \union {t} ELSE revokedCache
           /\ call' = [call EXCEPT ![c] = [NewCall EXCEPT !.at = IF found THEN "rejected" ELSE "let in"]]
           /\ slips' = IF call[c].late /\ ~found
                       THEN slips \union {[cacheLost |-> restarts > revokedIn[t],
                                           rowLost |-> failing \/ t \in lostBlock,
                                           expired |-> ~Valid(t)]}
                       ELSE slips
    /\ UNCHANGED <<time, expires, listed, blocked, revoking, restarts, lostBlock, revokedIn>>

\* pruneRevokedTokens and pruneExpiredSessions: rows past their expiry.
Swept == {t \in Tokens : expires[t] < time}

Sweep ==
    /\ blocked' = blocked \ Swept
    /\ listed' = listed \ Swept
    /\ UNCHANGED <<time, expires, revokedCache, revoking, call, restarts, lostBlock, revokedIn, slips>>

\* The process dies and boots: the cache is empty, and calls under way are cut.
Restart ==
    /\ restarts < RestartBound
    /\ restarts' = restarts + 1
    /\ revokedCache' = {}
    /\ call' = [c \in Calls |-> IF call[c].at = "looking" THEN [NewCall EXCEPT !.at = "cut"] ELSE call[c]]
    /\ revoking' = [t \in Tokens |-> IF revoking[t] = "noting" THEN "no" ELSE revoking[t]]
    /\ UNCHANGED <<time, expires, listed, blocked, lostBlock, revokedIn, slips>>

TimeGoesOn ==
    /\ time < LastTime
    /\ time' = time + 1
    /\ UNCHANGED <<expires, listed, blocked, revokedCache, revoking, call, restarts, lostBlock,
                   revokedIn, slips>>

SessNext ==
    \/ Sweep \/ Restart \/ TimeGoesOn
    \/ \E t \in Tokens :
         \/ Unlist(t)
         \/ \E b \in BOOLEAN : Login(t, b) \/ BlockToken(t, b)
    \/ \E c \in Calls :
         \/ \E t \in Tokens : Present(c, t)
         \/ \E failing \in BOOLEAN : LookUp(c, failing)

SessSpec == SessInit /\ [][SessNext]_sessVars

(***************************************************************************)
(* Properties                                                              *)
(***************************************************************************)

SessTypeOK ==
    /\ time \in Nat /\ expires \in [Tokens -> Nat] /\ restarts \in Nat
    /\ listed \subseteq Tokens /\ blocked \subseteq Tokens /\ revokedCache \subseteq Tokens
    /\ lostBlock \subseteq Tokens
    /\ revoking \in [Tokens -> {"no", "noting", "done"}]
    /\ call \in [Calls -> [at : {"new", "looking", "rejected", "let in", "cut"},
                           token : Tokens \union {"none"}, late : BOOLEAN]]
    /\ revokedIn \in [Tokens -> Nat]
    /\ slips \subseteq [cacheLost : BOOLEAN, rowLost : BOOLEAN, expired : BOOLEAN]

\* A request that presents a token after its revocation was answered is let in only
\* when both memories of the revocation were lost: the process restarted since, and
\* the row was not written or could not be read.  (A token that expires between the
\* check of its signature and the lookup may still be let in.)
RevokedStaysOut == \A s \in slips : s.cacheLost /\ (s.rowLost \/ s.expired)
=============================================================================
