----------------------------- MODULE RateLimits -----------------------------
(***************************************************************************)
(* The two in-memory limiters of the server, for one key:                  *)
(*   - "fixed": createLimiter (server/middleware/rateLimit.js), a counter  *)
(*     that restarts when its window is over;                              *)
(*   - "sliding": checkLoginRate and checkRegisterRate                     *)
(*     (server/routes/auth.js) and the notifier's shouldEmit               *)
(*     (server/services/notifier.js), which keep the accepted instants.    *)
(***************************************************************************)
EXTENDS Integers, Sequences, FiniteSets

CONSTANTS
    Window,          \* the length of a window
    Limit,           \* calls accepted per window
    LastInstant      \* bound: the last instant of the clock

ASSUME RateAssumption == Window \in Nat \ {0} /\ Limit \in Nat \ {0} /\ LastInstant \in Nat

VARIABLES
    instant,     \* Date.now()
    hits,        \* fixed: the count and resetAt of the entry; none before the first call
    recent,      \* sliding: the accepted instants it still remembers
    accepted     \* history: the instants of the accepted calls, by limiter

rateVars == <<instant, hits, recent, accepted>>

Kinds == {"fixed", "sliding"}
Instants == 0..LastInstant

RateInit ==
    /\ instant = 0
    /\ hits = [count |-> 0, resetAt |-> -1]
    /\ recent = <<>>
    /\ accepted = [k \in Kinds |-> <<>>]

Accept(kind) == accepted' = [accepted EXCEPT ![kind] = Append(@, instant)]

\* The window is over, or there is none: a new one starts with this call.
FixedStarts ==
    /\ instant > hits.resetAt
    /\ hits' = [count |-> 1, resetAt |-> instant + Window]
    /\ Accept("fixed")
    /\ UNCHANGED <<instant, recent>>

\* Mutant: the limit itself is refused one call too late.
OverLimitLate(count) == count > Limit + 1

OverLimit(count) == count > Limit

\* Inside the window every call counts, the refused ones included; the count is
\* kept at the first refusal here.
FixedCounts ==
    /\ instant <= hits.resetAt
    /\ IF OverLimit(hits.count + 1)
       THEN hits' = [hits EXCEPT !.count = IF OverLimit(@) THEN @ ELSE @ + 1] /\ UNCHANGED accepted
       ELSE hits' = [hits EXCEPT !.count = @ + 1] /\ Accept("fixed")
    /\ UNCHANGED <<instant, recent>>

StillCounts(t) == t > instant - Window

\* filter((t) => t > cutoff): the instants are in order, so those that are left are the
\* last ones.
Remembered ==
    LET forgotten == Cardinality({i \in DOMAIN recent : ~StillCounts(recent[i])})
    IN  SubSeq(recent, forgotten + 1, Len(recent))

\* The remembered instants of the window, and the call refused when they are many.
Slides ==
    LET kept == Remembered IN
    /\ IF Len(kept) >= Limit THEN UNCHANGED <<recent, accepted>>
       ELSE recent' = Append(kept, instant) /\ Accept("sliding")
    /\ UNCHANGED <<instant, hits>>

TimePasses ==
    /\ instant < LastInstant
    /\ instant' = instant + 1
    /\ UNCHANGED <<hits, recent, accepted>>

RateNext == FixedStarts \/ FixedCounts \/ Slides \/ TimePasses

RateSpec == RateInit /\ [][RateNext]_rateVars

(***************************************************************************)
(* Properties                                                              *)
(***************************************************************************)

RateTypeOK ==
    /\ instant \in Instants
    /\ hits \in [count : 0 .. Limit + 1, resetAt : Int]
    /\ recent \in Seq(Instants)
    /\ accepted \in [Kinds -> Seq(Instants)]

\* Any n calls and the next one accepted are a window apart.
Spaced(times, n) ==
    \A i \in DOMAIN times : i + n \in DOMAIN times => times[i + n] - times[i] >= Window

\* No window of Window instants, wherever it lies, has more accepted calls than the
\* limiter promises: Limit for the one that slides, and twice that for the one
\* whose window starts with a call, which may end one window and begin the next.
WindowBound == Spaced(accepted["sliding"], Limit) /\ Spaced(accepted["fixed"], 2 * Limit)
=============================================================================
