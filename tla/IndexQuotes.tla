----------------------------- MODULE IndexQuotes -----------------------------
(***************************************************************************)
(* The index quotes and charts of the dashboard                            *)
(* (server/services/yahooFinance.js) for one index: two caches with a life *)
(* each, several sources in order, and what is served when they fail.      *)
(*                                                                         *)
(* A quote is represented by its being a level, a chart by where it comes  *)
(* from.                                                                   *)
(***************************************************************************)
EXTENDS Integers

CONSTANTS
    Viewers,      \* callers of getIndexQuote and getIndexBars
    QuoteLife,    \* QUOTE_TTL_MS
    BarsLife,     \* BARS_TTL_MS
    LastMoment,   \* bound: the last instant
    Blank         \* nothing cached, nothing served

ASSUME IndexQuotesAssumption ==
    /\ QuoteLife \in Nat /\ BarsLife \in Nat /\ LastMoment \in Nat
    /\ Blank \notin {"level", "proxy", "yahoo", "drawn"}

VARIABLES
    moment,      \* Date.now()
    quoteCache,  \* the entry of the index in quoteCache
    barsCache,   \* the entry of the index, interval and range in barsCache
    viewer,      \* where each caller is, with the entries it took before it waited
    served       \* history: what each caller was given last, and what was cached when it asked

quoteVars == <<moment, quoteCache, barsCache, viewer, served>>

NoViewer == [at |-> "idle", why |-> "tile", quoteHit |-> Blank, barsHit |-> Blank]
NothingServed == [what |-> Blank, held |-> FALSE]

QuotesInit ==
    /\ moment = 0
    /\ quoteCache = Blank /\ barsCache = Blank
    /\ viewer = [v \in Viewers |-> NoViewer]
    /\ served = [v \in Viewers |-> NothingServed]

MomentPasses ==
    /\ moment < LastMoment
    /\ moment' = moment + 1
    /\ UNCHANGED <<quoteCache, barsCache, viewer, served>>

Fresh(entry, life) == entry # Blank /\ moment - entry.at < life

Gives(v, what) ==
    /\ viewer' = [viewer EXCEPT ![v] = NoViewer]
    /\ served' = [served EXCEPT ![v].what = what]

\* The dashboard's tile: a fresh entry answers, otherwise the source is asked,
\* and the entry found is kept for when it fails.
AskQuote(v) ==
    /\ viewer[v] = NoViewer
    /\ \/ /\ Fresh(quoteCache, QuoteLife)
          /\ served' = [served EXCEPT ![v] = [what |-> quoteCache.data, held |-> TRUE]]
          /\ UNCHANGED viewer
       \/ /\ ~Fresh(quoteCache, QuoteLife)
          /\ viewer' = [viewer EXCEPT ![v].at = "quote", ![v].quoteHit = quoteCache]
          /\ served' = [served EXCEPT ![v] = [what |-> Blank, held |-> quoteCache # Blank]]
    /\ UNCHANGED <<moment, quoteCache, barsCache>>

\* Two points are drawn from a quote that also tells the previous close.
Drawings(q) == IF q = Blank THEN {Blank} ELSE {"drawn", Blank}

\* What getIndexBars does with the quote q it waited for: it scales the proxy's
\* chart, by one when there is no quote, or draws two points.
Continues(v, q) ==
    CASE viewer[v].why = "tile" -> Gives(v, q) /\ UNCHANGED barsCache
      [] viewer[v].why = "scale" ->
           /\ barsCache' = [at |-> moment, data |-> "proxy"]
           /\ Gives(v, "proxy")
      [] viewer[v].why = "draw" ->
           /\ \E what \in Drawings(q) : Gives(v, what)
           /\ UNCHANGED barsCache

\* The source's answer is cached when it arrives, after a newer one or not.
QuoteArrives(v) ==
    /\ viewer[v].at = "quote"
    /\ quoteCache' = [at |-> moment, data |-> "level"]
    /\ Continues(v, "level")
    /\ UNCHANGED moment

\* Mutant: a failed source leaves the tile blank.
QuoteFailsBlank(v) ==
    /\ viewer[v].at = "quote"
    /\ Continues(v, Blank)
    /\ UNCHANGED <<moment, quoteCache>>

\* The source fails or answers without a level: the entry found when the caller
\* asked is served, however old.
QuoteFails(v) ==
    /\ viewer[v].at = "quote"
    /\ Continues(v, IF viewer[v].quoteHit = Blank THEN Blank ELSE viewer[v].quoteHit.data)
    /\ UNCHANGED <<moment, quoteCache>>

\* The chart: a fresh entry answers, otherwise the proxy's bars are asked for.
AskBars(v) ==
    /\ viewer[v] = NoViewer
    /\ \/ /\ Fresh(barsCache, BarsLife)
          /\ served' = [served EXCEPT ![v] = [what |-> barsCache.data, held |-> TRUE]]
          /\ UNCHANGED viewer
       \/ /\ ~Fresh(barsCache, BarsLife)
          /\ viewer' = [viewer EXCEPT ![v].at = "proxy", ![v].barsHit = barsCache]
          /\ served' = [served EXCEPT ![v] = [what |-> Blank, held |-> barsCache # Blank]]
    /\ UNCHANGED <<moment, quoteCache, barsCache>>

\* getIndexBars calls getIndexQuote, whose fresh entry answers within the step.
TakesQuote(v, why) ==
    \/ /\ Fresh(quoteCache, QuoteLife)
       /\ IF why = "scale"
          THEN barsCache' = [at |-> moment, data |-> "proxy"] /\ Gives(v, "proxy")
          ELSE /\ \E what \in Drawings(quoteCache.data) : Gives(v, what)
               /\ UNCHANGED barsCache
    \/ /\ ~Fresh(quoteCache, QuoteLife)
       /\ viewer' = [viewer EXCEPT ![v].at = "quote", ![v].why = why,
                                   ![v].quoteHit = quoteCache]
       /\ UNCHANGED <<barsCache, served>>

ProxyArrives(v) ==
    /\ viewer[v].at = "proxy"
    /\ TakesQuote(v, "scale")
    /\ UNCHANGED <<moment, quoteCache>>

\* Alpaca fails or has no bars: Yahoo is asked for the index itself.
ProxyFails(v) ==
    /\ viewer[v].at = "proxy"
    /\ viewer' = [viewer EXCEPT ![v].at = "yahoo"]
    /\ UNCHANGED <<moment, quoteCache, barsCache, served>>

YahooArrives(v) ==
    /\ viewer[v].at = "yahoo"
    /\ barsCache' = [at |-> moment, data |-> "yahoo"]
    /\ Gives(v, "yahoo")
    /\ UNCHANGED <<moment, quoteCache>>

\* Nobody has bars: the entry found when the caller asked, or two points.
YahooFails(v) ==
    /\ viewer[v].at = "yahoo"
    /\ IF viewer[v].barsHit # Blank
       THEN Gives(v, viewer[v].barsHit.data) /\ UNCHANGED barsCache
       ELSE TakesQuote(v, "draw")
    /\ UNCHANGED <<moment, quoteCache>>

QuotesNext ==
    \/ MomentPasses
    \/ \E v \in Viewers :
         \/ AskQuote(v) \/ QuoteArrives(v) \/ QuoteFails(v)
         \/ AskBars(v) \/ ProxyArrives(v) \/ ProxyFails(v) \/ YahooArrives(v) \/ YahooFails(v)

QuotesSpec == QuotesInit /\ [][QuotesNext]_quoteVars

-----------------------------------------------------------------------------

QuotesTypeOK ==
    /\ moment \in 0 .. LastMoment
    /\ quoteCache = Blank \/ (quoteCache.at \in 0 .. moment /\ quoteCache.data = "level")
    /\ barsCache = Blank \/ (barsCache.at \in 0 .. moment /\ barsCache.data \in {"proxy", "yahoo"})
    /\ \A v \in Viewers : viewer[v].at \in {"idle", "quote", "proxy", "yahoo"}

\* A caller that finds the caches filled is never left blank, nor given two
\* drawn points for a chart, whatever fails and in whatever order the answers
\* of others arrive (getIndexQuote and getIndexBars serve stale).
StaysServed ==
    \A v \in Viewers :
      viewer[v] = NoViewer /\ served[v].held => served[v].what \notin {Blank, "drawn"}
=============================================================================
