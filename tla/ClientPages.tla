----------------------------- MODULE ClientPages -----------------------------
(***************************************************************************)
(* The pages and widgets of the web client, one at a time.  A page is a    *)
(* function from the names of its requests to what starts each of them,    *)
(* what the page does with a late answer, which flag disables the button   *)
(* and which requests follow.  The layout, the forms and the wording are   *)
(* left out: what remains is who may overtake whom.                        *)
(*                                                                         *)
(* A selection (a filter, a tab, a chosen row, a symbol) is one value; a   *)
(* page with two of them shows here the one its effects depend on.         *)
(***************************************************************************)
EXTENDS Integers, FiniteSets

CONSTANTS Selections,     \* what the user can select on a page
          StartBound      \* bound: how many times requests are started

ASSUME PagesAssumption == Selections # {} /\ StartBound \in Nat

VARIABLES page,      \* the page that is open
          selection, \* what the user has selected
          calls,     \* the requests in flight
          shown,     \* what each part of the page displays
          held,      \* the busy flags that are set
          failed,    \* the parts whose last request failed
          version,   \* how many writes the server has applied
          confirmed, \* the version of the last own write confirmed, per part
          starts     \* how many times requests were started

pageVars == <<page, selection, calls, shown, held, failed, version, confirmed, starts>>

Open == "open"       \* the button that no flag disables
Unread == -1         \* the version of a request the server has not handled yet
Blank == [key |-> "nothing", version |-> -1]   \* the part that shows nothing yet

(* How a request is described. *)

Request(kind, on, guard) ==
  [kind |-> kind, on |-> on, guard |-> guard, gate |-> Open, lock |-> Open,
   next |-> {}, waits |-> FALSE, despite |-> FALSE, maybe |-> FALSE]
Load(on) == Request("load", on, "none")             \* a late answer is displayed
Guarded(on) == Request("load", on, "cancelled")     \* the effect's cleanup drops it
Latest(on) == Request("load", on, "latest")         \* every new one drops the older
Query(on) == Request("load", on, "query")           \* React Query, by key
Write == Request("write", {"press"}, "none")

Under(r, flag) == [r EXCEPT !.gate = flag, !.lock = flag]  \* sets the flag that disables it
Flagged(r, flag) == [r EXCEPT !.lock = flag]               \* sets a flag, stays enabled
Gated(r, flag) == [r EXCEPT !.gate = flag]
Then(r, parts) == [r EXCEPT !.next = parts]
Maybe(r, parts) == [r EXCEPT !.next = parts, !.maybe = TRUE]   \* as the answer says
Waiting(r, parts) == [r EXCEPT !.next = parts, !.waits = TRUE] \* holds its flag meanwhile
Anyway(r, parts) == [r EXCEPT !.next = parts, !.despite = TRUE] \* a failure is swallowed

Asked == Load({"press"})
Mounted == Load({"mount"})
Refreshed == Load({"mount", "press"})

(* Pages of trading and of the auto-trader. *)

AlpacaTrading ==
  [account |-> Under(Refreshed, "loading"), close |-> Waiting(Write, {"account"}),
   flatten |-> Waiting(Write, {"account"}), order |-> Then(Under(Write, "orderLoading"), {"account"}),
   cancel |-> Then(Write, {"account"})]
BrokerGovernance ==
  [state |-> Under(Refreshed, "busy"), configure |-> Waiting(Under(Write, "busy"), {"state"}),
   reconcile |-> Waiting(Under(Write, "busy"), {"state"}), drill |-> Waiting(Under(Write, "busy"), {"state"})]
Dashboard ==
  [stats |-> Mounted, widgets |-> Mounted, indices |-> Load({"mount", "poll"}), summary |-> Under(Asked, "aiLoading")]
TradeReplayUnguarded == [list |-> Guarded({"mount", "key"}), detail |-> Load({"key"}), chart |-> Load({"chained"})]
TradeReplay ==
  [list |-> Guarded({"mount", "key"}), detail |-> Then(Guarded({"key"}), {"chart"}), chart |-> Guarded({"chained"})]
TradeTags == [save |-> Under(Write, "saving"), journal |-> Under(Write, "journalBusy")]
StrategyLabTests ==
  [strategies |-> Mounted, hvInfo |-> Guarded({"mount", "key"}), single |-> Under(Asked, "loading"),
   multi |-> Under(Asked, "multiLoading"), combo |-> Under(Asked, "comboLoading")]
StrategyLabTrader ==
  [status |-> Load({"mount", "poll"}), positions |-> Guarded({"key", "poll"}),
   start |-> Then(Write, {"status"}), stop |-> Then(Write, {"status"})]
AutoTradeRow ==
  [status |-> Load({"poll"}), tags |-> Then(Under(Write, "rowBusy"), {"status"}), journal |-> Under(Write, "rowBusy")]
SignalCharts ==
  [signals |-> Mounted, prices |-> Load({"poll"}), overview |-> Under(Asked, "aiLoading")]
Orderflow == [tape |-> Load({"key", "poll", "press"})]
ProducerConsumer == [publish |-> Under(Write, "publishing"), feed |-> Load({"key", "poll"})]

(* Pages of strategies, searches and models. *)

Hyperopt ==
  [strategies |-> Mounted, runs |-> Mounted, selected |-> Maybe(Guarded({"key", "poll"}), {"runs"}),
   start |-> Then(Under(Write, "starting"), {"runs"}), delete |-> Then(Write, {"runs"})]
HyperoptAdvanced ==
  [lists |-> Mounted, check |-> Asked, run |-> Under(Asked, "busy")]
BacktestAnalysis == [saved |-> Mounted, report |-> Under(Asked, "busy")]
SavedBacktests ==
  [items |-> Under(Refreshed, "loading"), detail |-> Flagged(Load({"key"}), "loadingDetail"),
   create |-> Then(Under(Write, "saving"), {"items"}), delete |-> Then(Write, {"items"})]
StrategyEditor ==
  [list |-> Mounted, editor |-> Load({"key"}), validate |-> Under(Asked, "busy"),
   save |-> Waiting(Under(Write, "busy"), {"list"}), delete |-> Waiting(Under(Write, "busy"), {"list"}),
   backtest |-> Under(Asked, "busy")]
StrategyAb ==
  [runs |-> Load({"mount", "key"}), detail |-> Then(Load({"key"}), {"trades"}), trades |-> Load({"chained"}),
   create |-> Then(Gated(Write, "busy"), {"runs"}), act |-> Waiting(Under(Write, "busy"), {"runs"})]
StrategyAudit ==
  [strategies |-> Mounted, lookahead |-> Under(Asked, "busy"), recursive |-> Under(Asked, "busy")]
StrategyMigrator == [result |-> Under(Asked, "busy")]
FreqaiModels ==
  [items |-> Under(Refreshed, "loading"), train |-> Then(Under(Write, "saving"), {"items"}),
   delete |-> Then(Write, {"items"}), walkForward |-> Under(Asked, "wfBusy")]
FreqaiSidecar ==
  [status |-> Maybe(Refreshed, {"models"}), models |-> Load({"chained"}),
   train |-> Then(Under(Write, "busy"), {"status"}), predict |-> Under(Asked, "busy"),
   delete |-> Anyway(Write, {"status"})]
RlLite ==
  [tables |-> Mounted, train |-> Maybe(Under(Write, "training"), {"tables"}),
   evaluate |-> Flagged(Asked, "evalBusy"), delete |-> Anyway(Write, {"tables"})]
Plots == [strategies |-> Mounted, curves |-> Under(Asked, "busy")]

(* Pages of risk, accounts and records. *)

Protections == [data |-> Flagged(Refreshed, "busy")]
Edge == [data |-> Under(Refreshed, "busy")]
Exchanges == [items |-> Under(Refreshed, "loading")]
Leverage == [trades |-> Mounted, result |-> Under(Asked, "busy")]
Utilities == [result |-> Under(Asked, "busy")]
AuditLog == [rows |-> Under(Load({"mount", "key", "press"}), "loading")]
Notifications ==
  [items |-> Under(Load({"mount", "key", "press"}), "loading"), read |-> Anyway(Write, {"items"}),
   delete |-> Anyway(Write, {"items"}), readAll |-> Anyway(Write, {"items"})]
EventCalendar ==
  [events |-> Under(Load({"mount", "key", "press"}), "loading"), add |-> Then(Write, {"events"}),
   delete |-> Then(Write, {"events"})]
Webhooks ==
  [items |-> Flagged(Mounted, "loading"), create |-> Then(Under(Write, "saving"), {"items"}),
   test |-> Then(Write, {"items"}), rotate |-> Then(Write, {"items"}), delete |-> Then(Write, {"items"})]
AccountProfile ==
  [profile |-> Mounted, password |-> Under(Write, "busy"), enroll |-> Write,
   verify |-> Then(Write, {"profile"}), disable |-> Then(Write, {"profile"})]
SessionsList == [rows |-> Flagged(Mounted, "loading"), revoke |-> Then(Write, {"rows"})]
WebhookPanel == [state |-> Mounted, rotate |-> Under(Write, "busy"), remove |-> Under(Write, "busy")]
Login == [login |-> Under(Write, "loading"), totp |-> Under(Write, "loading")]
Slippage == [data |-> Mounted]

(* Pages of React Query. *)

FeaturePage ==
  [list |-> Query({"mount"}), create |-> Then(Under(Write, "creating"), {"list"}), update |-> Then(Write, {"list"}),
   delete |-> Then(Write, {"list"}), analyze |-> Then(Under(Write, "aiLoading"), {"list"}),
   overview |-> Under(Asked, "pageAI")]
Themes ==
  [themes |-> Query({"mount", "poll"}), score |-> Under(Asked, "scoring"), import |-> Under(Write, "importing"),
   add |-> Then(Write, {"themes"}), remove |-> Then(Write, {"themes"})]
ThemeAlerts ==
  [alerts |-> Query({"mount", "key"}), create |-> Then(Under(Write, "creating"), {"alerts"}), delete |-> Then(Write, {"alerts"})]
MarketNews == [list |-> Query({"mount"}), sync |-> Maybe(Under(Write, "busy"), {"list"})]
StockScreener == [themes |-> Query({"mount"}), list |-> Query({"mount"})]

(* Assistants, documents and widgets. *)

AICenter == [chat |-> Under(Asked, "loading"), tool |-> Flagged(Asked, "loading")]
AIWorkspace ==
  [history |-> Guarded({"mount"}), run |-> Waiting(Under(Write, "request"), {"history"}),
   remove |-> Then(Write, {"history"})]
GapPage == [result |-> Under(Asked, "loading")]
Docs ==
  [toc |-> Then(Guarded({"mount"}), {"page"}), page |-> Latest({"key", "chained"}), results |-> Load({"key"}),
   ask |-> Under(Asked, "asking"), refresh |-> Waiting(Under(Write, "refreshing"), {"toc"})]
DocsHint == [excerpt |-> Under(Asked, "loading")]
Sidebar == [unread |-> Guarded({"mount", "poll"}), logout |-> Write]
DemoBanner == [mode |-> Mounted]
TradingChart == [marketOpen |-> Mounted, candles |-> Latest({"mount", "key", "poll"})]

Pages ==
  {AlpacaTrading, BrokerGovernance, Dashboard, TradeReplay, TradeTags, StrategyLabTests, StrategyLabTrader,
   AutoTradeRow, SignalCharts, Orderflow, ProducerConsumer, Hyperopt, HyperoptAdvanced, BacktestAnalysis,
   SavedBacktests, StrategyEditor, StrategyAb, StrategyAudit, StrategyMigrator, FreqaiModels, FreqaiSidecar,
   RlLite, Plots, Protections, Edge, Exchanges, Leverage, Utilities, AuditLog, Notifications, EventCalendar,
   Webhooks, AccountProfile, SessionsList, WebhookPanel, Login, Slippage, FeaturePage, Themes, ThemeAlerts,
   MarketNews, StockScreener, AICenter, AIWorkspace, GapPage, Docs, DocsHint, Sidebar, DemoBanner, TradingChart}

(* What is in flight and what supersedes what. *)

Parts == DOMAIN page
Loads == {n \in Parts : page[n].kind = "load"}
Keyed(n) == page[n].on \cap {"key", "chained"} # {}
On(trigger) == {n \in Parts : trigger \in page[n].on}
Flags(parts) == {page[n].lock : n \in parts} \ {Open}

(* The answers a change of selection makes the page ignore. *)
Dropped == {c \in calls : page[c.what].guard # "none" /\ Keyed(c.what)}

(* The requests a new request for the same part replaces. *)
SupersededNone(cs, parts) == {}
Superseded(cs, parts) ==
  {c \in cs : c.what \in parts /\ page[c.what].guard \in {"latest", "query"}}

(* A request for each of parts joins cs; frees[n] is the flag its end clears. *)
Begin(cs, parts, key, frees) ==
  (cs \ Superseded(cs, parts))
    \union {[id |-> starts', what |-> n, key |-> key, read |-> Unread, frees |-> frees[n]] : n \in parts}

OwnFlag(parts) == [n \in parts |-> page[n].lock]

Start(cs, parts, key) ==
  /\ calls' = Begin(cs, parts, key, OwnFlag(parts))
  /\ held' = held \union Flags(parts)

pageTypeOK ==
  /\ page \in Pages /\ selection \in Selections
  /\ version \in Nat /\ starts \in 0..StartBound
  /\ calls \subseteq [id : 0..StartBound, what : Parts, key : Selections, read : {Unread} \union 0..version,
                      frees : {Open} \union Flags(Parts)]
  /\ shown \in [Parts -> {Blank} \union [key : Selections, version : 0..version]]
  /\ held \subseteq Flags(Parts) /\ failed \subseteq Parts
  /\ confirmed \in [Parts -> 0..version]

pageInit ==
  /\ page \in Pages
  /\ selection \in Selections
  /\ calls = {[id |-> 0, what |-> n, key |-> selection, read |-> Unread, frees |-> page[n].lock] : n \in On("mount")}
  /\ held = Flags(On("mount"))
  /\ shown = [n \in Parts |-> Blank]
  /\ failed = {} /\ version = 0 /\ confirmed = [n \in Parts |-> 0] /\ starts = 0

Counted == starts < StartBound /\ starts' = starts + 1

(* The effects that depend on the selection clean up and run again. *)
Select(s) ==
  /\ s # selection /\ On("key") # {}
  /\ Counted
  /\ selection' = s
  /\ Start(calls \ Dropped, On("key"), s)
  /\ shown' = [n \in Parts |-> IF Keyed(n) /\ page[n].guard = "query" THEN Blank ELSE shown[n]]
  /\ failed' = failed \ {n \in Parts : Keyed(n)}
  /\ UNCHANGED <<page, version, confirmed>>

(* A timer fires; React Query does not fetch what is being fetched. *)
Poll(n) ==
  /\ n \in On("poll")
  /\ page[n].guard = "query" => \A c \in calls : c.what # n
  /\ Counted
  /\ Start(calls, {n}, selection)
  /\ UNCHANGED <<page, selection, shown, failed, version, confirmed>>

(* A button or a form that its flag does not disable. *)
Press(n) ==
  /\ n \in On("press") /\ page[n].gate \notin held
  /\ Counted
  /\ Start(calls, {n}, selection)
  /\ UNCHANGED <<page, selection, shown, failed, version, confirmed>>

(* The server handles a request: it reads the rows, or changes them. *)
Serve(c) ==
  /\ c \in calls /\ c.read = Unread
  /\ version' = IF page[c.what].kind = "write" THEN version + 1 ELSE version
  /\ calls' = (calls \ {c}) \union {[c EXCEPT !.read = version']}
  /\ UNCHANGED <<page, selection, shown, held, failed, confirmed, starts>>

(* The end of handler c, which goes on with requests for parts: under its  *)
(* own flag when it waits for them.  A handler reloads what its closure    *)
(* saw selected, an effect and React Query what is selected now.           *)
Continue(c, parts) ==
  LET waits == page[c.what].waits /\ parts # {}
      frees == [n \in parts |-> IF waits /\ c.frees # Open THEN c.frees ELSE page[n].lock]
      key == IF \E n \in parts : page[n].guard # "none" THEN selection ELSE c.key
  IN /\ IF parts = {} THEN starts' = starts ELSE Counted
     /\ calls' = Begin(calls \ {c}, parts, key, frees)
     /\ held' = (held \ (IF waits THEN {} ELSE {c.frees})) \union Flags(parts)

Answer(c) ==
  /\ c \in calls /\ c.read # Unread
  /\ \E parts \in {page[c.what].next} \union (IF page[c.what].maybe THEN {{}} ELSE {}) :
       /\ Continue(c, parts)
       /\ confirmed' = IF page[c.what].kind = "write"
                       THEN [n \in Parts |-> IF n \in parts THEN c.read ELSE confirmed[n]] ELSE confirmed
       /\ failed' = failed \ (parts \union {c.what})
  /\ shown' = IF page[c.what].kind = "load"
              THEN [shown EXCEPT ![c.what] = [key |-> c.key, version |-> c.read]] ELSE shown
  /\ UNCHANGED <<page, selection, version>>

(* What a failed handler leaves behind: its flag is cleared on every path. *)
HeldAfterFailureStuck(c) == held
HeldAfterFailure(c) == held \ {c.frees}

(* The request fails, before the server handled it or after: what was      *)
(* displayed stays, beside an error.                                       *)
Fail(c) ==
  /\ c \in calls
  /\ IF page[c.what].despite THEN Continue(c, page[c.what].next)
     ELSE /\ calls' = calls \ {c} /\ held' = HeldAfterFailure(c) /\ UNCHANGED starts
  /\ failed' = failed \union {c.what}
  /\ UNCHANGED <<page, selection, shown, version, confirmed>>

pageNext ==
  \/ \E s \in Selections : Select(s)
  \/ \E n \in Parts : Poll(n) \/ Press(n)
  \/ \E c \in calls : Serve(c) \/ Answer(c) \/ Fail(c)

pageSpec == pageInit /\ [][pageNext]_pageVars

-----------------------------------------------------------------------------

(* The parts whose page means to show the present selection. *)
Following ==
  {<<TradeReplay, "list">>, <<TradeReplay, "detail">>, <<StrategyLabTests, "hvInfo">>,
   <<StrategyLabTrader, "positions">>, <<Hyperopt, "selected">>, <<ThemeAlerts, "alerts">>,
   <<Docs, "page">>, <<TradingChart, "candles">>}

(* Such a part shows, once no request that depends on the selection is in  *)
(* flight and nothing failed, what the user has selected now and never an  *)
(* earlier choice whose answer came last (TradeReplay, StrategyLab,        *)
(* Hyperopt, Docs, TradingChart and the theme alerts).                     *)
SettledShowsSelection ==
  (failed = {} /\ \A c \in calls : ~Keyed(c.what)) =>
    \A n \in Loads : (<<page, n>> \in Following /\ shown[n] # Blank) => shown[n].key = selection

(* A busy flag is set only while a request that will clear it is in        *)
(* flight, so that no button stays disabled; and a flag that gates every   *)
(* handler setting it never lets two of them run at once, through every    *)
(* failure and every reload a handler waits for.                           *)
LocksFollowCalls ==
  \A flag \in Flags(Parts) :
    LET under == {c \in calls : c.frees = flag}
        exclusive == \A n \in Parts : page[n].lock = flag => page[n].gate = flag /\ page[n].on \subseteq {"press"}
    IN /\ flag \in held => under # {}
       /\ exclusive => Cardinality(under) <= 1 /\ (under # {} => flag \in held)

(* A list of React Query that has settled without an error shows every     *)
(* write of its own page that was confirmed, whatever the order of the     *)
(* answers: an invalidation replaces the fetch that was running.           *)
SettledIsFresh ==
  \A n \in Loads : (page[n].guard = "query" /\ n \notin failed /\ \A c \in calls : c.what # n) =>
    (shown[n] = Blank \/ shown[n].version >= confirmed[n])
=============================================================================
