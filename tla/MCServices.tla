------------------------------ MODULE MCServices ------------------------------
(***************************************************************************)
(* The background services and the account handlers on small instances.    *)
(* They share no variable: focus names the one that moves in a behaviour,  *)
(* so that the run visits the sum and not the product of their states.     *)
(***************************************************************************)
EXTENDS PriceCache, AlertEvaluator, WebhookDelivery, TelegramBot, RateLimits,
        Accounts, StrategyValidation, UserRows,
        ThemeDesk, DocsMirror, AiBudget, IndexQuotes, FeedSync, SignalRelay, Migrations, TLC

CONSTANTS priceAlert, themeAlert
VARIABLE focus

Services == {"cache", "alerts", "webhook", "telegram", "limits", "sessions",
             "credentials", "validation", "rows", "codes", "themes", "docs",
             "budget", "quotes", "feeds", "relay", "migrations"}

(* r1 and r2 are the requests of every service, and interchangeable.       *)
Symmetry == Permutations(Readers)

(* A price alert, or an alert on the move of a theme's basket: the two     *)
(* tables share nothing but the mutex of the tick.                         *)
MCRow(k, level) == [status |-> "active", kind |-> k, target |-> level, baseline |-> Missing]
MCAlone(a, r) == [b \in Alerts |-> IF b = a THEN r ELSE Missing]
MCFirstRows == {MCAlone(priceAlert, MCRow("above", 2)), MCAlone(themeAlert, MCRow("basket-change-pct", 3))}

(* Evidence that passes, and evidence that lacks a window or a stress test. *)
MCGoodEvidence ==
  [survivorshipSafe |-> TRUE, licensed |-> TRUE, windows |-> 5, costed |-> TRUE, stressed |-> Scenarios,
   paperDays |-> 30, paperTrades |-> 100, drawdown |-> 15]
MCSubmissions ==
  {MCGoodEvidence, [MCGoodEvidence EXCEPT !.stressed = @ \ {"gapDown"}], [MCGoodEvidence EXCEPT !.windows = 4]}

MCInit ==
  /\ focus \in Services
  /\ CacheInit /\ TgInit /\ RateInit /\ SessInit /\ CredInit
  /\ AlertInit /\ (focus # "alerts" => alertRow[themeAlert] = Missing)
  /\ HookInit /\ (focus # "webhook" => works)
  /\ ValidationInit /\ (focus # "validation" => evidence = MCGoodEvidence)
  /\ RowsInit /\ (focus # "rows" => router = CrudRouter /\ \A i \in RowIds : row[i] = NoRowYet)
  /\ CodesInit /\ DeskInit
  /\ BudgetInit /\ (focus # "budget" => configured = Providers)
  /\ QuotesInit /\ FeedInit
  /\ RelayInit /\ (focus # "relay" => follows = "bot")
  /\ MigrationInit /\ (focus # "migrations" => schema = {})
  /\ DocsInit /\ (focus # "docs" => page[1] = NoPage)

MCNext ==
  \/ /\ focus = "cache" /\ CacheNext
     /\ UNCHANGED <<focus, alertVars, hookVars, tgVars, rateVars, sessVars, credVars,
                    validationVars, rowsVars, codesVars, deskVars, docsVars,
                    budgetVars, quoteVars, feedVars, relayVars, migrationVars>>
  \/ /\ focus = "alerts" /\ AlertNext
     /\ UNCHANGED <<focus, cacheVars, hookVars, tgVars, rateVars, sessVars, credVars,
                    validationVars, rowsVars, codesVars, deskVars, docsVars,
                    budgetVars, quoteVars, feedVars, relayVars, migrationVars>>
  \/ /\ focus = "webhook" /\ HookNext
     /\ UNCHANGED <<focus, cacheVars, alertVars, tgVars, rateVars, sessVars, credVars,
                    validationVars, rowsVars, codesVars, deskVars, docsVars,
                    budgetVars, quoteVars, feedVars, relayVars, migrationVars>>
  \/ /\ focus = "telegram" /\ TgNext
     /\ UNCHANGED <<focus, cacheVars, alertVars, hookVars, rateVars, sessVars, credVars,
                    validationVars, rowsVars, codesVars, deskVars, docsVars,
                    budgetVars, quoteVars, feedVars, relayVars, migrationVars>>
  \/ /\ focus = "limits" /\ RateNext
     /\ UNCHANGED <<focus, cacheVars, alertVars, hookVars, tgVars, sessVars, credVars,
                    validationVars, rowsVars, codesVars, deskVars, docsVars,
                    budgetVars, quoteVars, feedVars, relayVars, migrationVars>>
  \/ /\ focus = "sessions" /\ SessNext
     /\ UNCHANGED <<focus, cacheVars, alertVars, hookVars, tgVars, rateVars, credVars,
                    validationVars, rowsVars, codesVars, deskVars, docsVars,
                    budgetVars, quoteVars, feedVars, relayVars, migrationVars>>
  \/ /\ focus = "credentials" /\ CredNext
     /\ UNCHANGED <<focus, cacheVars, alertVars, hookVars, tgVars, rateVars, sessVars,
                    validationVars, rowsVars, codesVars, deskVars, docsVars,
                    budgetVars, quoteVars, feedVars, relayVars, migrationVars>>
  \/ /\ focus = "validation" /\ ValidationNext
     /\ UNCHANGED <<focus, cacheVars, alertVars, hookVars, tgVars, rateVars, sessVars,
                    credVars, rowsVars, codesVars, deskVars, docsVars,
                    budgetVars, quoteVars, feedVars, relayVars, migrationVars>>
  \/ /\ focus = "rows" /\ RowsNext
     /\ UNCHANGED <<focus, cacheVars, alertVars, hookVars, tgVars, rateVars, sessVars,
                    credVars, validationVars, codesVars, deskVars, docsVars,
                    budgetVars, quoteVars, feedVars, relayVars, migrationVars>>
  \/ /\ focus = "codes" /\ CodesNext
     /\ UNCHANGED <<focus, cacheVars, alertVars, hookVars, tgVars, rateVars, sessVars,
                    credVars, validationVars, rowsVars, deskVars, docsVars,
                    budgetVars, quoteVars, feedVars, relayVars, migrationVars>>
  \/ /\ focus = "themes" /\ DeskNext
     /\ UNCHANGED <<focus, cacheVars, alertVars, hookVars, tgVars, rateVars, sessVars,
                    credVars, validationVars, rowsVars, codesVars, docsVars,
                    budgetVars, quoteVars, feedVars, relayVars, migrationVars>>
  \/ /\ focus = "docs" /\ DocsNext
     /\ UNCHANGED <<focus, cacheVars, alertVars, hookVars, tgVars, rateVars, sessVars,
                    credVars, validationVars, rowsVars, codesVars, deskVars,
                    budgetVars, quoteVars, feedVars, relayVars, migrationVars>>
  \/ /\ focus = "budget" /\ BudgetNext
     /\ UNCHANGED <<focus, cacheVars, alertVars, hookVars, tgVars, rateVars, sessVars, credVars,
                    validationVars, rowsVars, codesVars, deskVars, docsVars,
                    quoteVars, feedVars, relayVars, migrationVars>>
  \/ /\ focus = "quotes" /\ QuotesNext
     /\ UNCHANGED <<focus, cacheVars, alertVars, hookVars, tgVars, rateVars, sessVars, credVars,
                    validationVars, rowsVars, codesVars, deskVars, docsVars,
                    budgetVars, feedVars, relayVars, migrationVars>>
  \/ /\ focus = "feeds" /\ FeedNext
     /\ UNCHANGED <<focus, cacheVars, alertVars, hookVars, tgVars, rateVars, sessVars, credVars,
                    validationVars, rowsVars, codesVars, deskVars, docsVars,
                    budgetVars, quoteVars, relayVars, migrationVars>>
  \/ /\ focus = "relay" /\ RelayNext
     /\ UNCHANGED <<focus, cacheVars, alertVars, hookVars, tgVars, rateVars, sessVars, credVars,
                    validationVars, rowsVars, codesVars, deskVars, docsVars,
                    budgetVars, quoteVars, feedVars, migrationVars>>
  \/ /\ focus = "migrations" /\ MigrationNext
     /\ UNCHANGED <<focus, cacheVars, alertVars, hookVars, tgVars, rateVars, sessVars, credVars,
                    validationVars, rowsVars, codesVars, deskVars, docsVars,
                    budgetVars, quoteVars, feedVars, relayVars>>

-----------------------------------------------------------------------------

(* Every variable of every service keeps its type: no count, copy or phase *)
(* leaves the range its handler gives it.                                  *)
TypeOK ==
  /\ CacheTypeOK /\ AlertTypeOK /\ HookTypeOK /\ TgTypeOK
  /\ RateTypeOK /\ SessTypeOK /\ CredTypeOK /\ ValidationTypeOK
  /\ RowsTypeOK /\ CodesTypeOK /\ DeskTypeOK /\ DocsTypeOK
  /\ BudgetTypeOK /\ QuotesTypeOK /\ FeedTypeOK /\ RelayTypeOK /\ MigrationTypeOK

(* At most one upstream request is in flight for what the slot names,      *)
(* nobody is handed prices older than he asked for, and the breaker opens  *)
(* on a run of failures: getLatestTradePrices and its shared store.        *)
(* An index that was once cached is served whatever fails (yahooFinance).  *)
CacheServes == SingleFlight /\ CacheAgeBounded /\ BreakerMatchesFailures /\ StaysServed

(* One loop polls for a bot, and a command is executed once unless an      *)
(* offset was forgotten: the start, stop and polling of the Telegram bot.  *)
CommandsOnce == OneLoop /\ ExecutedOnce

(* A session that was revoked stays out as the middleware promises, and a  *)
(* window of the limiter admits no more than its limit, nor a day of the   *)
(* assistants more than its budget and the calls under way.                *)
AccessGuarded == RevokedStaysOut /\ WindowBound /\ SpendingBounded /\ RowTellsSpending

(* The tables no foreign key and no lock protects stay in agreement: a     *)
(* user's row stays his, a deleted theme leaves nothing behind, and a page *)
(* of the documentation has the hash of its text (crud.js, themes.js,      *)
(* docsCrawler.js and docsImporter.js).  Syncing a feed again adds no row  *)
(* twice, and a consumer passes over no signal (newsFetcher.js and         *)
(* producerConsumer.js).  A migrated database has what the models declare. *)
TablesAgree ==
  /\ RowsStayOwned /\ NoStrays /\ HashTellsText /\ OneRowPerEntry
  /\ NothingPassedOver /\ SchemaFollows
=============================================================================
