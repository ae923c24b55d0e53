------------------------------ MODULE AiBudget ------------------------------
(***************************************************************************)
(* The daily token budget of the AI assistants                             *)
(* (server/services/openrouter.js): the budget is read before the provider *)
(* is asked, and what the answer used is written after it was returned, by *)
(* a call nobody waits for.                                                *)
(***************************************************************************)
EXTENDS Integers, Sequences, FiniteSets, FiniteSetsExt, Functions

CONSTANTS
    AiCalls,      \* askAI calls that can be under way at once
    AiUsers,      \* callers the routes authenticated
    TokenLimit,   \* DAILY_TOKEN_LIMIT
    AnswerSizes,  \* tokens an answer can use
    DayBound,     \* bound: days
    SpentBound,   \* bound: tokens used by one user in a day
    Unread        \* no row of AiUsage

ASSUME AiBudgetAssumption ==
    /\ TokenLimit \in Nat \ {0} /\ IsFiniteSet(AiCalls)
    /\ AnswerSizes \subseteq Nat /\ AnswerSizes # {} /\ IsFiniteSet(AnswerSizes)
    /\ DayBound \in Nat \ {0} /\ SpentBound \in Nat /\ Unread \notin Nat

Providers == {"openrouter", "anthropic"}
Days == 1 .. DayBound
Accounts == AiUsers \X Days

VARIABLES
    today,       \* utcDay()
    configured,  \* the providers whose key the environment holds
    usage,       \* AiUsage: the totalTokens of every row of a user and day
    asking,     \* where each call of askAI is
    used,       \* history: tokens the answers of that day used
    uncounted    \* history: accounts whose row missed an answer, or came twice

budgetVars == <<today, configured, usage, asking, used, uncounted>>

NoCall == [at |-> "idle", account |-> Unread, row |-> Unread, tokens |-> 0]

BudgetInit ==
    /\ today = 1
    /\ configured \in SUBSET Providers
    /\ usage = [a \in Accounts |-> <<>>]
    /\ asking = [c \in AiCalls |-> NoCall]
    /\ used = [a \in Accounts |-> 0]
    /\ uncounted = {}

Midnight ==
    /\ today < DayBound
    /\ today' = today + 1
    /\ UNCHANGED <<configured, usage, asking, used, uncounted>>

\* askAI is called, with at least one provider: the day is taken for the check.
AskAI(c, u) ==
    /\ asking[c] = NoCall
    /\ configured # {}
    /\ asking' = [asking EXCEPT ![c].at = "checking", ![c].account = <<u, today>>]
    /\ UNCHANGED <<today, configured, usage, used, uncounted>>

\* findOne gives no particular one of two rows.
RowsRead(a) == IF usage[a] = <<>> THEN {Unread} ELSE DOMAIN usage[a]

\* Mutant: the limit is not looked at.
NeverReached(a, row) == FALSE

LimitReached(a, row) == row # Unread /\ usage[a][row] >= TokenLimit

\* The approved gateway is preferred.
FirstProvider == IF "openrouter" \in configured THEN "openrouter" ELSE "anthropic"

CheckDailyBudget(c) ==
    /\ asking[c].at = "checking"
    /\ \E row \in RowsRead(asking[c].account) :
         asking' = [asking EXCEPT ![c] = IF LimitReached(asking[c].account, row) THEN NoCall
                                     ELSE [@ EXCEPT !.at = FirstProvider]]
    /\ UNCHANGED <<today, configured, usage, used, uncounted>>

\* The gateway fails, refuses or answers incompletely: Anthropic is asked where
\* it has a key, without another look at the budget.
OpenRouterFails(c) ==
    /\ asking[c].at = "openrouter"
    /\ asking' = [asking EXCEPT ![c] = IF "anthropic" \in configured
                                   THEN [@ EXCEPT !.at = "anthropic"] ELSE NoCall]
    /\ UNCHANGED <<today, configured, usage, used, uncounted>>

AnthropicFails(c) ==
    /\ asking[c].at = "anthropic"
    /\ asking' = [asking EXCEPT ![c] = NoCall]
    /\ UNCHANGED <<today, configured, usage, used, uncounted>>

\* The answer goes to the caller; recordUsage takes the day anew, and gives up
\* at once when the provider sent no usage.
Answered(c, tokens) ==
    /\ asking[c].at \in Providers
    /\ LET a == <<asking[c].account[1], today>> IN
       /\ used[a] + tokens <= SpentBound
       /\ used' = [used EXCEPT ![a] = @ + tokens]
       /\ \/ /\ asking' = [asking EXCEPT ![c] = [NoCall EXCEPT !.at = "recording", !.account = a,
                                                          !.tokens = tokens]]
             /\ UNCHANGED uncounted
          \/ /\ asking' = [asking EXCEPT ![c] = NoCall]
             /\ uncounted' = uncounted \cup {a}
    /\ UNCHANGED <<today, configured, usage>>

\* findOrCreate looks for a row of the user and day ...
FindUsage(c) ==
    /\ asking[c].at = "recording"
    /\ \E row \in RowsRead(asking[c].account) :
         asking' = [asking EXCEPT ![c].at = IF row = Unread THEN "creating" ELSE "incrementing",
                              ![c].row = row]
    /\ UNCHANGED <<today, configured, usage, used, uncounted>>

\* ... and inserts one: no unique index refuses the second of two.
CreateUsage(c) ==
    /\ asking[c].at = "creating"
    /\ LET a == asking[c].account IN
       /\ usage' = [usage EXCEPT ![a] = Append(@, 0)]
       /\ asking' = [asking EXCEPT ![c].at = "incrementing", ![c].row = Len(usage[a]) + 1]
       /\ uncounted' = IF usage[a] = <<>> THEN uncounted ELSE uncounted \cup {a}
    /\ UNCHANGED <<today, configured, used>>

\* Mutant: the total is overwritten by what this answer used.
OverwriteUsage(c) ==
    /\ asking[c].at = "incrementing"
    /\ usage' = [usage EXCEPT ![asking[c].account][asking[c].row] = asking[c].tokens]
    /\ asking' = [asking EXCEPT ![c] = NoCall]
    /\ UNCHANGED <<today, configured, used, uncounted>>

\* The increment is one statement of the database.
IncrementUsage(c) ==
    /\ asking[c].at = "incrementing"
    /\ usage' = [usage EXCEPT ![asking[c].account][asking[c].row] = @ + asking[c].tokens]
    /\ asking' = [asking EXCEPT ![c] = NoCall]
    /\ UNCHANGED <<today, configured, used, uncounted>>

\* A statement fails, and the answer is never counted.
RecordFails(c) ==
    /\ asking[c].at \in {"recording", "creating", "incrementing"}
    /\ uncounted' = uncounted \cup {asking[c].account}
    /\ asking' = [asking EXCEPT ![c] = NoCall]
    /\ UNCHANGED <<today, configured, usage, used>>

BudgetNext ==
    \/ Midnight
    \/ \E c \in AiCalls :
         \/ \E u \in AiUsers : AskAI(c, u)
         \/ CheckDailyBudget(c) \/ OpenRouterFails(c) \/ AnthropicFails(c)
         \/ \E tokens \in AnswerSizes : Answered(c, tokens)
         \/ FindUsage(c) \/ CreateUsage(c) \/ IncrementUsage(c) \/ RecordFails(c)

BudgetSpec == BudgetInit /\ [][BudgetNext]_budgetVars

-----------------------------------------------------------------------------

BudgetTypeOK ==
    /\ today \in Days /\ configured \subseteq Providers
    /\ \A a \in Accounts : usage[a] \in Seq(0 .. SpentBound)
    /\ \A c \in AiCalls :
         /\ asking[c].at \in {"idle", "checking", "recording", "creating", "incrementing"} \cup Providers
         /\ asking[c].tokens \in Nat
    /\ used \in [Accounts -> 0 .. SpentBound]
    /\ uncounted \subseteq Accounts

\* A user's spending of a day passes the limit by no more than the calls that
\* can be under way at once, unless an answer went uncounted or two first
\* answers of a day each made a row (askAI, checkDailyBudget and recordUsage).
SpendingBounded ==
    \A a \in Accounts \ uncounted :
      used[a] <= TokenLimit - 1 + Cardinality(AiCalls) * Max(AnswerSizes)

\* What calls that were answered still have to record of a user's day.
Owed(a, call) ==
    IF call.account = a /\ call.at \in {"recording", "creating", "incrementing"} THEN call.tokens ELSE 0

\* What the one row of a user's day says, and what is still being recorded, is
\* what the answers of that day used (recordUsage).
RowTellsSpending ==
    \A a \in Accounts \ uncounted :
      (IF usage[a] = <<>> THEN 0 ELSE usage[a][1])
        + SumFunction([c \in AiCalls |-> Owed(a, asking[c])]) = used[a]
=============================================================================
