----------------------------- MODULE Migrations -----------------------------
(***************************************************************************)
(* The schema (server/migrations, and the sync of server/seed.js): scripts *)
(* that look at the database and then change it, one statement after the   *)
(* other, outside any transaction and with no lock between two runs.       *)
(* Each script stands with one table for the tables it treats alike, one   *)
(* column for the columns and one index for the indexes.                   *)
(***************************************************************************)
EXTENDS Integers, Sequences, FiniteSetsExt

CONSTANTS
    Runners,     \* processes that migrate or seed, perhaps at once
    Tables       \* bound: the tables of an instance

VARIABLES
    schema,     \* the tables, columns and indexes of the database
    recorded,   \* SequelizeMeta: the scripts that are done
    runner      \* what each process still has to run, and where it is

migrationVars == <<schema, recorded, runner>>

\* A column is <<table, name>>; an index has the name a script gave it or
\* the one that Sequelize derives from its fields.
Table(t) == <<t, "table">>
Named(t) == <<t, "named">>
Derived(t) == <<t, "derived">>

\* The models in their order: the columns a table has from the start that
\* an older one may lack, and the tables with an index.
ModelOrder ==
    <<"Users", "PositionNotes", "TrailingStops", "MarketNews", "RuntimeAiResults", "BrokerOrders",
      "ReconciliationRuns", "RevokedTokens", "AuditLogs", "ThemeConstituents", "Sessions">>
Models == {ModelOrder[i] : i \in DOMAIN ModelOrder}
Indexed == Models \ {"Users", "MarketNews"}
ColumnsAddedLater ==
    {<<"Users", "totpSecret">>, <<"Users", "webhookSecret">>, <<"Users", "role">>, <<"TrailingStops", "userId">>,
     <<"MarketNews", "url">>, <<"ReconciliationRuns", "accountSnapshot">>}
Columns(t) == {x \in ColumnsAddedLater : x[1] = t}
Declared == (UNION {{Table(t)} \cup Columns(t) : t \in Tables}) \cup {Derived(t) : t \in Tables \cap Indexed}

ASSUME MigrationAssumption == {"BrokerOrders", "RuntimeAiResults"} \subseteq Tables /\ Tables \subseteq Models

\* A statement fails unless this is there before.
Needs(x) ==
    CASE x[2] = "table" -> {}
      [] x \in {Named("TrailingStops"), Derived("TrailingStops")} -> Columns("TrailingStops")
      [] OTHER -> {Table(x[1])}

-----------------------------------------------------------------------------

\* A block of a script: unless it finds something, and if it finds what it
\* asks for, it runs its statements; it may catch their errors.
Block(found, asks, statements) ==
    [found |-> found, asks |-> asks, statements |-> statements, catches |-> FALSE]
Whole(t) == {Table(t)} \cup Columns(t)
CreateTable(t) == Block(Table(t), {}, <<Whole(t)>>)
CreateIndexed(t, index) == Block(Table(t), {}, <<Whole(t), {index}>>)
Add(x) == Block(x, {}, <<{x}>>)
AddTo(x) == Block(x, {Table(x[1])}, <<{x}>>)
TryAdd(x) == [Add(x) EXCEPT !.catches = TRUE]

MultiUserIsolation ==
    <<AddTo(<<"TrailingStops", "userId">>), AddTo(Named("TrailingStops")),
      CreateIndexed("AuditLogs", Named("AuditLogs"))>>
AuthHardening ==
    <<AddTo(<<"Users", "totpSecret">>), CreateTable("RevokedTokens"), TryAdd(Named("RevokedTokens"))>>
NotificationsSessions == <<CreateTable("Sessions"), TryAdd(Named("Sessions"))>>
WebhookPositionNotes ==
    <<AddTo(<<"Users", "webhookSecret">>), CreateTable("PositionNotes"), TryAdd(Named("PositionNotes"))>>
MarketNewsUrl == <<AddTo(<<"MarketNews", "url">>)>>
AiThemes == <<CreateIndexed("ThemeConstituents", Derived("ThemeConstituents"))>>
GovernedBrokerExecution ==
    <<AddTo(<<"Users", "role">>), CreateTable("BrokerOrders"), Add(Named("BrokerOrders")),
      CreateTable("ReconciliationRuns"), Add(Named("ReconciliationRuns"))>>
ReconciliationSnapshots == <<Add(<<"ReconciliationRuns", "accountSnapshot">>)>>
RuntimeResults == <<CreateIndexed("RuntimeAiResults", Derived("RuntimeAiResults"))>>

\* sequelize.sync() changes no table that exists, and adds an index by its name.
SyncTable(t) == <<CreateTable(t), Add(Derived(t))>>
BootstrapBaseSchema ==
    [i \in 1 .. 2 * Len(ModelOrder) |-> SyncTable(ModelOrder[(i + 1) \div 2])[2 - (i % 2)]]

Scripts ==
    <<<<>>, MultiUserIsolation, AuthHardening, NotificationsSessions, WebhookPositionNotes,
      MarketNewsUrl, AiThemes, GovernedBrokerExecution, ReconciliationSnapshots,
      BootstrapBaseSchema, RuntimeResults>>

-----------------------------------------------------------------------------

\* The block a process has come to, and the statement of it, if it runs one.
Resting == [todo |-> {}, block |-> 1, statement |-> 0]
SeedSync == Len(Scripts) + 1    \* no script: the sync of seed.js

\* The database of the first version, an empty one, and one that was
\* migrated before RuntimeAiResult was a model.
FirstVersion == {Table(t) : t \in Tables \cap {"TrailingStops", "Users", "MarketNews"}}
BeforeResults ==
    {x \in Declared \cup {Named(t) : t \in (Tables \cap Indexed) \ {"ThemeConstituents"}} : x[1] # "RuntimeAiResults"}

MigrationInit ==
    /\ \/ schema \in {{}, FirstVersion} /\ recorded = {}
       \/ schema = BeforeResults /\ recorded = 1 .. 10
    /\ runner = [r \in Runners |-> Resting]

Proceeds(r, to) == runner' = [runner EXCEPT ![r] = to]
Current(r) == Min(runner[r].todo)
Body(r) == IF Current(r) = SeedSync THEN BootstrapBaseSchema ELSE Scripts[Current(r)]

\* The next block that is about a table or an index of the instance.
OfInstance == Declared \cup {Named(t) : t \in Tables}
Concerns(block) == block.found \in OfInstance
Over(r) == Len(Body(r)) + 1
At(r) ==
    CHOOSE i \in runner[r].block .. Over(r) :
        /\ i = Over(r) \/ Concerns(Body(r)[i])
        /\ \A j \in runner[r].block .. (i - 1) : ~Concerns(Body(r)[j])
Here(r) == Body(r)[At(r)]
Finds(r) == Here(r).found \notin schema /\ Here(r).asks \subseteq schema

Executing(r) == runner[r].statement # 0
Between(r) == runner[r].todo # {} /\ ~Executing(r)

\* umzug up: the scripts that are pending when it starts.
Migrate(r) ==
    /\ runner[r] = Resting
    /\ Proceeds(r, [Resting EXCEPT !.todo = DOMAIN Scripts \ recorded])
    /\ UNCHANGED <<schema, recorded>>

Seed(r) ==
    /\ runner[r] = Resting
    /\ Proceeds(r, [Resting EXCEPT !.todo = {SeedSync}])
    /\ UNCHANGED <<schema, recorded>>

\* describeTable or showIndex tells whether the block has something to do ...
Look(r) ==
    /\ Between(r) /\ At(r) # Over(r)
    /\ Proceeds(r, IF Finds(r) THEN [runner[r] EXCEPT !.statement = 1]
                            ELSE [runner[r] EXCEPT !.block = At(r) + 1])
    /\ UNCHANGED <<schema, recorded>>

\* ... and by the time of the statement another process may have done it.
\* Only CREATE TABLE passes over what exists.
Fails(xs) ==
    \E x \in xs : /\ Table(x[1]) \notin xs
                  /\ x \in schema \/ ~ (Needs(x) \subseteq schema)

Statement(r) == Here(r).statements[runner[r].statement]
Advanced(r) ==
    IF runner[r].statement = Len(Here(r).statements)
    THEN [todo |-> runner[r].todo, block |-> At(r) + 1, statement |-> 0]
    ELSE [runner[r] EXCEPT !.statement = @ + 1]

Execute(r) ==
    /\ Executing(r)
    /\ ~ Fails(Statement(r))
    /\ schema' = IF \E x \in Statement(r) : x[2] = "table" /\ x \in schema THEN schema ELSE schema \cup Statement(r)
    /\ Proceeds(r, Advanced(r))
    /\ UNCHANGED recorded

\* An error that no block catches ends the process.
Error(r) ==
    /\ Executing(r)
    /\ Fails(Statement(r))
    /\ Proceeds(r, IF Here(r).catches THEN Advanced(r) ELSE Resting)
    /\ UNCHANGED <<schema, recorded>>

\* Mutant: a script is recorded before its last block is done.
RecordEarly(r) ==
    /\ Between(r)
    /\ recorded' = recorded \cup ({Current(r)} \ {SeedSync})
    /\ Proceeds(r, IF Current(r) \in recorded THEN Resting
                ELSE [Resting EXCEPT !.todo = runner[r].todo \ {Current(r)}])
    /\ UNCHANGED schema

\* The storage records a script once, and refuses a second record.
Record(r) ==
    /\ Between(r) /\ At(r) = Over(r)
    /\ recorded' = recorded \cup ({Current(r)} \ {SeedSync})
    /\ Proceeds(r, IF Current(r) \in recorded THEN Resting
                ELSE [Resting EXCEPT !.todo = runner[r].todo \ {Current(r)}])
    /\ UNCHANGED schema

\* A process dies, or the database goes away under it.
Dies(r) ==
    /\ runner[r] # Resting
    /\ Proceeds(r, Resting)
    /\ UNCHANGED <<schema, recorded>>

MigrationNext ==
    \E r \in Runners : Migrate(r) \/ Seed(r) \/ Look(r) \/ Execute(r) \/ Error(r) \/ Record(r) \/ Dies(r)

MigrationSpec == MigrationInit /\ [][MigrationNext]_migrationVars

-----------------------------------------------------------------------------

MigrationTypeOK ==
    /\ schema \subseteq Declared \cup {Named(t) : t \in Indexed}
    /\ recorded \subseteq DOMAIN Scripts
    /\ \A r \in Runners : runner[r].todo \subseteq DOMAIN Scripts \cup {SeedSync}

\* Once every script is recorded the database has all that the models
\* declare, whichever runs died on the way or raced, but for the index of
\* script 11 (0007-ai-themes.js: "Idempotent", DEPLOY.md: safe to re-run).
MigratedIsWhole ==
    DOMAIN Scripts \subseteq recorded => Declared \ {Derived("RuntimeAiResults")} \subseteq schema

\* The index that makes an order unique stands from the moment its script
\* is recorded: the order ledger's idempotency rests on it (0008).
OrdersStayUnique == 8 \in recorded => Named("BrokerOrders") \in schema

SchemaFollows == MigratedIsWhole /\ OrdersStayUnique
=============================================================================
