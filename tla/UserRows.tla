------------------------------- MODULE UserRows -------------------------------
(***************************************************************************)
(* The rows users keep through the REST routes: the generic CRUD router    *)
(* and the routers written by hand.  One table at a time, its router given *)
(* by what its handlers look rows up by and in how many statements.        *)
(*                                                                         *)
(* A handler that finds a row first holds a copy of it over an await (the  *)
(* AI's answer, at worst) and writes by the row's id; one that writes in a *)
(* single statement has the caller in its WHERE.                           *)
(***************************************************************************)
EXTENDS Naturals, FiniteSets

CONSTANTS
    Owners,        \* users
    RowIds,        \* rows a table may hold
    RowRequests,   \* requests that find a row first, each sent at most once
    Unowned,       \* the owner of a legacy row: NULL
    NoRowYet       \* an id that was not given out, or whose row was deleted

ASSUME RowsAssumption == Unowned \notin Owners /\ NoRowYet \notin Owners

VARIABLES
    router,        \* the router under study
    row,           \* each row: its owner, and who made it and edited it last
    rowRequest     \* each request: where it is, whose, its row, and the owner in its copy

rowsVars == <<router, row, rowRequest>>

(***************************************************************************)
(* The routers: whose rows a handler sees ("own", "legacy": own or NULL,   *)
(* "all"), whether a POST makes rows, and the handlers that find first and *)
(* those of a single statement.                                            *)
(***************************************************************************)

Router(scope, creates, finds, states) ==
    [scope |-> scope, creates |-> creates, finds |-> finds, states |-> states]

\* GET, POST, PUT, DELETE and the analysis, for a model with and without userId.
CrudRouter == Router("legacy", TRUE, {"edit", "delete"}, {})
SharedCrudRouter == Router("all", TRUE, {"edit", "delete"}, {})
PositionNotes == Router("own", TRUE, {"edit"}, {"delete"})
SavedBacktests == Router("own", TRUE, {"delete"}, {})
UserStrategies == Router("own", TRUE, {"edit", "delete"}, {})
Notifications == Router("own", TRUE, {"edit", "delete"}, {"edit"})
WebhookConfigs == Router("own", TRUE, {"edit", "delete"}, {})
QTables == Router("own", TRUE, {"delete"}, {})
AiModels == Router("own", TRUE, {"delete"}, {})
HyperoptRuns == Router("own", TRUE, {"delete"}, {})
EventRows == Router("all", TRUE, {"delete"}, {})
TradeTags == Router("legacy", FALSE, {"edit"}, {})
WorkspaceRuns == Router("own", TRUE, {}, {"edit", "delete"})

Routers == {CrudRouter, SharedCrudRouter, PositionNotes, SavedBacktests, UserStrategies, Notifications,
            WebhookConfigs, QTables, AiModels, HyperoptRuns, EventRows, TradeTags, WorkspaceRuns}

-----------------------------------------------------------------------------

Rows == [owner : Owners \union {Unowned}, maker : Owners \union {Unowned},
         editor : Owners \union {Unowned}]
LegacyRow == [owner |-> Unowned, maker |-> Unowned, editor |-> Unowned]
Unsent == [at |-> "new", by |-> Unowned, id |-> Unowned, found |-> Unowned]

\* A table may hold rows from before the migration to users.
RowsInit ==
    /\ router \in Routers
    /\ row \in [RowIds -> IF router.scope = "own" THEN {NoRowYet} ELSE {NoRowYet, LegacyRow}]
    /\ rowRequest = [r \in RowRequests |-> Unsent]

Exists(i) == row[i] # NoRowYet

\* Mutant: the lookup is by the id alone.
SeesAny(u, i) == Exists(i)

\* findOne({ where: { id, ...scopedWhere(req) } })
Sees(u, i) ==
    /\ Exists(i)
    /\ \/ router.scope = "all"
       \/ row[i].owner = u
       \/ router.scope = "legacy" /\ row[i].owner = Unowned

\* POST /: the caller's id goes over whatever the body says.
Create(u, i) ==
    /\ router.creates /\ ~Exists(i)
    /\ \A r \in RowRequests : rowRequest[r].id # i    \* ids are not given out twice
    /\ row' = [row EXCEPT ![i] = [owner |-> IF router.scope = "all" THEN Unowned ELSE u, maker |-> u, editor |-> u]]
    /\ UNCHANGED <<router, rowRequest>>

\* PUT, PATCH, DELETE and the analysis find the row, and hold its copy.
FindRow(r, u, i, op) ==
    /\ rowRequest[r].at = "new" /\ op \in router.finds
    /\ Sees(u, i)
    /\ rowRequest' = [rowRequest EXCEPT ![r] = [at |-> op, by |-> u, id |-> i, found |-> row[i].owner]]
    /\ UNCHANGED <<router, row>>

\* item.update({ ...rest, userId: req.userId }): of the columns, those are written that
\* differ from the copy, so the owner only where the copy had none.
OwnerWritten(r) ==
    IF router.scope = "legacy" /\ rowRequest[r].found = Unowned THEN rowRequest[r].by
    ELSE row[rowRequest[r].id].owner

\* UPDATE ... WHERE id: of no row, when it was deleted since.
WriteRow(r) ==
    /\ rowRequest[r].at = "edit"
    /\ LET i == rowRequest[r].id
       IN  row' = IF Exists(i)
                  THEN [row EXCEPT ![i] = [@ EXCEPT !.owner = OwnerWritten(r), !.editor = rowRequest[r].by]]
                  ELSE row
    /\ rowRequest' = [rowRequest EXCEPT ![r].at = "done"]
    /\ UNCHANGED router

DestroyRow(r) ==
    /\ rowRequest[r].at = "delete"
    /\ row' = [row EXCEPT ![rowRequest[r].id] = NoRowYet]
    /\ rowRequest' = [rowRequest EXCEPT ![r].at = "done"]
    /\ UNCHANGED router

\* One statement with the caller in its WHERE.
UpdateWhere(u, i) ==
    /\ "edit" \in router.states /\ Sees(u, i)
    /\ row' = [row EXCEPT ![i].editor = u]
    /\ UNCHANGED <<router, rowRequest>>

DeleteWhere(u, i) ==
    /\ "delete" \in router.states /\ Sees(u, i)
    /\ row' = [row EXCEPT ![i] = NoRowYet]
    /\ UNCHANGED <<router, rowRequest>>

\* read-all: every unread row of the caller.
UpdateAll(u) ==
    /\ router = Notifications
    /\ row' = [i \in RowIds |-> IF Sees(u, i) THEN [row[i] EXCEPT !.editor = u] ELSE row[i]]
    /\ UNCHANGED <<router, rowRequest>>

RowsNext ==
    \/ \E u \in Owners : UpdateAll(u)
    \/ \E u \in Owners, i \in RowIds : Create(u, i) \/ UpdateWhere(u, i) \/ DeleteWhere(u, i)
    \/ \E r \in RowRequests : WriteRow(r) \/ DestroyRow(r)
    \/ \E r \in RowRequests, u \in Owners, i \in RowIds, op \in {"edit", "delete"} : FindRow(r, u, i, op)

RowsSpec == RowsInit /\ [][RowsNext]_rowsVars

(***************************************************************************)
(* Properties                                                              *)
(***************************************************************************)

RowsTypeOK ==
    /\ router \in Routers
    /\ row \in [RowIds -> Rows \union {NoRowYet}]
    /\ rowRequest \in [RowRequests -> [at : {"new", "edit", "delete", "done"}, by : Owners \union {Unowned},
                                       id : RowIds \union {Unowned}, found : Owners \union {Unowned}]]

\* A row a user made stays his and nobody else ever writes to it, whatever requests of
\* other users were under way; and a legacy row two users had both found unowned may
\* change hands between them, but goes to nobody who had not.
RowsStayOwned ==
    \A i \in RowIds :
      Exists(i) /\ router.scope # "all" =>
        /\ row[i].maker # Unowned => row[i].owner = row[i].maker /\ row[i].editor = row[i].maker
        /\ row[i].owner # row[i].maker =>
             \E r \in RowRequests : /\ rowRequest[r].by = row[i].owner /\ rowRequest[r].id = i
                                    /\ rowRequest[r].found = Unowned
=============================================================================
