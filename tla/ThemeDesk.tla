------------------------------ MODULE ThemeDesk ------------------------------
(***************************************************************************)
(* Themes, their constituents and the users' alerts on them                *)
(* (server/routes/themes.js).  No foreign key ties the three tables: what  *)
(* belongs to a theme is held together by the statements of the handlers.  *)
(*                                                                         *)
(* A theme's slug is unique, and taken again by a new row once it was      *)
(* deleted; a handler resolves it to a row once and goes on by that id.    *)
(***************************************************************************)
EXTENDS Naturals, FiniteSets

CONSTANTS
    ThemeBound,     \* bound: theme rows made under one slug, by their ids 1, 2, ...
    ThemeMembers,        \* symbols a theme may hold
    DeskUsers,      \* users with alerts
    DeskRequests    \* requests that resolve the slug first, each sent at most once

ASSUME DeskAssumption == ThemeBound \in Nat \ {0}

Themes == 1 .. ThemeBound

VARIABLES
    themes,         \* Theme rows
    constituents,   \* ThemeConstituent rows: theme and symbol
    alerts,         \* ThemeAlert rows: theme, user and the request that made it
    deskRequest,    \* each request: where it is, the theme it found, its symbol or user
    made,           \* theme rows made so far
    late            \* history: rows written once the deletion of their theme had begun

deskVars == <<themes, constituents, alerts, deskRequest, made, late>>

Waiting == [at |-> "new", of |-> 0, subject |-> 0]

DeskInit ==
    /\ themes = {1} /\ made = 1
    /\ constituents = {} /\ alerts = {} /\ late = {}
    /\ deskRequest = [r \in DeskRequests |-> Waiting]

\* POST /: the slug is unique.
CreateTheme ==
    /\ themes = {} /\ made < ThemeBound
    /\ made' = made + 1
    /\ themes' = {made + 1}
    /\ UNCHANGED <<constituents, alerts, deskRequest, late>>

Subjects(op) == IF op = "member" THEN ThemeMembers ELSE IF op = "alert" THEN DeskUsers ELSE {0}

\* Every handler finds the theme by its slug, and answers 404 where there is none.
Resolve(r, op, x) ==
    /\ deskRequest[r].at = "new"
    /\ \E t \in themes : deskRequest' = [deskRequest EXCEPT ![r] = [at |-> op, of |-> t, subject |-> x]]
    /\ UNCHANGED <<themes, constituents, alerts, made, late>>

Replied(r) == deskRequest' = [deskRequest EXCEPT ![r].at = "done"]
Leaving(t) ==
    \/ t \notin themes
    \/ \E r \in DeskRequests : deskRequest[r].of = t /\ deskRequest[r].at \in {"delete", "delete alerts", "delete theme", "cut"}
Late(t, item) == late' = IF Leaving(t) THEN late \union {item} ELSE late

\* POST constituents: (theme, symbol) is unique, a second one answers 409.
AddConstituent(r) ==
    /\ deskRequest[r].at = "member"
    /\ LET item == <<deskRequest[r].of, deskRequest[r].subject>>
       IN  /\ constituents' = constituents \union {item}
           /\ IF item \in constituents THEN UNCHANGED late ELSE Late(item[1], item)
    /\ Replied(r)
    /\ UNCHANGED <<themes, alerts, made>>

\* POST alerts: the constituents and their quotes are fetched for the baseline, then
\* the alert is stored.
AddAlert(r) ==
    /\ deskRequest[r].at = "alert"
    /\ LET item == <<deskRequest[r].of, deskRequest[r].subject, r>>
       IN  alerts' = alerts \union {item} /\ Late(item[1], item)
    /\ Replied(r)
    /\ UNCHANGED <<themes, constituents, made>>

\* DELETE of a constituent and of an alert of the caller: one statement.
DropConstituent(t, m) ==
    /\ t \in themes /\ <<t, m>> \in constituents
    /\ constituents' = constituents \ {<<t, m>>}
    /\ UNCHANGED <<themes, alerts, deskRequest, made, late>>

DropAlert(t, u) ==
    /\ t \in themes
    /\ \E a \in alerts : a[1] = t /\ a[2] = u /\ alerts' = alerts \ {a}
    /\ UNCHANGED <<themes, constituents, deskRequest, made, late>>

\* DELETE /:slug destroys the constituents, the alerts and the theme, in this order and
\* each in a statement of its own.
DestroyConstituents(r) ==
    /\ deskRequest[r].at = "delete"
    /\ constituents' = {c \in constituents : c[1] # deskRequest[r].of}
    /\ deskRequest' = [deskRequest EXCEPT ![r].at = "delete alerts"]
    /\ UNCHANGED <<themes, alerts, made, late>>

\* Mutant: the alerts are left where they are.
AlertsLeft(t) == alerts

\* ThemeAlert.destroy({ where: { themeId } })
AlertsBut(t) == {a \in alerts : a[1] # t}

DestroyAlerts(r) ==
    /\ deskRequest[r].at = "delete alerts"
    /\ alerts' = AlertsBut(deskRequest[r].of)
    /\ deskRequest' = [deskRequest EXCEPT ![r].at = "delete theme"]
    /\ UNCHANGED <<themes, constituents, made, late>>

DestroyTheme(r) ==
    /\ deskRequest[r].at = "delete theme"
    /\ themes' = themes \ {deskRequest[r].of}
    /\ Replied(r)
    /\ UNCHANGED <<constituents, alerts, made, late>>

\* A statement of the deletion fails or the process dies: what was destroyed stays so.
DeletionCut(r) ==
    /\ deskRequest[r].at \in {"delete", "delete alerts", "delete theme"}
    /\ deskRequest' = [deskRequest EXCEPT ![r].at = "cut"]
    /\ UNCHANGED <<themes, constituents, alerts, made, late>>

DeskNext ==
    \/ CreateTheme
    \/ \E r \in DeskRequests :
         \/ AddConstituent(r) \/ AddAlert(r) \/ DeletionCut(r)
         \/ DestroyConstituents(r) \/ DestroyAlerts(r) \/ DestroyTheme(r)
         \/ \E op \in {"member", "alert", "delete"} : \E x \in Subjects(op) : Resolve(r, op, x)
    \/ \E t \in Themes, m \in ThemeMembers : DropConstituent(t, m)
    \/ \E t \in Themes, u \in DeskUsers : DropAlert(t, u)

DeskSpec == DeskInit /\ [][DeskNext]_deskVars

(***************************************************************************)
(* Properties                                                              *)
(***************************************************************************)

DeskTypeOK ==
    /\ themes \subseteq Themes /\ Cardinality(themes) <= 1 /\ made \in Themes
    /\ constituents \subseteq Themes \X ThemeMembers /\ alerts \subseteq Themes \X DeskUsers \X DeskRequests
    /\ deskRequest \in [DeskRequests -> [at : {"new", "member", "alert", "delete", "delete alerts", "delete theme",
                                               "cut", "done"},
                                         of : Themes \union {0}, subject : ThemeMembers \union DeskUsers \union {0}]]

\* A constituent or an alert outlives its theme only when it was written after the
\* deletion had begun, by a request that had still found the theme: without a foreign
\* key it is the order of the three statements that keeps the tables together, whichever
\* of them fail and however deletions repeat.
NoStrays ==
    /\ \A c \in constituents : c[1] \in themes \/ c \in late
    /\ \A a \in alerts : a[1] \in themes \/ a \in late
=============================================================================
