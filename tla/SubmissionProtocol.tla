-------------------------- MODULE SubmissionProtocol --------------------------
(***************************************************************************)
(* What the governed gateway promises about one client order id, whoever   *)
(* uses it and however often: it is recorded durably, then either closed   *)
(* unsent or sent by exactly one caller, and the broker opens an order for *)
(* it only after that.  Nothing leaves "closed" or "sent".                 *)
(***************************************************************************)
CONSTANT Ids

VARIABLES
    phase,      \* "unused", "recorded", "closed" or "sent"
    opened      \* ids the broker holds an order for

vars == <<phase, opened>>

Init ==
    /\ phase = [i \in Ids |-> "unused"]
    /\ opened = {}

Move(i, from, to) ==
    /\ phase[i] = from
    /\ phase' = [phase EXCEPT ![i] = to]
    /\ UNCHANGED opened

Record(i) == Move(i, "unused", "recorded")
Send(i)   == Move(i, "recorded", "sent")
Refuse(i) == Move(i, "recorded", "closed")

Open(i) ==
    /\ phase[i] = "sent"
    /\ opened' = opened \union {i}
    /\ UNCHANGED phase

\* A crash closes every id that was recorded and not yet sent.
Abandon ==
    /\ phase' = [i \in Ids |-> IF phase[i] = "recorded" THEN "closed" ELSE phase[i]]
    /\ UNCHANGED opened

Next ==
    \/ \E i \in Ids : Record(i) \/ Send(i) \/ Refuse(i) \/ Open(i)
    \/ Abandon

Spec == Init /\ [][Next]_vars
===============================================================================
