--------------------------- MODULE CommandLifecycle ---------------------------
(***************************************************************************)
(* What the command router promises, with no threads, queues or messages.  *)
(* A command has one row with one life, and its source hears of statuses   *)
(* of that life only: what it hears was stored before, and nothing it      *)
(* hears goes back behind what it heard earlier.                           *)
(***************************************************************************)
EXTENDS CommandState

CONSTANT Ids  \* command ids

VARIABLES row,  \* row[id]: status stored for the command
          told  \* told[id]: last status its source heard, "absent" if none

vars == <<row, told>>

Init ==
    /\ row = [id \in Ids |-> "absent"]
    /\ told = [id \in Ids |-> "absent"]

(* A request is stored: accepted, or refused with a reason. *)
Store(id) ==
    /\ row[id] = "absent"
    /\ \E status \in {"pending", "failed"} : row' = [row EXCEPT ![id] = status]
    /\ UNCHANGED told

(* Commands move on, by an event or, several at once, by a restart. *)
Move(S) ==
    /\ row' \in [Ids -> RowStatus]
    /\ \A id \in S : CanTransition(row[id], row'[id])
    /\ \A id \in Ids \ S : row'[id] = row[id]
    /\ UNCHANGED told

(* The retention of finished commands ends. *)
CleanUp(S) ==
    /\ \A id \in S : IsTerminal(row[id])
    /\ row' = [id \in Ids |-> IF id \in S THEN "gone" ELSE row[id]]
    /\ UNCHANGED told

(* The source hears a status the command has, or had since it last heard. *)
Tell(id) ==
    \E status \in CommandStatus :
       /\ Later(told[id], status)
       /\ Later(status, row[id])
       /\ told' = [told EXCEPT ![id] = status]
       /\ UNCHANGED row

Next == \/ \E id \in Ids : Store(id) \/ Tell(id)
        \/ \E S \in SUBSET Ids : Move(S) \/ CleanUp(S)

Spec == Init /\ [][Next]_vars
===============================================================================
