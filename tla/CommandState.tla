----------------------------- MODULE CommandState -----------------------------
(***************************************************************************)
(* The life cycle of a command (core/command/command_state.cpp): its       *)
(* statuses, which of them are terminal and which moves the code allows.   *)
(* Two further values describe the row of a command in the table commands: *)
(* "absent" before the row is inserted and "gone" after the retention      *)
(* clean-up deleted it.                                                    *)
(***************************************************************************)
EXTENDS Naturals

ActiveStatus == {"pending", "dispatched", "in_progress"}
TerminalStatus == {"succeeded", "failed", "timeout", "delivery_uncertain"}
CommandStatus == ActiveStatus \cup TerminalStatus
RowStatus == CommandStatus \cup {"absent", "gone"}

IsTerminal(status) == status \in TerminalStatus

CanTransition(from, to) ==
    \/ from = "pending" /\ to \in {"dispatched", "failed", "timeout",
                                   "delivery_uncertain"}
    \/ from \in {"dispatched", "in_progress"}
       /\ to \in {"in_progress"} \cup TerminalStatus

(***************************************************************************)
(* Not code: the order the life cycle induces.  Later(s, t) says that a    *)
(* row seen with status s may be found with status t afterwards.  It is    *)
(* the reflexive transitive closure of the moves of a row (insertion,      *)
(* CanTransition, clean-up).                                               *)
(***************************************************************************)
Later(s, t) ==
    \/ s = t
    \/ s = "absent"
    \/ t = "gone"
    \/ s = "pending" /\ t \in CommandStatus
    \/ s = "dispatched" /\ t \in {"in_progress"} \cup TerminalStatus
    \/ s = "in_progress" /\ t \in TerminalStatus
===============================================================================
