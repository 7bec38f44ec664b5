------------------------------ MODULE Operations ----------------------------
(***************************************************************************)
(* What the offline layer promises of an operation somebody made on a      *)
(* device: it waits until the server has decided it, once, or until the    *)
(* person lets go of it, and the operations of a device are decided in the *)
(* order they were made.                                                   *)
(***************************************************************************)
CONSTANTS
    Op,
    Outcome,            \* what the server can answer
    Earlier(_, _)       \* whether an operation was made before another of its device

VARIABLE status

Status == {"none", "waiting", "discarded"} \cup Outcome

TypeOK == status \in [Op -> Status]

Init == status = [o \in Op |-> "none"]

\* The operations a step says something new about.
Changing == {o \in Op : status'[o] # status[o]}

Make(o) ==
    /\ status[o] = "none"
    /\ \A p \in Op : Earlier(p, o) => status[p] # "none"
    /\ status' = [status EXCEPT ![o] = "waiting"]

\* One transmission decides several, and none ahead of an earlier one that
\* waits. One that was let go of may have been on its way already.
Decide ==
    /\ status' \in [Op -> Status]
    /\ \A o \in Changing : status[o] \in {"waiting", "discarded"} /\ status'[o] \in Outcome
    /\ \A o \in Changing, p \in Op :
          Earlier(p, o) /\ status[p] = "waiting" => p \in Changing

Discard ==
    /\ status' \in [Op -> Status]
    /\ \A o \in Changing : status[o] = "waiting" /\ status'[o] = "discarded"

Next == (\E o \in Op : Make(o)) \/ Decide \/ Discard

Spec == Init /\ [][Next]_status

=============================================================================
