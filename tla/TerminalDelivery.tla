-------------------------- MODULE TerminalDelivery --------------------------
(***************************************************************************)
(* What the daemon promises about the terminal events of its turns         *)
(* (turn.completed, turn.failed, turn.cancelled): an event the daemon took *)
(* charge of is delivered, and one it lost was never taken charge of.      *)
(***************************************************************************)
CONSTANT Events   \* terminal events, one identity (eventId) each

VARIABLE status

Statuses == {"new", "owed", "delivered", "lost"}

Init == status = [e \in Events |-> "new"]

\* The server refused the event so far, and the daemon has it on disk.
Owe(e) == status[e] = "new" /\ status' = [status EXCEPT ![e] = "owed"]

Deliver(e) == status[e] \in {"new", "owed"} /\ status' = [status EXCEPT ![e] = "delivered"]

\* A crash before the event is on disk loses every event in flight at once.
Lose ==
  \E S \in SUBSET {e \in Events : status[e] = "new"} :
    status' = [e \in Events |-> IF e \in S THEN "lost" ELSE status[e]]

Next == Lose \/ \E e \in Events : Owe(e) \/ Deliver(e)

Spec == Init /\ [][Next]_status
=============================================================================
