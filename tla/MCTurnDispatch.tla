---------------------------- MODULE MCTurnDispatch ----------------------------
(* TLC instance of TurnDispatch: all tasks belong to one session.           *)
EXTENDS TurnDispatch

MCSessionOf == [t \in Tasks |-> CHOOSE s \in Sessions : TRUE]
===============================================================================
