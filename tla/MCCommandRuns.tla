----------------------------- MODULE MCCommandRuns -----------------------------
(* TLC instance of CommandRuns: two calls of one turn.  The first one has a *)
(* deadline, needs an approval and is waited for; the second one is allowed *)
(* and goes to the background.                                              *)
EXTENDS CommandRuns

CONSTANTS c1, c2, t1, s1, safe, risky

MCTaskOf == [c \in Calls |-> t1]
MCSessionOf == [t \in Tasks |-> s1]
MCCommandOf == [c \in Calls |-> IF c = c1 THEN risky ELSE safe]
MCModeOf == [c \in Calls |-> IF c = c1 THEN "auto" ELSE "background"]
================================================================================
