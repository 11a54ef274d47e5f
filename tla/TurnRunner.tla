------------------------------ MODULE TurnRunner ------------------------------
(***************************************************************************)
(* What the dispatcher relies on when it calls RunTurn, whichever runner   *)
(* it is: the BeforeComplete hook runs once and before turn.completed, a   *)
(* turn has one verdict at most, a nil error means that it was reported,   *)
(* and an error that is not about posting it means that it was not.        *)
(* TurnDispatch is written against this; CodexTurn and StreamTurn          *)
(* implement it.                                                           *)
(***************************************************************************)
EXTENDS Sequences

VARIABLES state,     \* "running", "completing", or what RunTurn returned
          verdicts   \* the terminal events that were emitted, in order

runnerVars == <<state, verdicts>>

RunnerInit == state = "running" /\ verdicts = <<>>

\* The CLI is done: the hook sends the change set.
RunHook == state = "running" /\ state' = "completing" /\ UNCHANGED verdicts

\* The verdict is emitted; "unposted" says that it is in the outbox instead.
Report(from, verdict) ==
  /\ state = from
  /\ verdicts' = Append(verdicts, verdict)
  /\ state' \in {"returned", "unposted"}

Fail == state = "running" /\ state' = "failed" /\ UNCHANGED verdicts

RunnerNext == RunHook \/ Report("completing", "completed") \/ Report("running", "failed") \/ Fail

RunnerSpec == RunnerInit /\ [][RunnerNext]_runnerVars
===============================================================================
