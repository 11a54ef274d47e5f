----------------------------- MODULE MCCodexTurn -----------------------------
(* One command of each risk: accepted alone, blocked in a read-only turn,  *)
(* and for the user to decide.                                             *)
EXTENDS CodexTurn, TLC

CONSTANTS look, change, risky
Three == {look, change, risky}
RiskOf == (look :> "safe_read") @@ (change :> "guarded_write") @@ (risky :> "destructive")
===============================================================================
