--------------------------- MODULE MCStartupRecovery ---------------------------
(* TLC instance of StartupRecovery; the bounds are in the .cfg files.       *)
EXTENDS StartupRecovery
===============================================================================
