----------------------------- MODULE MCEventBuffer -----------------------------
(* TLC instance of EventBuffer; the bounds are in the .cfg files.           *)
EXTENDS EventBuffer
===============================================================================
