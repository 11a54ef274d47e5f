--------------------------- MODULE MCTerminalOutbox ---------------------------
(* TLC instance of TerminalOutbox; the bounds are in the .cfg files.        *)
EXTENDS TerminalOutbox
===============================================================================
