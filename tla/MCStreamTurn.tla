---------------------------- MODULE MCStreamTurn ----------------------------
(* A turn that says up to four things, and another one in its workspace.   *)
EXTENDS StreamTurn

CONSTANT other
MeAndOther == {Me, other}
===============================================================================
