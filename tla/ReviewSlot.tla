------------------------------ MODULE ReviewSlot ------------------------------
(***************************************************************************)
(* What a session promises about change-set reviews, without saying how:   *)
(* at most one review is open at a time, opening one never displaces       *)
(* another, and reviews open in turn order, each of them at most once.     *)
(***************************************************************************)
EXTENDS Naturals

CONSTANT MaxTurns

Turns == 1 .. MaxTurns
None == 0

VARIABLES slot,    \* the turn whose review is open, or None
          opened   \* the turns whose review has ever been opened

vars == <<slot, opened>>

Init == /\ slot = None
        /\ opened = {}

Open(t) == /\ slot = None
           /\ \A u \in opened : u < t
           /\ slot' = t
           /\ opened' = opened \cup {t}

Close == /\ slot # None
         /\ slot' = None
         /\ UNCHANGED opened

Next == \/ \E t \in Turns : Open(t)
        \/ Close

Spec == Init /\ [][Next]_vars
===============================================================================
