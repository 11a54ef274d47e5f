-------------------------- MODULE MCChangeSetReview --------------------------
(* TLC instance of ChangeSetReview; the bounds are in the .cfg files.       *)
EXTENDS ChangeSetReview
=============================================================================
