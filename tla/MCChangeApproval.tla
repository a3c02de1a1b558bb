-------------------------- MODULE MCChangeApproval --------------------------
(***************************************************************************)
(* Model values for the run of ChangeApproval.  One resource is enough:    *)
(* the webhook decides on each alone, and every property is about each.    *)
(***************************************************************************)
EXTENDS ChangeApproval

CONSTANT r1
=============================================================================
