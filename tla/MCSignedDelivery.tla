-------------------------- MODULE MCSignedDelivery --------------------------
(***************************************************************************)
(* Model values for the run of SignedDelivery.                             *)
(***************************************************************************)
EXTENDS SignedDelivery, TLC

CONSTANTS g1, g2, op, r1

BothGovernors == {{g1, g2}}

\* Governors are interchangeable in the rule.
GovernorSymmetry == Permutations(Governors)
=============================================================================
