-------------------------- MODULE MCSigningRequest --------------------------
(***************************************************************************)
(* Model values and bounds for the runs of SigningRequest.                 *)
(***************************************************************************)
EXTENDS SigningRequest, TLC

CONSTANTS g1, g2, op

\* all of {g1, g2}
BothGovernors == {{g1, g2}}

\* Governors are interchangeable in the rule.
GovernorSymmetry == Permutations(Governors)
=============================================================================
