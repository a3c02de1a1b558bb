---------------------------- MODULE MCGitProvider ----------------------------
(***************************************************************************)
(* Bounds for the run of GitProvider.                                      *)
(***************************************************************************)
EXTENDS GitProvider

CONSTANTS g1, g2

\* One of them: a restart, a failed call, a developer's push.
OneOfThree ==
    {[crashes |-> 1, faults |-> 0, pushes |-> 0],
     [crashes |-> 0, faults |-> 1, pushes |-> 0],
     [crashes |-> 0, faults |-> 0, pushes |-> 1]}
=============================================================================
