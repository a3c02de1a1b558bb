--------------------------- MODULE MCRevisionQueue ---------------------------
(***************************************************************************)
(* Model values and bounds for the runs of RevisionQueue.                  *)
(***************************************************************************)
EXTENDS RevisionQueue

CONSTANTS a, b, kept, newer, bad

CreatedTree == [app |-> a, mrt |-> kept]

\* The manifest changes, the MRT's manifest changes acceptably, both change and
\* the latter is rejected, or everything is as it was at first.
CommitTrees == {CreatedTree, [app |-> b, mrt |-> kept], [app |-> a, mrt |-> newer],
                [app |-> b, mrt |-> bad]}
=============================================================================
