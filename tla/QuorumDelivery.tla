--------------------------- MODULE QuorumDelivery ---------------------------
(***************************************************************************)
(* What the request and the approval of a change promise together,         *)
(* kubernetes/README.md, "Lifecycle": the promise of GovernedDelivery, and *)
(* that a version is approved, and reaches a governed resource, only when  *)
(* enough governors have signed.                                           *)
(***************************************************************************)
EXTENDS GovernedDelivery

CONSTANTS
    Governors,  \* who may sign
    Quorums,    \* the sets of governors that are enough
    Versions,   \* requests, and the approvals they lead to
    Waits       \* a version is only proposed when the request before it is done with

VARIABLE signed     \* signed[v]: governors who have signed version v

\* A quorum has signed the version; or at least one before it, when a version may
\* replace another whose signatures are being looked at.
Backed(v) ==
    \E w \in Versions :
        /\ IF Waits THEN w = v ELSE w <= v
        /\ \E Q \in Quorums : Q \subseteq signed[w]

SignedInit == Init /\ signed = [v \in Versions |-> {}]

Sign(g, v) ==
    /\ signed' = [signed EXCEPT ![v] = @ \cup {g}]
    /\ UNCHANGED vars

\* Version 0 is what the governance began with.
SignedNext ==
    \/ StartGovernance /\ UNCHANGED signed
    \/ Approve /\ Backed(approved') /\ UNCHANGED signed
    \/ \E r \in Resources : ApplyFreely(r) /\ UNCHANGED signed
    \/ \E r \in Resources :
           /\ Apply(r)
           /\ applied'[r] = 0 \/ Backed(applied'[r])
           /\ UNCHANGED signed
    \/ \E g \in Governors, v \in Versions : Sign(g, v)

SignedSpec == SignedInit /\ [][SignedNext]_<<vars, signed>>
=============================================================================
