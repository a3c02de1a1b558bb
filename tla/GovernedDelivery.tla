-------------------------- MODULE GovernedDelivery --------------------------
(***************************************************************************)
(* What the operator promises of the cluster, kubernetes/README.md,        *)
(* "Governance Active" and "Lifecycle": once an application is governed,   *)
(* its resources only take the content of approved commits, and only move  *)
(* forward from one approval to a later one.                               *)
(*                                                                         *)
(* Approvals are numbered; -1 is the content of a commit nobody approved,  *)
(* which only an application not yet governed takes.                       *)
(***************************************************************************)
EXTENDS Integers

CONSTANT Resources      \* what the application deploys

VARIABLES
    governed,   \* the governance process is in force
    approved,   \* number of the last approval
    applied     \* applied[r]: the approval whose content r has

vars == <<governed, approved, applied>>

Init ==
    /\ governed = FALSE
    /\ approved = 0
    /\ applied = [r \in Resources |-> -1]

StartGovernance ==
    /\ governed' = TRUE
    /\ UNCHANGED <<approved, applied>>

Approve ==
    /\ approved' \in Int /\ approved' > approved
    /\ UNCHANGED <<governed, applied>>

\* Before governance anything may be applied.
ApplyFreely(r) ==
    /\ ~governed
    /\ applied' \in {[applied EXCEPT ![r] = c] : c \in -1 .. approved}
    /\ UNCHANGED <<governed, approved>>

Apply(r) ==
    /\ governed
    /\ applied' \in {[applied EXCEPT ![r] = c] :
                        c \in {a \in 0 .. approved : a >= applied[r]}}
    /\ UNCHANGED <<governed, approved>>

Next ==
    \/ StartGovernance \/ Approve
    \/ \E r \in Resources : ApplyFreely(r) \/ Apply(r)

Spec == Init /\ [][Next]_vars
=============================================================================
