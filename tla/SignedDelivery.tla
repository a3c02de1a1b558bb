--------------------------- MODULE SignedDelivery ---------------------------
(***************************************************************************)
(* From the signatures of a change to the cluster: SigningRequest and      *)
(* ChangeApproval with the object they share.  mca is the spec of the MCA: *)
(* the MSR controller writes it, the MCA controller and the webhook of     *)
(* ArgoCD go by it.  What each module leaves to its environment, the other *)
(* one does here.                                                          *)
(*                                                                         *)
(* The instances are of the modules with the theorems, for these to be     *)
(* cited of the whole.                                                     *)
(***************************************************************************)
EXTENDS Integers

CONSTANTS
    Governors, Qubmango, Quorums, MaxVersion, MaxFaults, MaxCommits, Arrivals,
    Deletable,                  \* of SigningRequest
    Resources, MaxMishaps       \* of ChangeApproval

VARIABLES
    msrSpec, msrStatus, msrFinalizer, msrLife,      \* the MSR
    msrPc, msrMem, msrMemSpec, msrFresh,            \* the worker of its controller
    msrPushed, signed, head,                        \* the repository, as it sees it
    faults, commits,                                \* what SigningRequest counts
    mca,                                            \* the MCA's spec
    mcaSpec,                                        \* the version in it
    mcaStatus, mcaFinalizer, mcaLife,               \* the rest of the MCA
    mcaPc, mcaMem, mcaMemSpec, mcaFresh,            \* the worker of its controller
    mcaPushed, summarised, told,                    \* what it has published
    target, operation, remaining, applied,          \* ArgoCD and the cluster
    governed, seenMCA,                              \* the caches of the webhook
    calm, mishaps                                   \* what ChangeApproval assumes, counts

signing == <<msrSpec, msrStatus, msrFinalizer, msrLife, msrPc, msrMem, msrMemSpec,
             msrFresh, msrPushed, signed, head, faults, commits>>
approval == <<mcaStatus, mcaFinalizer, mcaLife, mcaPc, mcaMem, mcaMemSpec, mcaFresh,
              mcaPushed, summarised, told, target, operation, remaining, applied,
              governed, seenMCA, calm, mishaps>>
between == <<mca, mcaSpec>>
vars == <<signing, between, approval>>

Signing == INSTANCE SigningRequestProofs
    WITH spec <- msrSpec, status <- msrStatus, finalizer <- msrFinalizer, life <- msrLife,
         pc <- msrPc, mem <- msrMem, memSpec <- msrMemSpec, fresh <- msrFresh,
         pushed <- msrPushed

Approval == INSTANCE ChangeApprovalProofs
    WITH spec <- mcaSpec, status <- mcaStatus, finalizer <- mcaFinalizer,
         life <- mcaLife, pc <- mcaPc, mem <- mcaMem, memSpec <- mcaMemSpec,
         fresh <- mcaFresh, pushed <- mcaPushed

\* What the two modules assume of their constants.
ASSUME SigningAssumption ==
    Signing!BoardAssumption /\ Signing!NoFreeQuorum /\ Signing!BoundAssumption
ASSUME ApprovalAssumption == Approval!BoundAssumption

-----------------------------------------------------------------------------

\* Versions are approved whether the MCA rests or not.
Init == Signing!Init /\ Approval!Init /\ calm = FALSE

\* The MSR controller takes a version to the MCA.
WritesMCA ==
    /\ mcaLife = "live"
    /\ Signing!UpdateMCASpec
    /\ mca' # mca
    /\ Approval!SpecWritten(mca'.version)

\* Any other step of the MSR controller, of governors and of the MRT controller, which
\* proposes changes when the MRT is initialised.  The write of an MCA that is deleted
\* is a call that fails.
SigningStep ==
    /\ UNCHANGED <<between, approval>>
    /\ Signing!Next
    /\ msrSpec' # msrSpec => governed
    /\ Signing!UpdateMCASpec => mcaLife = "live"

\* A step of the MCA controller, of ArgoCD and its webhook, of caches and people.  Its
\* pushes move HEAD as the commits of others do.
ApprovalStep == UNCHANGED <<signing, between>> /\ Approval!Next

Next == WritesMCA \/ SigningStep \/ ApprovalStep

Spec == Init /\ [][Next]_vars

-----------------------------------------------------------------------------
(***************************************************************************)
(* Properties                                                              *)
(***************************************************************************)

\* The signatures that count, of every version.
BoardSigned == [v \in 0 .. MaxVersion |-> signed[v] \cap Governors]

\* The promise of the two controllers together: a governed resource only takes, and
\* never goes back from, versions that a quorum of governors has signed, though the
\* signatures are checked by one controller, on a copy of another object, long before
\* the webhook admits the commit of what that controller wrote.  If versions do not
\* wait, the quorum may have signed an earlier version.
Delivery == INSTANCE QuorumDelivery
    WITH approved <- mcaSpec, Versions <- 0 .. MaxVersion,
         Waits <- Arrivals = "resting", signed <- BoardSigned
DeliversWhatIsSigned == Delivery!SignedSpec
=============================================================================
