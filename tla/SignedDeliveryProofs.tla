------------------------ MODULE SignedDeliveryProofs ------------------------
(***************************************************************************)
(* That the MSR controller, the MCA controller and the webhook together    *)
(* keep the promise of QuorumDelivery, for every governance board, rule,   *)
(* number of versions and faults: proofs checked by TLAPS.  What is known  *)
(* of each controller is cited of its instance, once the composition is    *)
(* shown to take only steps of that controller's specification.            *)
(***************************************************************************)
EXTENDS SignedDelivery, TLAPS

LEMMA Bounds ==
    /\ MaxVersion \in Nat
    /\ Signing!Versions = 0 .. MaxVersion /\ Approval!Versions = 0 .. MaxVersion
  BY SigningAssumption
  DEF SigningAssumption, Signing!BoundAssumption, Signing!Versions, Approval!Versions

-----------------------------------------------------------------------------
(***************************************************************************)
(* The MSR controller                                                      *)
(***************************************************************************)

LEMMA SigningInit == Init => Signing!Init
  BY DEF Init

LEMMA SigningNext == [Next]_vars => [Signing!Next]_(Signing!vars)
<1>. SUFFICES ASSUME [Next]_vars PROVE [Signing!Next]_(Signing!vars)
  OBVIOUS
<1>1. CASE WritesMCA
  BY <1>1 DEF WritesMCA, Signing!Next, Signing!Reconcile, Signing!Handler
<1>2. CASE SigningStep
  BY <1>2 DEF SigningStep
<1>3. CASE ApprovalStep \/ UNCHANGED vars
  BY <1>3 DEF ApprovalStep, vars, signing, between, Signing!vars, Signing!cluster,
              Signing!worker, Signing!repository
<1>. QED
  BY <1>1, <1>2, <1>3 DEF Next

\* The composition never makes the MSR controller take a step that is not its own.
THEOREM SigningHolds == Spec => Signing!Spec
  BY SigningInit, SigningNext, PTL DEF Spec, Signing!Spec

\* The MCA carries its own quorum when versions wait.
Carries == Arrivals = "resting" => Signing!MCACarriesItsQuorum

LEMMA SigningInv == Spec => [](Signing!IInv /\ Carries)
<1>1. Signing!Spec => []Signing!IInv
  BY Signing!InvCorrect, SigningAssumption
<1>2. CASE Arrivals = "resting"
  <2>1. Signing!Spec => []Signing!MCACarriesItsQuorum
    BY <1>2, Signing!CarriesCorrect, SigningAssumption
  <2>2. Signing!MCACarriesItsQuorum => Carries
    BY DEF Carries
  <2>. QED
    BY <1>1, <2>1, <2>2, SigningHolds, PTL
<1>3. CASE Arrivals # "resting"
  <2>1. Carries
    BY <1>3 DEF Carries
  <2>. QED
    BY <1>1, <2>1, SigningHolds, PTL
<1>. QED
  BY <1>2, <1>3

-----------------------------------------------------------------------------
(***************************************************************************)
(* Between the controllers                                                 *)
(***************************************************************************)

\* A quorum has signed what the MCA approves: that version when versions wait, else
\* one not later.
MCABacked == mca.version > 0 => Delivery!Backed(mca.version)

LEMMA MCAIsBacked == Signing!IInv /\ Carries => MCABacked
<1>. SUFFICES ASSUME Signing!IInv, Carries, mca.version > 0
              PROVE  Delivery!Backed(mca.version)
  BY DEF MCABacked
<1>1. mca.version \in 0 .. MaxVersion
  BY Bounds DEF Signing!IInv, Signing!TypeOK, Signing!MCASpec
<1>2. CASE Arrivals = "resting"
  <2>1. /\ Signing!Fulfilled(mca.signers)
        /\ mca.signers \subseteq signed[mca.version]
    BY <1>2 DEF Carries, Signing!MCACarriesItsQuorum
  <2>2. PICK Q \in Quorums : Q \subseteq mca.signers \cap Governors
    BY <2>1 DEF Signing!Fulfilled
  <2>3. Q \subseteq BoardSigned[mca.version]
    BY <1>1, <2>1, <2>2 DEF BoardSigned
  <2>. QED
    BY <1>1, <1>2, <2>3 DEF Delivery!Backed
<1>3. CASE Arrivals # "resting"
  <2>1. PICK i \in Signing!ApprovedRecords(msrStatus) :
            msrStatus.history[i].version <= mca.version
    BY DEF Signing!IInv, Signing!MCAFollowsAnApproval
  <2>. DEFINE w == msrStatus.history[i].version
  <2>2. /\ Signing!Fulfilled(msrStatus.history[i].signers)
        /\ w \in msrPushed
        /\ msrStatus.history[i].signers \subseteq signed[w]
    BY DEF Signing!IInv, Signing!Earned
  <2>3. w \in 0 .. MaxVersion
    BY <2>2, Bounds DEF Signing!IInv, Signing!TypeOK
  <2>4. PICK Q \in Quorums : Q \subseteq msrStatus.history[i].signers \cap Governors
    BY <2>2 DEF Signing!Fulfilled
  <2>5. Q \subseteq BoardSigned[w]
    BY <2>2, <2>3, <2>4 DEF BoardSigned
  <2>. QED
    BY <1>3, <2>1, <2>3, <2>5 DEF Delivery!Backed
<1>. QED
  BY <1>2, <1>3

\* Both controllers see one MCA, no change is proposed before the governance, and the
\* webhook only knows of versions that a quorum has signed.
Between ==
    /\ mcaSpec = mca.version
    /\ msrSpec > 0 => governed
    /\ seenMCA.spec > 0 => Delivery!Backed(seenMCA.spec)
    /\ calm = FALSE

LEMMA BetweenInit == Init => Between
  BY DEF Init, Between, Signing!Init, Approval!Init, Approval!CachedMCA

\* A step of the composition signs at most once.
LEMMA SignsOnce ==
    ASSUME Signing!IInv, [Next]_vars
    PROVE  \/ BoardSigned' = BoardSigned
           \/ \E g \in Governors, v \in 0 .. MaxVersion :
                  BoardSigned' = [BoardSigned EXCEPT ![v] = @ \cup {g}]
<1>1. Signing!TypeOK /\ [Signing!Next]_(Signing!vars)
  BY SigningNext DEF Signing!IInv
<1>2. CASE signed' = signed
  BY <1>2 DEF BoardSigned
<1>3. CASE \E g \in Signing!Aliases, v \in Signing!Versions :
               signed' = [signed EXCEPT ![v] = @ \cup {g}]
  <2>1. PICK g \in Signing!Aliases, v \in 0 .. MaxVersion :
            signed' = [signed EXCEPT ![v] = @ \cup {g}]
    BY <1>3, Bounds
  <2>2. signed \in [0 .. MaxVersion -> SUBSET Signing!Aliases]
    BY <1>1, Bounds DEF Signing!TypeOK
  <2>3. CASE g \in Governors
    <3>1. BoardSigned' = [BoardSigned EXCEPT ![v] = @ \cup {g}]
      BY <2>1, <2>2, <2>3 DEF BoardSigned
    <3>. QED
      BY <2>3, <3>1
  <2>4. CASE g \notin Governors
    BY <2>1, <2>2, <2>4 DEF BoardSigned
  <2>. QED
    BY <2>3, <2>4
<1>. QED
  BY <1>1, <1>2, <1>3, Signing!SignedOneByOne, SigningAssumption

\* What a quorum has signed stays signed.
LEMMA SignaturesStay ==
    ASSUME Signing!IInv, [Next]_vars
    PROVE  \A w \in 0 .. MaxVersion : BoardSigned[w] \subseteq BoardSigned'[w]
  BY SignsOnce DEF BoardSigned

LEMMA BackingStays ==
    ASSUME Signing!IInv, [Next]_vars, UNCHANGED seenMCA,
           seenMCA.spec > 0 => Delivery!Backed(seenMCA.spec)
    PROVE  (seenMCA.spec > 0 => Delivery!Backed(seenMCA.spec))'
<1>1. CASE seenMCA.spec > 0
  <2>1. PICK w \in 0 .. MaxVersion :
            /\ IF Arrivals = "resting" THEN w = seenMCA.spec ELSE w <= seenMCA.spec
            /\ \E Q \in Quorums : Q \subseteq BoardSigned[w]
    BY <1>1 DEF Delivery!Backed
  <2>2. \E Q \in Quorums : Q \subseteq BoardSigned'[w]
    BY <2>1, SignaturesStay
  <2>. QED
    BY <2>1, <2>2 DEF Delivery!Backed
<1>. QED
  BY <1>1

\* The MCA controller and the webhook, and what they rely on of the MSR controller:
\* versions that rise, and none before the governance.
LEMMA WritesApproved ==
    ASSUME Signing!IInv, Between, WritesMCA
    PROVE  /\ Approval!UpdateMCASpec(mca'.version)
           /\ mca'.version \in 0 .. MaxVersion /\ mca'.version > mca.version
           /\ mcaSpec' = mca'.version
           /\ UNCHANGED <<msrSpec, signed, governed, seenMCA, calm, applied>>
<1>1. /\ mca'.version \in 0 .. MaxVersion /\ mca'.version <= msrSpec
      /\ mca'.version > mca.version
      /\ UNCHANGED <<msrSpec, signed>>
  BY Signing!MCAMovesOn, SigningAssumption, Bounds DEF WritesMCA
<1>2. mca.version \in Nat /\ msrSpec \in Nat /\ mca'.version \in Nat
  BY <1>1, Bounds DEF Signing!IInv, Signing!TypeOK, Signing!MCASpec
<1>3. governed /\ ~calm /\ mca'.version > mcaSpec
  BY <1>1, <1>2 DEF Between
<1>4. Approval!UpdateMCASpec(mca'.version)
  BY <1>3 DEF WritesMCA, Approval!UpdateMCASpec
<1>5. UNCHANGED <<governed, seenMCA, calm, applied>> /\ mcaSpec' = mca'.version
  BY DEF WritesMCA, Approval!SpecWritten, Approval!webhook, Approval!argo
<1>. QED
  BY <1>1, <1>4, <1>5

LEMMA ApprovalInit == Init => Approval!Init
  BY DEF Init

LEMMA ApprovalNext ==
    Signing!IInv /\ Between /\ [Next]_vars => [Approval!Next]_(Approval!vars)
<1>. SUFFICES ASSUME Signing!IInv, Between, [Next]_vars
              PROVE  [Approval!Next]_(Approval!vars)
  OBVIOUS
<1>1. CASE WritesMCA
  <2>1. \E v \in Approval!Versions : Approval!UpdateMCASpec(v)
    BY <1>1, WritesApproved, Bounds
  <2>. QED
    BY <2>1 DEF Approval!Next, Approval!Environment
<1>2. CASE ApprovalStep
  BY <1>2 DEF ApprovalStep
<1>3. CASE SigningStep \/ UNCHANGED vars
  BY <1>3 DEF SigningStep, vars, approval, between, Approval!vars, Approval!cluster,
              Approval!worker, Approval!repository, Approval!argo, Approval!webhook
<1>. QED
  BY <1>1, <1>2, <1>3 DEF Next

LEMMA BetweenNext ==
    Signing!IInv /\ Carries /\ Between /\ [Next]_vars => Between'
<1>. SUFFICES ASSUME Signing!IInv, Carries, Between, [Next]_vars PROVE Between'
  OBVIOUS
<1>1. CASE WritesMCA
  <2>1. UNCHANGED <<msrSpec, governed, seenMCA, calm>> /\ mcaSpec' = mca'.version
    BY <1>1, WritesApproved
  <2>2. (seenMCA.spec > 0 => Delivery!Backed(seenMCA.spec))'
    BY <2>1, BackingStays DEF Between
  <2>. QED
    BY <2>1, <2>2 DEF Between
<1>2. CASE SigningStep
  <2>1. /\ UNCHANGED <<mca, mcaSpec, governed, seenMCA, calm>>
        /\ msrSpec' # msrSpec => governed
    BY <1>2 DEF SigningStep, between, approval
  <2>2. (seenMCA.spec > 0 => Delivery!Backed(seenMCA.spec))'
    BY <2>1, BackingStays DEF Between
  <2>. QED
    BY <2>1, <2>2 DEF Between
<1>3. CASE ApprovalStep
  <2>1. /\ UNCHANGED <<mca, mcaSpec, msrSpec, signed>>
        /\ [Approval!Next]_(Approval!vars)
    BY <1>3 DEF ApprovalStep, signing, between
  <2>2. /\ calm' = calm /\ (governed => governed')
        /\ (seenMCA' = seenMCA \/ seenMCA'.spec = mcaSpec)
    BY <2>1, Approval!WebhookLearns, ApprovalAssumption
  <2>3. mca.version > 0 => Delivery!Backed(mca.version)
    BY MCAIsBacked DEF MCABacked
  <2>4. seenMCA'.spec > 0 => Delivery!Backed(seenMCA'.spec)
    BY <2>2, <2>3 DEF Between
  <2>5. (seenMCA.spec > 0 => Delivery!Backed(seenMCA.spec))'
    BY <2>1, <2>4 DEF Delivery!Backed, BoardSigned
  <2>. QED
    BY <2>1, <2>2, <2>5 DEF Between
<1>4. CASE UNCHANGED vars
  BY <1>4 DEF vars, signing, between, approval, Between, Delivery!Backed, BoardSigned
<1>. QED
  BY <1>1, <1>2, <1>3, <1>4 DEF Next

\* What holds between the controllers holds for good.
LEMMA BetweenInv == Spec => []Between
  BY BetweenInit, BetweenNext, SigningInv, PTL DEF Spec

\* What ChangeApproval leaves to its environment, the MSR controller provides: whatever
\* the composition does to the MCA, the webhook and ArgoCD is a behaviour of it.
THEOREM ApprovalHolds == Spec => Approval!Spec
<1>1. Spec => [](Signing!IInv /\ Between)
  BY SigningInv, BetweenInv, PTL
<1>. QED
  BY <1>1, ApprovalInit, ApprovalNext, PTL DEF Spec, Approval!Spec

LEMMA ApprovalInv == Spec => []Approval!IInv
  BY ApprovalHolds, Approval!InvCorrect, ApprovalAssumption, PTL

-----------------------------------------------------------------------------
(***************************************************************************)
(* The promise                                                             *)
(***************************************************************************)

LEMMA DeliveryInit == Init => Delivery!SignedInit
<1>. SUFFICES ASSUME Init PROVE Delivery!SignedInit
  OBVIOUS
<1>1. BoardSigned = [v \in 0 .. MaxVersion |-> {}]
  BY Bounds DEF Init, Signing!Init, BoardSigned
<1>2. Delivery!Init
  BY DEF Init, Approval!Init, Approval!Unapproved, Delivery!Init
<1>. QED
  BY <1>1, <1>2 DEF Delivery!SignedInit

\* A write of the MCA approves a version that a quorum has signed.
LEMMA DeliveryWrite ==
    ASSUME Signing!IInv, MCABacked', Between, WritesMCA
    PROVE  Delivery!SignedNext
<1>1. /\ mca'.version \in 0 .. MaxVersion /\ mca'.version > mca.version
      /\ mcaSpec' = mca'.version /\ mcaSpec = mca.version
      /\ UNCHANGED <<signed, governed, applied>>
  BY WritesApproved DEF Between
<1>2. mca'.version \in Nat /\ mca.version \in Nat
  BY <1>1, Bounds DEF Signing!IInv, Signing!TypeOK, Signing!MCASpec
<1>3. Delivery!Backed(mca.version)'
  BY <1>1, <1>2 DEF MCABacked
<1>4. UNCHANGED BoardSigned
  BY <1>1 DEF BoardSigned
<1>5. Delivery!Backed(mcaSpec')
  BY <1>1, <1>3, <1>4 DEF Delivery!Backed
<1>6. Delivery!Approve
  BY <1>1, <1>2 DEF Delivery!Approve
<1>. QED
  BY <1>4, <1>5, <1>6 DEF Delivery!SignedNext

\* A step of the MSR controller, or of those around it, signs or changes nothing of
\* the promise.
LEMMA DeliverySign ==
    ASSUME Signing!IInv, SigningStep
    PROVE  [Delivery!SignedNext]_<<Delivery!vars, BoardSigned>>
<1>1. UNCHANGED <<governed, mcaSpec, applied>>
  BY DEF SigningStep, between, approval
<1>2. UNCHANGED Delivery!vars
  BY <1>1 DEF Delivery!vars
<1>3. CASE BoardSigned' = BoardSigned
  BY <1>2, <1>3
<1>4. CASE \E g \in Governors, v \in 0 .. MaxVersion :
               BoardSigned' = [BoardSigned EXCEPT ![v] = @ \cup {g}]
  <2>1. \E g \in Governors, v \in 0 .. MaxVersion : Delivery!Sign(g, v)
    BY <1>2, <1>4 DEF Delivery!Sign
  <2>. QED
    BY <2>1 DEF Delivery!SignedNext
<1>. QED
  BY <1>3, <1>4, SignsOnce DEF Next

\* What the webhook admits under governance is signed, and not older than what the
\* resource has.
LEMMA DeliveryApply ==
    ASSUME Approval!IInv, Between, ApprovalStep, applied' # applied
    PROVE  Delivery!SignedNext
<1>1. /\ UNCHANGED <<mcaSpec, BoardSigned>>
      /\ [Approval!Next]_(Approval!vars)
  BY DEF ApprovalStep, signing, between, BoardSigned
<1>2. /\ Approval!Admitted(operation)
      /\ governed' = governed
      /\ \E r \in Resources : applied' = [applied EXCEPT ![r] = operation]
  BY <1>1, Approval!AppliedIsAdmitted, ApprovalAssumption
<1>3. PICK r \in Resources : applied' = [applied EXCEPT ![r] = operation]
  BY <1>2
<1>4. governed => operation = seenMCA.spec
  BY <1>2, Approval!AdmittedIsKnown, ApprovalAssumption
<1>5. /\ operation \in Int /\ operation >= -1 /\ operation <= mcaSpec
      /\ seenMCA.spec \in Nat /\ mcaSpec \in Nat
      /\ applied \in [Resources -> Int] /\ applied[r] <= seenMCA.spec
  BY Approval!VersionTypes, ApprovalAssumption
  DEF Approval!IInv, Approval!TypeOK, Approval!KnownIsApproved, Approval!AppliedIsKnown
<1>6. CASE ~governed
  <2>1. operation \in -1 .. mcaSpec
    BY <1>5
  <2>2. Delivery!ApplyFreely(r)
    BY <1>1, <1>2, <1>3, <1>6, <2>1 DEF Delivery!ApplyFreely
  <2>. QED
    BY <1>1, <2>2 DEF Delivery!SignedNext
<1>7. CASE governed
  <2>1. operation \in {a \in 0 .. mcaSpec : a >= applied[r]}
    BY <1>4, <1>5, <1>7
  <2>2. Delivery!Apply(r)
    BY <1>1, <1>2, <1>3, <1>7, <2>1 DEF Delivery!Apply
  <2>3. applied'[r] = 0 \/ Delivery!Backed(applied'[r])
    <3>1. applied'[r] = seenMCA.spec
      BY <1>3, <1>4, <1>5, <1>7
    <3>2. seenMCA.spec > 0 => Delivery!Backed(seenMCA.spec)
      BY DEF Between
    <3>. QED
      BY <1>5, <3>1, <3>2
  <2>. QED
    BY <1>1, <2>2, <2>3 DEF Delivery!SignedNext
<1>. QED
  BY <1>6, <1>7

\* Any other step on the MCA's side at most starts the governance.
LEMMA DeliveryOther ==
    ASSUME ApprovalStep, applied' = applied
    PROVE  [Delivery!SignedNext]_<<Delivery!vars, BoardSigned>>
<1>1. /\ UNCHANGED <<mcaSpec, BoardSigned>>
      /\ [Approval!Next]_(Approval!vars)
  BY DEF ApprovalStep, signing, between, BoardSigned
<1>2. governed' # governed => governed' = TRUE
  BY <1>1, Approval!WebhookLearns, ApprovalAssumption
<1>3. CASE governed' = governed
  BY <1>1, <1>3 DEF Delivery!vars
<1>4. CASE governed' # governed
  BY <1>1, <1>2, <1>4 DEF Delivery!SignedNext, Delivery!StartGovernance
<1>. QED
  BY <1>3, <1>4

LEMMA DeliveryNext ==
    /\ Signing!IInv /\ Between /\ Approval!IInv
    /\ MCABacked' /\ [Next]_vars
    => [Delivery!SignedNext]_<<Delivery!vars, BoardSigned>>
<1>. SUFFICES ASSUME Signing!IInv, Between, Approval!IInv, MCABacked',
                     [Next]_vars
              PROVE  [Delivery!SignedNext]_<<Delivery!vars, BoardSigned>>
  OBVIOUS
<1>1. CASE WritesMCA
  BY <1>1, DeliveryWrite
<1>2. CASE SigningStep
  BY <1>2, DeliverySign
<1>3. CASE ApprovalStep
  BY <1>3, DeliveryApply, DeliveryOther
<1>4. CASE UNCHANGED vars
  BY <1>4 DEF vars, signing, between, approval, Delivery!vars, BoardSigned
<1>. QED
  BY <1>1, <1>2, <1>3, <1>4 DEF Next

\* The controllers and the webhook together implement QuorumDelivery: a governed
\* resource only takes versions that a quorum of governors has signed (or version 0),
\* and only moves forward, whatever fails, restarts or lags between the signatures in
\* the repository and the cluster.
THEOREM SignedDeliveryCorrect == Spec => DeliversWhatIsSigned
<1>1. Spec => [](Signing!IInv /\ Carries /\ Between /\ Approval!IInv /\ MCABacked)
  BY SigningInv, BetweenInv, ApprovalInv, MCAIsBacked, PTL
<1>. QED
  BY <1>1, DeliveryInit, DeliveryNext, PTL
  DEF Spec, DeliversWhatIsSigned, Delivery!SignedSpec
=============================================================================
