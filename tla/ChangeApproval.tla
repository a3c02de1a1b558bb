--------------------------- MODULE ChangeApproval ---------------------------
(***************************************************************************)
(* The ManifestChangeApproval (MCA) controller and the admission webhook   *)
(* that lets ArgoCD apply approved commits only:                           *)
(* kubernetes/internal/controller/manifestchangeapproval_controller.go,    *)
(* kubernetes/internal/webhook/v1alpha1/argocdchangeadmission_webhook.go.  *)
(*                                                                         *)
(* The MSR controller writes approved versions to mca.spec at any time.    *)
(* The MCA controller's single worker publishes the version in the git     *)
(* repository, records it in status.approvalHistory, points the ArgoCD     *)
(* Application at its commit and notifies the governors, one step for each *)
(* Reconcile, on a copy of the MCA as in SigningRequest.  ArgoCD syncs the *)
(* commit the Application points at; the webhook decides on every resource *)
(* from what the operator's caches hold of the MRT and of the MCA.         *)
(*                                                                         *)
(* A version stands for the approved commit and the whole spec of the MCA; *)
(* every version has a commit of its own.                                  *)
(***************************************************************************)
EXTENDS Integers, FiniteSets, SequencesExt

CONSTANTS
    Resources,      \* resources of the Application
    MaxVersion,     \* bound: last version the MSR controller writes
    MaxMishaps      \* bound: crashes and failed calls of the MCA controller, syncs
                    \* of a commit chosen by hand, deletions of the MCA

ASSUME BoundAssumption == MaxVersion \in Nat /\ MaxMishaps \in Nat

VARIABLES
    calm,       \* environment, fixed: versions only arrive while the MCA rests
    spec,       \* mca.spec.version
    status,     \* mca.status as stored by the API server
    finalizer,  \* GovernanceFinalizer is set: initialisation is complete
    life,       \* "live", "deleting" (deletionTimestamp set) or "gone"
    pc,         \* next call of the worker, "idle" outside Reconcile
    mem,        \* status of the worker's copy of the MCA
    memSpec,    \* spec version of the worker's copy
    fresh,      \* the copy still has the stored resourceVersion
    pushed,     \* versions whose v_N folder holds the MCA and its signature
    summarised, \* versions whose v_N folder holds the summary files
    told,       \* versions the governors were notified of
    target,     \* the Application's spec.source.targetRevision
    operation,  \* revision of the running sync (status.operationState)
    remaining,  \* resources the running sync has yet to apply
    applied,    \* applied[r]: revision r was last applied from
    governed,   \* the MRT has its finalizer, as the operator's cache has it
    seenMCA,    \* the MCA, as the operator's cache has it
    mishaps     \* mishaps so far

cluster == <<spec, status, finalizer, life>>
worker == <<pc, mem, memSpec, fresh>>
repository == <<pushed, summarised>>
argo == <<operation, remaining, applied>>
webhook == <<governed, seenMCA>>
vars == <<calm, cluster, worker, repository, told, target, argo, webhook, mishaps>>

-----------------------------------------------------------------------------

Versions == 0 .. MaxVersion

\* A commit nobody approved, which is also what the branch leads to.
Unapproved == -1
Commits == Versions \cup {Unapproved}

CreateStates == {"GitPushMCA", "PushSummaryFiles", "UpdateAfterGitPush",
                 "UpdateArgoCD", "InitSetFinalizer"}
ActionStates == CreateStates \cup {"Empty", "NewMCASpec"}
ReconcileStates == {"Empty", "PushSummaryFiles", "UpdateAfterGitPush",
                    "UpdateArgoCD", "NotifyGovernors"}

MCAStatus == [action : ActionStates, progressing : BOOLEAN,
              reconcile : ReconcileStates, history : Seq(Versions)]

NewStatus == [action |-> "Empty", progressing |-> FALSE,
              reconcile |-> "Empty", history |-> <<>>]

\* latestHistoryVersion of reconcileNormal
LatestVersion(st) == IF st.history = <<>> THEN -1 ELSE Last(st.history)

CachedMCA == [exists |-> life # "gone", spec |-> spec,
              recorded |-> Range(status.history)]

\* The MCA just created by the MRT controller, for an Application that follows
\* the branch.
Init ==
    /\ calm \in BOOLEAN
    /\ spec = 0 /\ status = NewStatus /\ finalizer = FALSE /\ life = "live"
    /\ pc = "idle" /\ mem = NewStatus /\ memSpec = 0 /\ fresh = FALSE
    /\ pushed = {} /\ summarised = {} /\ told = {}
    /\ target = Unapproved /\ operation = Unapproved /\ remaining = {}
    /\ applied = [r \in Resources |-> Unapproved]
    /\ governed = FALSE /\ seenMCA = CachedMCA
    /\ mishaps = 0

Mishap == mishaps < MaxMishaps /\ mishaps' = mishaps + 1

\* The worker returns from Reconcile: the copy is dropped.
Return ==
    /\ pc' = "idle" /\ mem' = NewStatus /\ memSpec' = 0 /\ fresh' = FALSE

\* What no step of the worker but its own call changes.
Outside == <<calm, spec, life, argo, webhook>>

(***************************************************************************)
(* Reconcile up to the lock                                                *)
(***************************************************************************)

\* A single Status().Update on the object just read.
WriteStatus(st) ==
    /\ pc = "idle" /\ life = "live"
    /\ status' = st
    /\ UNCHANGED <<Outside, finalizer, worker, repository, told, target, mishaps>>

AcquireLock(newState) ==
    /\ pc = "idle" /\ life = "live"
    /\ ~(status.action = newState /\ status.progressing)
    /\ status' = [status EXCEPT !.action = newState, !.progressing = TRUE]
    /\ pc' = "handler" /\ mem' = status' /\ memSpec' = spec /\ fresh' = TRUE
    /\ UNCHANGED <<Outside, finalizer, repository, told, target, mishaps>>

\* isLockForMoreThan(30s): the lock outlived the Reconcile that took it.
LockTimeout ==
    /\ status.progressing
    /\ WriteStatus([status EXCEPT !.progressing = FALSE])

ReconcileCreate ==
    /\ ~finalizer
    /\ status.action \in CreateStates \cup {"Empty"}
    /\ AcquireLock(IF status.action = "Empty" THEN "GitPushMCA" ELSE status.action)

\* Mutant: the version already recorded counts as new.
DetectSameVersion ==
    /\ finalizer /\ ~status.progressing
    /\ status.action = "Empty"
    /\ spec >= LatestVersion(status)
    /\ WriteStatus([status EXCEPT !.action = "NewMCASpec"])

DetectNewVersion ==
    /\ finalizer /\ ~status.progressing
    /\ status.action = "Empty"
    /\ spec > LatestVersion(status)
    /\ WriteStatus([status EXCEPT !.action = "NewMCASpec"])

\* The default branch: nothing to do, or a state left over by initialisation.
ResetAction ==
    /\ finalizer /\ ~status.progressing
    /\ \/ status.action \in CreateStates
       \/ status.action = "Empty" /\ spec <= LatestVersion(status)
    /\ WriteStatus([status EXCEPT !.action = "Empty"])

ReconcileNewMCASpec ==
    /\ finalizer /\ ~status.progressing
    /\ status.action = "NewMCASpec"
    /\ AcquireLock("NewMCASpec")

-----------------------------------------------------------------------------
(***************************************************************************)
(* Handlers.  Initialisation and NewMCASpec take the same steps; the first *)
(* ends with the finalizer, the second with the notifications.             *)
(***************************************************************************)

\* The handler a status leads to.
Stage(st) ==
    IF st.action # "NewMCASpec" THEN st.action
    ELSE IF st.reconcile = "Empty" THEN "GitPushMCA" ELSE st.reconcile

InHandler(step) == pc = "handler" /\ step = Stage(mem)

\* withLock: the handler succeeded, the lock is to be released into nextState.
ToRelease(st, nextState) ==
    /\ mem' = [st EXCEPT !.action = nextState, !.progressing = FALSE]
    /\ pc' = "release"
    /\ UNCHANGED <<memSpec, fresh>>

\* withReconcileLock: the new sub-state is saved first.
ToSubstate(st) ==
    /\ mem' = st
    /\ pc' = "substate"
    /\ UNCHANGED <<memSpec, fresh>>

Succeed(createState, reconcileState) ==
    IF mem.action = "NewMCASpec"
    THEN ToSubstate([mem EXCEPT !.reconcile = reconcileState])
    ELSE ToRelease(mem, createState)

\* Mutant: the summary files are forgotten.
GitCommitOnly ==
    /\ InHandler("GitPushMCA")
    /\ pushed' = pushed \cup {memSpec}
    /\ Succeed("PushSummaryFiles", "UpdateAfterGitPush")
    /\ UNCHANGED <<Outside, status, finalizer, summarised, told, target, mishaps>>

GitCommit ==
    /\ InHandler("GitPushMCA")
    /\ pushed' = pushed \cup {memSpec}
    /\ Succeed("PushSummaryFiles", "PushSummaryFiles")
    /\ UNCHANGED <<Outside, status, finalizer, summarised, told, target, mishaps>>

PushSummaryFiles ==
    /\ InHandler("PushSummaryFiles")
    /\ summarised' = summarised \cup {memSpec}
    /\ Succeed("UpdateAfterGitPush", "UpdateAfterGitPush")
    /\ UNCHANGED <<Outside, status, finalizer, pushed, told, target, mishaps>>

\* createNewMCAHistoryRecordFromSpec
NewRecord == memSpec

\* Mutant: the record takes the place of the history.
UpdateAfterGitPushReplaces ==
    /\ InHandler("UpdateAfterGitPush")
    /\ mem' = [mem EXCEPT !.history = <<NewRecord>>]
    /\ pc' = "save"
    /\ UNCHANGED <<Outside, status, finalizer, memSpec, fresh, repository, told,
                   target, mishaps>>

UpdateAfterGitPush ==
    /\ InHandler("UpdateAfterGitPush")
    /\ mem' = [mem EXCEPT !.history = Append(@, NewRecord)]
    /\ pc' = "save"
    /\ UNCHANGED <<Outside, status, finalizer, memSpec, fresh, repository, told,
                   target, mishaps>>

\* Mutants: the Application is pointed at an approved commit once, or the governors
\* are forgotten.
UpdateArgoCDOnce ==
    /\ InHandler("UpdateArgoCD")
    /\ target' = IF target = Unapproved THEN memSpec ELSE target
    /\ Succeed("InitSetFinalizer", "NotifyGovernors")
    /\ UNCHANGED <<Outside, status, finalizer, repository, told, mishaps>>

UpdateArgoCDSilently ==
    /\ InHandler("UpdateArgoCD")
    /\ target' = memSpec
    /\ Succeed("InitSetFinalizer", "Empty")
    /\ UNCHANGED <<Outside, status, finalizer, repository, told, mishaps>>

UpdateArgoCD ==
    /\ InHandler("UpdateArgoCD")
    /\ target' = memSpec
    /\ Succeed("InitSetFinalizer", "NotifyGovernors")
    /\ UNCHANGED <<Outside, status, finalizer, repository, told, mishaps>>

InitSetFinalizer ==
    /\ InHandler("InitSetFinalizer")
    /\ finalizer' = (finalizer \/ fresh)
    /\ ToRelease(mem, IF fresh THEN "Empty" ELSE mem.action)
    /\ UNCHANGED <<Outside, status, repository, told, target, mishaps>>

NotifyGovernors ==
    /\ InHandler("NotifyGovernors")
    /\ told' = told \cup {memSpec}
    /\ Succeed("Empty", "Empty")
    /\ UNCHANGED <<Outside, status, finalizer, repository, target, mishaps>>

-----------------------------------------------------------------------------
(***************************************************************************)
(* The writes that end a Reconcile.  A write of a copy that is no longer   *)
(* fresh is refused; releaseLockWithFailure then writes the same copy and  *)
(* is refused as well, so the lock stays until LockTimeout.                *)
(***************************************************************************)

\* UpdateAfterGitPush's own Status().Update.
SaveStatus ==
    /\ pc = "save"
    /\ status' = IF fresh THEN mem ELSE status
    /\ IF fresh THEN Succeed("UpdateArgoCD", "UpdateArgoCD")
                ELSE ToRelease(mem, mem.action)
    /\ UNCHANGED <<Outside, finalizer, repository, told, target, mishaps>>

\* Only NotifyGovernors, the last sub-state, ends the action.
SaveSubstate ==
    /\ pc = "substate"
    /\ status' = IF fresh THEN mem ELSE status
    /\ ToRelease(mem, IF fresh /\ mem.reconcile = "Empty" THEN "Empty"
                                                           ELSE "NewMCASpec")
    /\ UNCHANGED <<Outside, finalizer, repository, told, target, mishaps>>

ReleaseLock ==
    /\ pc = "release"
    /\ status' = IF fresh THEN mem ELSE status
    /\ Return
    /\ UNCHANGED <<Outside, finalizer, repository, told, target, mishaps>>

\* A call of the handler, or one of its status writes, fails: the lock is
\* released with failure, and what the copy holds by then is written with it.
CallFails ==
    /\ pc \in {"handler", "save", "substate"}
    /\ Mishap
    /\ ToRelease(mem, mem.action)
    /\ UNCHANGED <<Outside, status, finalizer, repository, told, target>>

\* The operator restarts, or the release itself fails: the lock is left held.
Crash ==
    /\ pc # "idle"
    /\ Mishap
    /\ Return
    /\ UNCHANGED <<Outside, status, finalizer, repository, told, target>>

\* reconcileDelete: removing the finalizer lets the API server drop the object.
ReconcileDelete ==
    /\ pc = "idle" /\ life = "deleting"
    /\ finalizer' = FALSE
    /\ life' = "gone"
    /\ UNCHANGED <<calm, spec, status, worker, repository, told, target, argo,
                   webhook, mishaps>>

\* Reconcile of an object that is gone returns at once.
ReconcileNotFound ==
    /\ pc = "idle" /\ life = "gone"
    /\ UNCHANGED vars

-----------------------------------------------------------------------------
(***************************************************************************)
(* The admission webhook and ArgoCD                                        *)
(***************************************************************************)

\* Mutants: a commit not recorded yet is let in, or one that is not the latest.
AdmittedUnrecorded(revision) ==
    ~governed \/ (seenMCA.exists /\ revision = seenMCA.spec)
AdmittedAnyRecorded(revision) ==
    ~governed \/ (seenMCA.exists /\ revision \in seenMCA.recorded)

\* validateMRTInitialization, checkRevisionApprovalStatus
Admitted(revision) ==
    \/ ~governed
    \/ /\ seenMCA.exists
       /\ revision \in seenMCA.recorded
       /\ revision = seenMCA.spec

StartSync(revision) ==
    /\ remaining = {}
    /\ operation' = revision
    /\ remaining' = Resources
    /\ UNCHANGED <<calm, cluster, worker, repository, told, target, applied, webhook>>

\* ArgoCD syncs, and syncs again, while a resource differs from the target.
AutoSync ==
    /\ \E r \in Resources : applied[r] # target
    /\ StartSync(target)
    /\ UNCHANGED mishaps

\* Somebody syncs another commit, or rolls back to it.
SyncByHand(revision) ==
    /\ revision <= spec
    /\ Mishap
    /\ StartSync(revision)

\* ArgoCD applies a resource; the webhook takes the revision from the operation.
ApplyResource(r) ==
    /\ r \in remaining
    /\ remaining' = remaining \ {r}
    /\ operation' = IF remaining' = {} THEN Unapproved ELSE operation
    /\ applied' = IF Admitted(operation) THEN [applied EXCEPT ![r] = operation]
                                         ELSE applied
    /\ UNCHANGED <<calm, cluster, worker, repository, told, target, webhook, mishaps>>

CacheSync ==
    /\ seenMCA # CachedMCA
    /\ seenMCA' = CachedMCA
    /\ UNCHANGED <<calm, cluster, worker, repository, told, target, argo, governed,
                   mishaps>>

(***************************************************************************)
(* The rest of the system                                                  *)
(***************************************************************************)

\* handleStateFinalizing of the MRT controller
InitialiseMRT ==
    /\ ~governed /\ governed' = TRUE
    /\ UNCHANGED <<calm, cluster, worker, repository, told, target, argo, seenMCA,
                   mishaps>>

\* What a write of mca.spec changes.
SpecWritten(version) ==
    /\ spec' = version
    /\ fresh' = FALSE
    /\ UNCHANGED <<calm, status, finalizer, life, pc, mem, memSpec, repository,
                   told, target, argo, webhook, mishaps>>

\* handleMSRRulesFulfillmentStateUpdateMCASpec of the MSR controller: versions
\* that were never approved are skipped.  The MRT controller proposes a change only
\* when the cache it shares with the webhook shows the MRT initialised.
UpdateMCASpec(version) ==
    /\ life = "live"
    /\ governed
    /\ version > spec
    /\ calm => finalizer /\ status.action = "Empty"
    /\ SpecWritten(version)

DeleteMCA ==
    /\ life = "live"
    /\ Mishap
    /\ life' = IF finalizer THEN "deleting" ELSE "gone"
    /\ fresh' = FALSE
    /\ UNCHANGED <<calm, spec, status, finalizer, pc, mem, memSpec, repository,
                   told, target, argo, webhook>>

-----------------------------------------------------------------------------

Reconcile ==
    \/ LockTimeout \/ ReconcileCreate
    \/ DetectNewVersion \/ ResetAction \/ ReconcileNewMCASpec
    \/ GitCommit \/ PushSummaryFiles \/ UpdateAfterGitPush \/ UpdateArgoCD
    \/ InitSetFinalizer \/ NotifyGovernors
    \/ SaveStatus \/ SaveSubstate \/ ReleaseLock
    \/ ReconcileDelete \/ ReconcileNotFound

ArgoCD ==
    \/ AutoSync
    \/ \E r \in Resources : ApplyResource(r)

Environment ==
    \/ \E revision \in Commits : SyncByHand(revision)
    \/ InitialiseMRT
    \/ \E version \in Versions : UpdateMCASpec(version)
    \/ DeleteMCA

Next == Reconcile \/ CallFails \/ Crash \/ ArgoCD \/ CacheSync \/ Environment

Spec == Init /\ [][Next]_vars

\* The worker and ArgoCD never stop for good, and watches deliver in the end.
Fairness ==
    /\ WF_vars(Reconcile)
    /\ WF_vars(ArgoCD)
    /\ WF_vars(CacheSync)
FairSpec == Spec /\ Fairness

-----------------------------------------------------------------------------
(***************************************************************************)
(* Properties                                                              *)
(***************************************************************************)

\* Every variable has its type: statuses carry only states the handlers set.
TypeOK ==
    /\ calm \in BOOLEAN
    /\ spec \in Versions /\ memSpec \in Versions
    /\ status \in MCAStatus /\ mem \in MCAStatus
    /\ finalizer \in BOOLEAN /\ fresh \in BOOLEAN
    /\ life \in {"live", "deleting", "gone"}
    /\ pc \in {"idle", "handler", "save", "substate", "release"}
    /\ pushed \subseteq Versions /\ summarised \subseteq Versions
    /\ told \subseteq Versions
    /\ target \in Commits /\ operation \in Commits
    /\ remaining \subseteq Resources /\ applied \in [Resources -> Commits]
    /\ governed \in BOOLEAN
    /\ seenMCA \in [exists : BOOLEAN, spec : Versions, recorded : SUBSET Versions]
    /\ mishaps \in 0 .. MaxMishaps

\* The audit trail precedes the cluster: once the webhook governs, a resource only
\* takes the content of a commit that approvalHistory holds, whoever started the
\* sync and however early the Application was pointed at the commit.
DeliveredIsRecorded ==
    [][governed => \A r \in Resources :
          applied'[r] # applied[r] => applied'[r] \in Range(status.history)]_applied

\* The promise to the cluster: resources take approved content only and never go
\* back to an earlier approval, through syncs by hand, rollbacks and caches that lag.
Delivery == INSTANCE GovernedDelivery WITH approved <- spec
DeliversWhatIsApproved == Delivery!Spec

(***************************************************************************)
(* The inductive invariant behind DeliveredIsRecorded and                  *)
(* DeliversWhatIsApproved.                                                 *)
(***************************************************************************)

\* No approval precedes the governance of the Application, and nobody knows of a
\* version, or follows one, before it is approved.
KnownIsApproved ==
    /\ ~governed => spec = 0
    /\ memSpec <= spec /\ seenMCA.spec <= spec
    /\ target <= spec /\ operation <= spec

\* The webhook knows of every approval that a resource took content from.
AppliedIsKnown == \A r \in Resources : applied[r] <= seenMCA.spec

\* What the webhook has seen recorded still is: a write of the worker's copy never
\* loses a record.
SeenIsRecorded ==
    /\ seenMCA.recorded \subseteq Range(status.history)
    /\ (pc # "idle" /\ fresh) => Range(status.history) \subseteq Range(mem.history)

IInv == TypeOK /\ KnownIsApproved /\ AppliedIsKnown /\ SeenIsRecorded

\* ApprovalHistory advances: versions are recorded in order, and a version twice
\* only after a failed call or a crash, once for each.
HistoryAdvances ==
    LET h == status.history
    IN /\ \A i \in 2 .. Len(h) : h[i - 1] <= h[i]
       /\ Len(h) - Cardinality(Range(h)) <= mishaps

\* Unless a version replaces another while that one is processed, the repository
\* holds the MCA and the summary files of every version in approvalHistory.
RecordsArePublished ==
    calm => Range(status.history) \subseteq pushed \cap summarised

\* Every approved commit is delivered to the cluster, or is replaced by a later one,
\* through faults of the controller, denied syncs and versions that arrive while
\* another is processed.
ApprovedIsDelivered ==
    \A v \in Versions :
        (spec = v) ~> \/ \A r \in Resources : applied[r] = v
                     \/ spec > v \/ life # "live"

\* Governors are told of every approval, unless it is replaced or arrives while
\* another is processed.
GovernorsAreTold ==
    \A v \in Versions \ {0} :
        (calm /\ spec = v) ~> (v \in told \/ spec > v \/ life # "live")
=============================================================================
