--------------------------- MODULE SigningRequest ---------------------------
(***************************************************************************)
(* The ManifestSigningRequest (MSR) controller:                            *)
(* kubernetes/internal/controller/manifestsigningrequest_controller.go.    *)
(*                                                                         *)
(* One MSR object lives in the cluster.  Its spec is written by the        *)
(* ManifestRequestTemplate controller, its status only by the MSR          *)
(* controller, whose single worker runs one Reconcile at a time.  A        *)
(* Reconcile is a sequence of API and git calls on a copy of the object    *)
(* kept in memory; every write carries the resourceVersion of that copy    *)
(* and is refused when the object changed in between.  The worker may      *)
(* crash between any two calls.                                            *)
(*                                                                         *)
(* The spec is represented by its version: the validating webhook lets the *)
(* spec change only together with a higher version, so the version stands  *)
(* for the commit, the changes, the governors and the rule of that request.*)
(***************************************************************************)
EXTENDS Integers, FiniteSets, SequencesExt

CONSTANTS
    Governors,      \* aliases of the governance board
    Qubmango,       \* the operator's own alias, governor of version 0 only
    Quorums,        \* the minimal sets of governors that satisfy spec.require
    MaxVersion,     \* bound: last version the MRT controller writes
    MaxFaults,      \* bound: crashes and failed calls
    MaxCommits,     \* bound: commits to the repository by others
    Arrivals,       \* environment: when the MRT controller writes the next version
    Deletable       \* environment: the MSR may be deleted

ASSUME BoardAssumption ==
    /\ Qubmango \notin Governors
    /\ Quorums \subseteq SUBSET Governors
ASSUME NoFreeQuorum == {} \notin Quorums
ASSUME BoundAssumption ==
    /\ MaxVersion \in Nat
    /\ MaxFaults \in Nat
    /\ MaxCommits \in Nat
    /\ Arrivals \in {"anytime", "initialised", "resting"}
    /\ Deletable \in BOOLEAN

VARIABLES
    spec,       \* msr.spec.version
    status,     \* msr.status as stored by the API server
    finalizer,  \* GovernanceFinalizer is set: initialisation is complete
    life,       \* "live", "deleting" (deletionTimestamp set) or "gone"
    pc,         \* next call of the worker, "idle" outside Reconcile
    mem,        \* status of the worker's copy of the MSR
    memSpec,    \* spec version of the worker's copy
    fresh,      \* the copy still has the stored resourceVersion
    pushed,     \* versions whose v_N folder holds the MSR and its signature
    signed,     \* signed[v]: aliases with a signature in v_N/signatures
    head,       \* remote HEAD, as a count of commits
    mca,        \* spec of the ManifestChangeApproval
    faults,     \* faults that happened so far
    commits     \* commits by others so far

cluster == <<spec, status, finalizer, life>>
worker == <<pc, mem, memSpec, fresh>>
repository == <<pushed, signed, head>>
vars == <<cluster, worker, repository, mca, faults, commits>>

-----------------------------------------------------------------------------

Versions == 0 .. MaxVersion
Aliases == Governors \cup {Qubmango}

CreateStates == {"GitPushMSR", "GovernorQubmangoSignature",
                 "UpdateAfterGitPush", "InitSetFinalizer"}
ActionStates == CreateStates \cup {"Empty", "NewMSRSpec", "MSRRulesFulfillment",
                                    "Deletion"}
ReconcileStates == {"Empty", "UpdateAfterGitPush", "NotifyGovernors"}
RulesStates == {"Empty", "UpdateMCASpec", "Abort"}
Phases == {"", "InProgress", "Approved"}

\* ManifestSigningRequestHistoryRecord: approved when it carries signatures
HistoryRecord == [version : Versions, signers : SUBSET Governors]

MSRStatus == [action : ActionStates, progressing : BOOLEAN,
              reconcile : ReconcileStates, rules : RulesStates,
              phase : Phases, history : Seq(HistoryRecord),
              collected : SUBSET Governors, observed : Nat]

MCASpec == [version : Versions, signers : SUBSET Aliases]

NewStatus == [action |-> "Empty", progressing |-> FALSE,
              reconcile |-> "Empty", rules |-> "Empty",
              phase |-> "", history |-> <<>>, collected |-> {}, observed |-> 0]

\* Mutant: one governor of a quorum is enough.
FulfilledByOne(signers) == \E Q \in Quorums : Q \cap signers # {}

\* EvaluateRules over GetVerifiedSigners: only governors of the request count
Fulfilled(signers) == \E Q \in Quorums : Q \subseteq signers \cap Governors

\* latestHistoryVersion of reconcileNormal
LatestVersion(st) ==
    IF st.history = <<>> THEN -1 ELSE Last(st.history).version

\* When a revision may arrive.  The code allows "anytime"; the other two restrict
\* the environment to ask what a calmer one is owed.
MayArrive ==
    /\ Arrivals \in {"initialised", "resting"} => finalizer
    /\ Arrivals = "resting" => status.action = "Empty"

-----------------------------------------------------------------------------

Init ==
    /\ spec = 0
    /\ status = NewStatus
    /\ finalizer = FALSE
    /\ life = "live"
    /\ pc = "idle" /\ mem = NewStatus /\ memSpec = 0 /\ fresh = FALSE
    /\ pushed = {}
    /\ signed = [v \in Versions |-> {}]
    /\ head = 1
    /\ mca = [version |-> 0, signers |-> {Qubmango}]
    /\ faults = 0
    /\ commits = 0

\* The worker returns from Reconcile: the copy is dropped.
Return ==
    /\ pc' = "idle" /\ mem' = NewStatus /\ memSpec' = 0 /\ fresh' = FALSE

\* A single Status().Update on the object just read.
WriteStatus(st) ==
    /\ pc = "idle" /\ life = "live"
    /\ status' = st
    /\ UNCHANGED <<spec, finalizer, life, worker, repository, mca, faults, commits>>

(***************************************************************************)
(* Reconcile up to the lock                                                *)
(***************************************************************************)

AcquireLock(newState) ==
    /\ pc = "idle" /\ life = "live"
    /\ ~(status.action = newState /\ status.progressing)
    /\ status' = [status EXCEPT !.action = newState, !.progressing = TRUE]
    /\ pc' = "handler" /\ mem' = status' /\ memSpec' = spec /\ fresh' = TRUE
    /\ UNCHANGED <<spec, finalizer, life, repository, mca, faults, commits>>

\* Mutant: the lock of an MSR that is still being initialised never times out.
LockTimeoutAfterInit ==
    /\ finalizer /\ status.progressing
    /\ WriteStatus([status EXCEPT !.progressing = FALSE])

\* isLockForMoreThan(30s): the lock outlived the Reconcile that took it.
LockTimeout ==
    /\ status.progressing
    /\ WriteStatus([status EXCEPT !.progressing = FALSE])

ReconcileCreate ==
    /\ ~finalizer
    /\ status.action \in CreateStates \cup {"Empty"}
    /\ AcquireLock(IF status.action = "Empty" THEN "GitPushMSR" ELSE status.action)

\* Mutant: the version already recorded counts as new.
DetectSameVersion ==
    /\ finalizer /\ ~status.progressing
    /\ status.action = "Empty"
    /\ spec >= LatestVersion(status)
    /\ WriteStatus([status EXCEPT !.action = "NewMSRSpec"])

DetectNewVersion ==
    /\ finalizer /\ ~status.progressing
    /\ status.action = "Empty"
    /\ spec > LatestVersion(status)
    /\ WriteStatus([status EXCEPT !.action = "NewMSRSpec"])

DetectInProgress ==
    /\ finalizer /\ ~status.progressing
    /\ status.action = "Empty"
    /\ spec <= LatestVersion(status)
    /\ status.phase = "InProgress"
    /\ WriteStatus([status EXCEPT !.action = "MSRRulesFulfillment"])

\* The default branch: nothing to do, or a state left over by initialisation.
ResetAction ==
    /\ finalizer /\ ~status.progressing
    /\ \/ status.action \in CreateStates
       \/ /\ status.action = "Empty"
          /\ spec <= LatestVersion(status)
          /\ status.phase # "InProgress"
    /\ WriteStatus([status EXCEPT !.action = "Empty"])

ReconcileNewMSRSpec ==
    /\ finalizer /\ ~status.progressing
    /\ status.action = "NewMSRSpec"
    /\ AcquireLock("NewMSRSpec")

ReconcileMSRRulesFulfillment ==
    /\ finalizer /\ ~status.progressing
    /\ status.action = "MSRRulesFulfillment"
    /\ AcquireLock("MSRRulesFulfillment")

-----------------------------------------------------------------------------
(***************************************************************************)
(* Handlers.  A handler works on the copy; what it leaves in the copy      *)
(* reaches the cluster with the next successful Status().Update.           *)
(***************************************************************************)

InHandler(action) == pc = "handler" /\ mem.action = action

\* withLock: the handler succeeded, the lock is to be released into nextState.
ToRelease(st, nextState) ==
    /\ mem' = [st EXCEPT !.action = nextState, !.progressing = FALSE]
    /\ pc' = "release"
    /\ UNCHANGED <<memSpec, fresh>>

\* withReconcileLock / withRulesFulfillmentLock: the new sub-state is saved first.
ToSubstate(st) ==
    /\ mem' = st
    /\ pc' = "substate"
    /\ UNCHANGED <<memSpec, fresh>>

ToSaveStatus(st) ==
    /\ mem' = st
    /\ pc' = "save"
    /\ UNCHANGED <<memSpec, fresh>>

PushMSR ==
    /\ pushed' = pushed \cup {memSpec}
    /\ head' = head + 1
    /\ UNCHANGED <<cluster, signed, mca, faults, commits>>

GitCommit ==
    /\ InHandler("GitPushMSR")
    /\ PushMSR
    /\ ToRelease(mem, "GovernorQubmangoSignature")

GovernorQubmangoSignature ==
    /\ InHandler("GovernorQubmangoSignature")
    /\ signed' = [signed EXCEPT ![memSpec] = @ \cup {Qubmango}]
    /\ head' = head + 1
    /\ UNCHANGED <<cluster, pushed, mca, faults, commits>>
    /\ ToRelease(mem, "UpdateAfterGitPush")

\* Mutants: the record takes the next version, or the signatures of its predecessor.
NewRecordOfNextVersion == [version |-> memSpec + 1, signers |-> {}]
NewRecordSigned == [version |-> memSpec, signers |-> mem.collected]

\* createNewMSRHistoryRecordFromSpec
NewRecord == [version |-> memSpec, signers |-> {}]

UpdateAfterGitPush ==
    /\ InHandler("UpdateAfterGitPush")
    /\ ToSaveStatus([mem EXCEPT !.history = Append(@, NewRecord)])
    /\ UNCHANGED <<cluster, repository, mca, faults, commits>>

InitSetFinalizer ==
    /\ InHandler("InitSetFinalizer")
    /\ IF fresh
       THEN /\ finalizer' = TRUE
            /\ ToRelease(mem, "Empty")
       ELSE /\ UNCHANGED finalizer
            /\ ToRelease(mem, mem.action)
    /\ UNCHANGED <<spec, status, life, repository, mca, faults, commits>>

ReconcileGitCommit ==
    /\ InHandler("NewMSRSpec")
    /\ mem.reconcile = "Empty"
    /\ PushMSR
    /\ ToSubstate([mem EXCEPT !.reconcile = "UpdateAfterGitPush"])

\* Mutants: the phase of the predecessor stays, or its record is replaced.
ReconcileUpdateKeepsPhase ==
    /\ InHandler("NewMSRSpec")
    /\ mem.reconcile = "UpdateAfterGitPush"
    /\ ToSaveStatus([mem EXCEPT !.history = Append(@, NewRecord),
                                !.phase = IF @ = "" THEN "InProgress" ELSE @])
    /\ UNCHANGED <<cluster, repository, mca, faults, commits>>

ReconcileUpdateReplaces ==
    /\ InHandler("NewMSRSpec")
    /\ mem.reconcile = "UpdateAfterGitPush"
    /\ ToSaveStatus([mem EXCEPT !.history = Append(Front(@), NewRecord),
                                !.phase = "InProgress"])
    /\ UNCHANGED <<cluster, repository, mca, faults, commits>>

ReconcileUpdateAfterGitPush ==
    /\ InHandler("NewMSRSpec")
    /\ mem.reconcile = "UpdateAfterGitPush"
    /\ ToSaveStatus([mem EXCEPT !.history = Append(@, NewRecord),
                                !.phase = "InProgress"])
    /\ UNCHANGED <<cluster, repository, mca, faults, commits>>

ReconcileNotifyGovernors ==
    /\ InHandler("NewMSRSpec")
    /\ mem.reconcile = "NotifyGovernors"
    /\ ToSubstate([mem EXCEPT !.reconcile = "Empty"])
    /\ UNCHANGED <<cluster, repository, mca, faults, commits>>

\* FetchMSRByVersion finds no file in the v_N folder of the copy's version.
CheckSignaturesNotFound ==
    /\ InHandler("MSRRulesFulfillment")
    /\ mem.rules = "Empty"
    /\ memSpec \notin pushed
    /\ ToRelease(mem, mem.action)
    /\ UNCHANGED <<cluster, repository, mca, faults, commits>>

\* HEAD was already observed, or the rule is not fulfilled yet.
CheckSignaturesAbort ==
    /\ InHandler("MSRRulesFulfillment")
    /\ mem.rules = "Empty"
    /\ memSpec \in pushed
    /\ mem.observed = head \/ ~Fulfilled(signed[memSpec])
    /\ ToSubstate([mem EXCEPT !.rules = "Abort"])
    /\ UNCHANGED <<cluster, repository, mca, faults, commits>>

CheckSignaturesApprove ==
    /\ InHandler("MSRRulesFulfillment")
    /\ mem.rules = "Empty"
    /\ memSpec \in pushed
    /\ mem.observed # head /\ Fulfilled(signed[memSpec])
    /\ LET signers == signed[memSpec] \cap Governors
           h == mem.history
       IN ToSaveStatus([mem EXCEPT !.collected = signers,
                                   !.phase = "Approved",
                                   !.observed = head,
                                   !.history = IF h = <<>> THEN h
                                       ELSE [h EXCEPT ![Len(h)].signers = signers]])
    /\ UNCHANGED <<cluster, repository, mca, faults, commits>>

\* Mutant: the MCA takes whatever signatures the repository holds by now.
NewMCASpecUnchecked ==
    [version |-> memSpec, signers |-> signed[memSpec] \cap Governors]

\* What the copy would make of the MCA, and the MCA webhook's verdict on it.
NewMCASpec == [version |-> memSpec, signers |-> mem.collected]
MCAUpdateAllowed == NewMCASpec = mca \/ NewMCASpec.version > mca.version

UpdateMCASpec ==
    /\ InHandler("MSRRulesFulfillment")
    /\ mem.rules = "UpdateMCASpec"
    /\ IF MCAUpdateAllowed
       THEN /\ mca' = NewMCASpec
            /\ ToSubstate([mem EXCEPT !.rules = "Empty"])
       ELSE /\ UNCHANGED mca
            /\ ToRelease(mem, mem.action)
    /\ UNCHANGED <<cluster, repository, faults, commits>>

\* Mutant: the sub-state is not reset.
AbortRulesForGood ==
    /\ InHandler("MSRRulesFulfillment")
    /\ mem.rules = "Abort"
    /\ ToRelease(mem, "Empty")
    /\ UNCHANGED <<cluster, repository, mca, faults, commits>>

AbortRules ==
    /\ InHandler("MSRRulesFulfillment")
    /\ mem.rules = "Abort"
    /\ ToRelease([mem EXCEPT !.rules = "Empty"], "Empty")
    /\ UNCHANGED <<cluster, repository, mca, faults, commits>>

-----------------------------------------------------------------------------
(***************************************************************************)
(* The writes that end a Reconcile.  A write of a copy that is no longer   *)
(* fresh is refused; releaseLockWithFailure then writes the same copy and  *)
(* is refused as well, so the lock stays until LockTimeout.                *)
(***************************************************************************)

\* The handler's own Status().Update.
SaveStatus ==
    /\ pc = "save"
    /\ IF ~fresh
       THEN /\ UNCHANGED status
            /\ ToRelease(mem, mem.action)
       ELSE /\ status' = mem
            /\ CASE mem.action = "UpdateAfterGitPush" ->
                        ToRelease(mem, "InitSetFinalizer")
                 [] mem.action = "NewMSRSpec" ->
                        ToSubstate([mem EXCEPT !.reconcile = "NotifyGovernors"])
                 [] OTHER ->
                        ToSubstate([mem EXCEPT !.rules = "UpdateMCASpec"])
    /\ UNCHANGED <<spec, finalizer, life, repository, mca, faults, commits>>

\* nextActionState: the action ends when its sub-state is back to Empty.
NextAction(st) ==
    IF \/ st.action = "NewMSRSpec" /\ st.reconcile = "Empty"
       \/ st.action = "MSRRulesFulfillment" /\ st.rules = "Empty"
    THEN "Empty" ELSE st.action

SaveSubstate ==
    /\ pc = "substate"
    /\ IF fresh
       THEN /\ status' = mem
            /\ ToRelease(mem, NextAction(mem))
       ELSE /\ UNCHANGED status
            /\ ToRelease(mem, mem.action)
    /\ UNCHANGED <<spec, finalizer, life, repository, mca, faults, commits>>

ReleaseLock ==
    /\ pc = "release"
    /\ status' = IF fresh THEN mem ELSE status
    /\ Return
    /\ UNCHANGED <<spec, finalizer, life, repository, mca, faults, commits>>

\* A call of the handler, or one of its status writes, fails: the lock is
\* released with failure, and what the copy holds by then is written with it.
CallFails ==
    /\ pc \in {"handler", "save", "substate"}
    /\ faults < MaxFaults
    /\ ToRelease(mem, mem.action)
    /\ faults' = faults + 1
    /\ UNCHANGED <<cluster, repository, mca, commits>>

\* The operator restarts, or the release itself fails: the lock is left held.
Crash ==
    /\ pc # "idle"
    /\ faults < MaxFaults
    /\ Return
    /\ faults' = faults + 1
    /\ UNCHANGED <<cluster, repository, mca, commits>>

\* reconcileDelete: removing the finalizer lets the API server drop the object.
ReconcileDelete ==
    /\ pc = "idle" /\ life = "deleting"
    /\ finalizer' = FALSE
    /\ life' = "gone"
    /\ UNCHANGED <<spec, status, worker, repository, mca, faults, commits>>

\* The finalizer could not be removed: the failure is recorded, deletion retried.
ReconcileDeleteFails ==
    /\ pc = "idle" /\ life = "deleting"
    /\ faults < MaxFaults
    /\ status' = [status EXCEPT !.action = "Deletion", !.progressing = FALSE]
    /\ faults' = faults + 1
    /\ UNCHANGED <<spec, finalizer, life, worker, repository, mca, commits>>

\* Reconcile of an object that is gone returns at once.
ReconcileNotFound ==
    /\ pc = "idle" /\ life = "gone"
    /\ UNCHANGED vars

-----------------------------------------------------------------------------
(***************************************************************************)
(* The rest of the system                                                  *)
(***************************************************************************)

\* performMSRUpdate of the MRT controller writes the next version.
UpdateMSRSpec ==
    /\ life = "live"
    /\ spec < MaxVersion
    /\ MayArrive
    /\ spec' = spec + 1
    /\ fresh' = FALSE
    /\ UNCHANGED <<status, finalizer, life, pc, mem, memSpec, repository, mca,
                   faults, commits>>

\* qubmango sign msr: a governor signs a version found in the repository.
GovernorSigns(g, v) ==
    /\ v \in pushed
    /\ g \notin signed[v]
    /\ signed' = [signed EXCEPT ![v] = @ \cup {g}]
    /\ head' = head + 1
    /\ UNCHANGED <<cluster, worker, pushed, mca, faults, commits>>

OtherCommit ==
    /\ commits < MaxCommits
    /\ commits' = commits + 1
    /\ head' = head + 1
    /\ UNCHANGED <<cluster, worker, pushed, signed, mca, faults>>

DeleteMSR ==
    /\ Deletable /\ life = "live"
    /\ life' = IF finalizer THEN "deleting" ELSE "gone"
    /\ fresh' = FALSE
    /\ UNCHANGED <<spec, status, finalizer, pc, mem, memSpec, repository, mca,
                   faults, commits>>

-----------------------------------------------------------------------------

Handler ==
    \/ GitCommit \/ GovernorQubmangoSignature \/ UpdateAfterGitPush
    \/ InitSetFinalizer
    \/ ReconcileGitCommit \/ ReconcileUpdateAfterGitPush
    \/ ReconcileNotifyGovernors
    \/ CheckSignaturesNotFound \/ CheckSignaturesAbort
    \/ CheckSignaturesApprove \/ UpdateMCASpec \/ AbortRules

Reconcile ==
    \/ LockTimeout \/ ReconcileCreate
    \/ DetectNewVersion \/ DetectInProgress \/ ResetAction
    \/ ReconcileNewMSRSpec \/ ReconcileMSRRulesFulfillment
    \/ Handler
    \/ SaveStatus \/ SaveSubstate \/ ReleaseLock
    \/ ReconcileDelete \/ ReconcileNotFound

Environment ==
    \/ UpdateMSRSpec
    \/ \E g \in Governors, v \in Versions : GovernorSigns(g, v)
    \/ OtherCommit
    \/ DeleteMSR

Next == Reconcile \/ CallFails \/ Crash \/ ReconcileDeleteFails \/ Environment

Spec == Init /\ [][Next]_vars

\* controller-runtime keeps requeueing the object: the worker never stops for good.
Fairness == WF_vars(Reconcile)
FairSpec == Spec /\ Fairness

-----------------------------------------------------------------------------
(***************************************************************************)
(* Properties                                                              *)
(***************************************************************************)

\* Every variable has its type: statuses carry only states the handlers set.
TypeOK ==
    /\ spec \in Versions
    /\ status \in MSRStatus
    /\ finalizer \in BOOLEAN
    /\ life \in {"live", "deleting", "gone"}
    /\ pc \in {"idle", "handler", "save", "substate", "release"}
    /\ mem \in MSRStatus
    /\ memSpec \in Versions
    /\ fresh \in BOOLEAN
    /\ pushed \in SUBSET Versions
    /\ signed \in [Versions -> SUBSET Aliases]
    /\ head \in Nat
    /\ mca \in MCASpec
    /\ faults \in 0 .. MaxFaults
    /\ commits \in 0 .. MaxCommits

ApprovedRecords(st) == {i \in DOMAIN st.history : st.history[i].signers # {}}

Earned(st) ==
    \A i \in ApprovedRecords(st) :
        LET rec == st.history[i]
        IN /\ Fulfilled(rec.signers)
           /\ rec.version \in pushed
           /\ rec.signers \subseteq signed[rec.version]

\* An approval written to RequestHistory was earned by that very version:
\* its signers fulfil the rule and their signatures are in its v_N folder,
\* whatever spec the MRT controller wrote while the signatures were checked.
ApprovalsAreEarned == Earned(status)

\* The phase tells of the latest request: Approved exactly when the last
\* history record carries signatures, so that a new version is never taken
\* for approved because its predecessor was.
PhaseOfLatestRecord ==
    (status.phase = "Approved") <=> (Len(status.history) \in ApprovedRecords(status))

\* The signatures an MCA carries fulfil the rule and were collected for an
\* approved request, not one newer than the MCA's version.  They need not be that
\* record's signatures exactly: a retry may approve the record again with more.
MCAFollowsAnApproval ==
    mca.version > 0 =>
        /\ Fulfilled(mca.signers)
        /\ \E i \in ApprovedRecords(status) :
               /\ status.history[i].version <= mca.version
               /\ mca.signers \subseteq status.history[i].signers

\* RequestHistory is at-least-once: a version is recorded a second time only
\* after a call that failed or a crash, once for each.
DuplicatesNeedFaults ==
    Len(status.history)
        - Cardinality({status.history[i].version : i \in DOMAIN status.history})
      <= faults

\* Every record of h is still in k, its version unchanged, its signers at most
\* joined by others.
Extends(k, h) ==
    \A i \in DOMAIN h :
        /\ i \in DOMAIN k
        /\ k[i].version = h[i].version
        /\ h[i].signers \subseteq k[i].signers

\* RequestHistory is append-only and approvals are final: a write of a stale
\* copy never takes away a record, its version or its signatures.
HistoryOnlyGrows == [][Extends(status'.history, status.history)]_status

(***************************************************************************)
(* The inductive invariant behind ApprovalsAreEarned, MCAFollowsAnApproval *)
(* and HistoryOnlyGrows.                                                   *)
(***************************************************************************)

\* The copy was read from the cluster; it is current while it is fresh.
CopyIsBehind ==
    /\ memSpec <= spec
    /\ fresh => memSpec = spec
    /\ pc = "handler" => mem = status
    /\ pc # "idle" => Extends(mem.history, status.history)

\* Only versions of the spec are published and recorded.
RecordedVersions ==
    /\ \A v \in pushed : v <= spec
    /\ \A i \in DOMAIN status.history : status.history[i].version <= spec
    /\ \A i \in DOMAIN mem.history : mem.history[i].version <= memSpec

\* While the rules are checked the last record is that of the latest published
\* version: the one the signatures are read for is the one they are written to.
LatestIsRecorded(st) ==
    st.action = "MSRRulesFulfillment" =>
        /\ st.history # <<>>
        /\ \A v \in pushed : v <= Last(st.history).version

\* Collected signatures are those of an approved record.
CollectedForARecord(st) ==
    st.collected # {} =>
        /\ Fulfilled(st.collected)
        /\ \E i \in ApprovedRecords(st) : st.collected \subseteq st.history[i].signers

\* The MCA is only written with signatures that were collected.
CollectedBeforeMCA ==
    /\ status.rules = "UpdateMCASpec" => status.collected # {}
    /\ mem.rules = "UpdateMCASpec" => mem.collected # {}
    /\ (pc = "save" /\ mem.action \notin {"UpdateAfterGitPush", "NewMSRSpec"})
          => mem.collected # {}

\* The inductive invariant: the properties proved, and what the worker knows of
\* the cluster between two of its calls.
IInv ==
    /\ TypeOK
    /\ CopyIsBehind
    /\ RecordedVersions
    /\ LatestIsRecorded(status) /\ LatestIsRecorded(mem)
    /\ Earned(status) /\ Earned(mem)
    /\ CollectedForARecord(status) /\ CollectedForARecord(mem)
    /\ CollectedBeforeMCA
    /\ MCAFollowsAnApproval

\* No lock outlives its Reconcile for good: after every crash, failed call or
\* refused write the MSR becomes available again.
LockEventuallyReleased == []<>(~status.progressing \/ life # "live")

\* Without faults, a request that was recorded and has its quorum reaches the MCA or
\* is replaced by a newer one, however signatures, other commits and the spec of the
\* next version fall between the steps that look for the quorum.
QuorumReachesMCA ==
    \A v \in Versions :
        (LatestVersion(status) = v /\ status.phase = "InProgress" /\ Fulfilled(signed[v]))
            ~> (mca.version >= v \/ spec > v \/ life # "live" \/ faults > 0)

\* What the lifecycle promises of an MCA: it carries the signatures that
\* fulfil the rule for the version it approves.
MCACarriesItsQuorum ==
    mca.version > 0 =>
        /\ Fulfilled(mca.signers)
        /\ mca.signers \subseteq signed[mca.version]

\* What the lifecycle promises of a change: its MSR is published for signing,
\* unless a newer change replaces it.
EveryChangeIsPublished ==
    \A v \in Versions \ {0} : (spec = v) ~> (v \in pushed \/ spec > v)

\* What the lifecycle promises of an approval: it becomes an MCA.
ApprovalReachesMCA ==
    \A v \in Versions \ {0} :
        (status.phase = "Approved" /\ LatestVersion(status) = v)
            ~> (mca.version >= v \/ spec > v)
=============================================================================
