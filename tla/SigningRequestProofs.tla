------------------------ MODULE SigningRequestProofs ------------------------
(***************************************************************************)
(* What SigningRequest guarantees for every governance board, rule, number *)
(* of versions, faults and commits: proofs checked by TLAPS.               *)
(***************************************************************************)
EXTENDS SigningRequest, SequenceTheorems, TLAPS

-----------------------------------------------------------------------------
(***************************************************************************)
(* Request histories                                                       *)
(***************************************************************************)

\* A record put at the end of a history leaves the others where they are.
LEMMA AppendRecord ==
    ASSUME NEW h \in Seq(HistoryRecord), NEW r \in HistoryRecord
    PROVE  /\ Append(h, r) \in Seq(HistoryRecord)
           /\ DOMAIN Append(h, r) = DOMAIN h \cup {Len(h) + 1}
           /\ \A i \in DOMAIN h : Append(h, r)[i] = h[i]
           /\ Append(h, r)[Len(h) + 1] = r
           /\ Append(h, r) # <<>>
           /\ Last(Append(h, r)) = r
  BY DEF Last

SignLast(h, S) == [h EXCEPT ![Len(h)].signers = S]

\* Signatures put on the last record leave the rest of the history alone.
LEMMA SignLastRecord ==
    ASSUME NEW h \in Seq(HistoryRecord), h # <<>>, NEW S \in SUBSET Governors
    PROVE  /\ SignLast(h, S) \in Seq(HistoryRecord)
           /\ SignLast(h, S) # <<>>
           /\ DOMAIN SignLast(h, S) = DOMAIN h
           /\ Len(h) \in DOMAIN h
           /\ \A i \in DOMAIN h : SignLast(h, S)[i].version = h[i].version
           /\ \A i \in DOMAIN h \ {Len(h)} : SignLast(h, S)[i] = h[i]
           /\ SignLast(h, S)[Len(h)].signers = S
           /\ Last(h) = h[Len(h)]
           /\ Last(SignLast(h, S)).version = Last(h).version
<1>. DEFINE k == SignLast(h, S)
<1>1. Len(h) \in 1 .. Len(h) /\ DOMAIN h = 1 .. Len(h)
  BY EmptySeq, LenProperties
<1>2. h[Len(h)] \in HistoryRecord
  BY <1>1, ElementOfSeq
<1>. DEFINE r == [h[Len(h)] EXCEPT !.signers = S]
<1>3. r \in HistoryRecord /\ r.version = h[Len(h)].version /\ r.signers = S
  BY <1>2 DEF HistoryRecord
<1>4. k = [h EXCEPT ![Len(h)] = r]
  BY DEF SignLast
<1>. HIDE DEF r, k
<1>5. k \in Seq(HistoryRecord) /\ Len(k) = Len(h)
  BY <1>1, <1>3, <1>4, ExceptSeq
<1>6. DOMAIN k = DOMAIN h
  BY <1>4
<1>7. k[Len(h)] = r /\ \A i \in DOMAIN h \ {Len(h)} : k[i] = h[i]
  BY <1>1, <1>4
<1>8. k # <<>>
  BY <1>1, <1>5, EmptySeq
<1>. QED
  BY <1>1, <1>3, <1>5, <1>6, <1>7, <1>8 DEF Last, k

-----------------------------------------------------------------------------
(***************************************************************************)
(* Types                                                                   *)
(***************************************************************************)

LEMMA StatusFields ==
    ASSUME NEW st \in MSRStatus
    PROVE  /\ st.action \in ActionStates
           /\ st.reconcile \in ReconcileStates
           /\ st.rules \in RulesStates
           /\ st.phase \in Phases
           /\ st.history \in Seq(HistoryRecord)
           /\ st.collected \in SUBSET Governors
  BY DEF MSRStatus

\* What the writers of a status set in it.
LEMMA SetAction ==
    ASSUME NEW st \in MSRStatus, NEW a \in ActionStates, NEW b \in BOOLEAN
    PROVE  /\ [st EXCEPT !.action = a, !.progressing = b] \in MSRStatus
           /\ [st EXCEPT !.action = a] \in MSRStatus
           /\ [st EXCEPT !.progressing = b] \in MSRStatus
  BY DEF MSRStatus

LEMMA SetSubstate ==
    ASSUME NEW st \in MSRStatus, NEW s \in ReconcileStates, NEW u \in RulesStates
    PROVE  /\ [st EXCEPT !.reconcile = s] \in MSRStatus
           /\ [st EXCEPT !.rules = u] \in MSRStatus
  BY DEF MSRStatus

LEMMA SetHistory ==
    ASSUME NEW st \in MSRStatus, NEW h \in Seq(HistoryRecord), NEW p \in Phases,
           NEW S \in SUBSET Governors, NEW n \in Nat
    PROVE  /\ [st EXCEPT !.history = h] \in MSRStatus
           /\ [st EXCEPT !.history = h, !.phase = p] \in MSRStatus
           /\ [st EXCEPT !.collected = S, !.phase = p, !.observed = n, !.history = h]
                \in MSRStatus
  BY DEF MSRStatus

LEMMA NewStatusType == NewStatus \in MSRStatus
  BY DEF NewStatus, MSRStatus, ActionStates, ReconcileStates, RulesStates, Phases

\* The names of the states, as the type sets hold them.
LEMMA StateNames ==
    /\ CreateStates \subseteq ActionStates
    /\ {"GitPushMSR", "GovernorQubmangoSignature", "UpdateAfterGitPush",
        "InitSetFinalizer", "Empty", "NewMSRSpec", "MSRRulesFulfillment",
        "Deletion"} \subseteq ActionStates
    /\ {"Empty", "UpdateAfterGitPush", "NotifyGovernors"} \subseteq ReconcileStates
    /\ {"Empty", "UpdateMCASpec", "Abort"} \subseteq RulesStates
    /\ {"", "InProgress", "Approved"} \subseteq Phases
  BY DEF ActionStates, CreateStates, ReconcileStates, RulesStates, Phases

\* The types of the worker's variables, and of all the others.
WorkerTypes ==
    /\ pc \in {"idle", "handler", "save", "substate", "release"}
    /\ mem \in MSRStatus
    /\ memSpec \in Versions
    /\ fresh \in BOOLEAN

LEMMA ReleaseTypes ==
    ASSUME TypeOK, NEW st \in MSRStatus, NEW a \in ActionStates, ToRelease(st, a)
    PROVE  WorkerTypes'
  BY SetAction DEF TypeOK, ToRelease, WorkerTypes

LEMMA SubstateTypes ==
    ASSUME TypeOK, NEW st \in MSRStatus, ToSubstate(st) \/ ToSaveStatus(st)
    PROVE  WorkerTypes'
  BY DEF TypeOK, ToSubstate, ToSaveStatus, WorkerTypes

LEMMA ReturnTypes == Return => WorkerTypes'
<1>. SUFFICES ASSUME Return PROVE WorkerTypes'
  OBVIOUS
<1>1. fresh' \in BOOLEAN
  BY Zenon DEF Return
<1>. QED
  BY <1>1, BoundAssumption, NewStatusType
  DEF BoundAssumption, Return, WorkerTypes, Versions

LEMMA AcquireTypes ==
    ASSUME TypeOK, NEW a \in ActionStates, AcquireLock(a)
    PROVE  TypeOK'
<1>1. status' \in MSRStatus
  BY SetAction DEF TypeOK, AcquireLock
<1>. QED
  BY <1>1 DEF TypeOK, AcquireLock, repository

LEMMA WriteTypes ==
    ASSUME TypeOK, NEW st \in MSRStatus, WriteStatus(st)
    PROVE  TypeOK'
  BY DEF TypeOK, WriteStatus, worker, repository

LEMMA TypeInit == Init => TypeOK
<1>. SUFFICES ASSUME Init PROVE TypeOK
  OBVIOUS
<1>1. fresh \in BOOLEAN /\ finalizer \in BOOLEAN
  BY Zenon DEF Init
<1>. QED
  BY <1>1, BoundAssumption, NewStatusType
  DEF BoundAssumption, Init, TypeOK, Versions, Aliases, MCASpec

LEMMA TypeNext == TypeOK /\ [Next]_vars => TypeOK'
<1>. SUFFICES ASSUME TypeOK, [Next]_vars PROVE TypeOK'
  OBVIOUS
<1>s. /\ status \in MSRStatus /\ status.action \in ActionStates
      /\ mem \in MSRStatus /\ mem.action \in ActionStates
      /\ mem.history \in Seq(HistoryRecord)
  BY StatusFields DEF TypeOK
<1>r. NewRecord \in HistoryRecord
  BY DEF NewRecord, HistoryRecord, TypeOK
<1>0. CASE UNCHANGED vars
  BY <1>0 DEF TypeOK, vars, cluster, worker, repository
<1>1. CASE LockTimeout
  <2>1. [status EXCEPT !.progressing = FALSE] \in MSRStatus
    BY <1>s, SetAction, StateNames
  <2>. QED
    BY <1>1, <2>1, WriteTypes DEF LockTimeout
<1>2. CASE ReconcileCreate \/ ReconcileNewMSRSpec \/ ReconcileMSRRulesFulfillment
  <2>1. PICK a \in ActionStates : AcquireLock(a)
    BY <1>s, <1>2, StateNames
    DEF ReconcileCreate, ReconcileNewMSRSpec, ReconcileMSRRulesFulfillment
  <2>. QED
    BY <2>1, AcquireTypes
<1>3. CASE DetectNewVersion \/ DetectInProgress \/ ResetAction
  <2>1. PICK a \in {"NewMSRSpec", "MSRRulesFulfillment", "Empty"} :
            WriteStatus([status EXCEPT !.action = a])
    BY <1>3 DEF DetectNewVersion, DetectInProgress, ResetAction
  <2>2. [status EXCEPT !.action = a] \in MSRStatus
    BY <1>s, SetAction, StateNames
  <2>. QED
    BY <2>1, <2>2, WriteTypes
<1>4. CASE GitCommit
  <2>1. WorkerTypes'
    BY <1>s, <1>4, ReleaseTypes, StateNames DEF GitCommit
  <2>. QED
    BY <1>4, <2>1 DEF GitCommit, PushMSR, TypeOK, WorkerTypes, cluster
<1>5. CASE GovernorQubmangoSignature
  <2>1. WorkerTypes'
    BY <1>s, <1>5, ReleaseTypes, StateNames DEF GovernorQubmangoSignature
  <2>. QED
    BY <1>5, <2>1 DEF GovernorQubmangoSignature, TypeOK, WorkerTypes, cluster, Aliases
<1>6. CASE UpdateAfterGitPush
  <2>1. [mem EXCEPT !.history = Append(@, NewRecord)] \in MSRStatus
    BY <1>s, <1>r, AppendRecord DEF MSRStatus
  <2>2. WorkerTypes'
    BY <1>6, <2>1, SubstateTypes DEF UpdateAfterGitPush
  <2>. QED
    BY <1>6, <2>2 DEF UpdateAfterGitPush, TypeOK, WorkerTypes, cluster, repository
<1>7. CASE InitSetFinalizer
  <2>1. WorkerTypes'
    BY <1>s, <1>7, ReleaseTypes, StateNames DEF InitSetFinalizer
  <2>. QED
    BY <1>7, <2>1 DEF InitSetFinalizer, TypeOK, WorkerTypes, repository
<1>8. CASE ReconcileGitCommit
  <2>1. [mem EXCEPT !.reconcile = "UpdateAfterGitPush"] \in MSRStatus
    BY <1>s, SetSubstate, StateNames
  <2>2. WorkerTypes'
    BY <1>8, <2>1, SubstateTypes DEF ReconcileGitCommit
  <2>. QED
    BY <1>8, <2>2 DEF ReconcileGitCommit, PushMSR, TypeOK, WorkerTypes, cluster
<1>9. CASE ReconcileUpdateAfterGitPush
  <2>1. [mem EXCEPT !.history = Append(@, NewRecord), !.phase = "InProgress"]
            \in MSRStatus
    BY <1>s, <1>r, AppendRecord, StateNames DEF MSRStatus
  <2>2. WorkerTypes'
    BY <1>9, <2>1, SubstateTypes DEF ReconcileUpdateAfterGitPush
  <2>. QED
    BY <1>9, <2>2 DEF ReconcileUpdateAfterGitPush, TypeOK, WorkerTypes, cluster,
                      repository
<1>10. CASE ReconcileNotifyGovernors
  <2>1. [mem EXCEPT !.reconcile = "Empty"] \in MSRStatus
    BY <1>s, SetSubstate, StateNames
  <2>2. WorkerTypes'
    BY <1>10, <2>1, SubstateTypes DEF ReconcileNotifyGovernors
  <2>. QED
    BY <1>10, <2>2 DEF ReconcileNotifyGovernors, TypeOK, WorkerTypes, cluster, repository
<1>11. CASE CheckSignaturesNotFound \/ CallFails
  <2>1. WorkerTypes'
    BY <1>s, <1>11, ReleaseTypes DEF CheckSignaturesNotFound, CallFails
  <2>. QED
    BY <1>11, <2>1, BoundAssumption
    DEF CheckSignaturesNotFound, CallFails, TypeOK, WorkerTypes, cluster, repository
<1>12. CASE CheckSignaturesAbort
  <2>1. [mem EXCEPT !.rules = "Abort"] \in MSRStatus
    BY <1>s, SetSubstate, StateNames
  <2>2. WorkerTypes'
    BY <1>12, <2>1, SubstateTypes DEF CheckSignaturesAbort
  <2>. QED
    BY <1>12, <2>2 DEF CheckSignaturesAbort, TypeOK, WorkerTypes, cluster, repository
<1>13. CASE CheckSignaturesApprove
  <2>. DEFINE signers == signed[memSpec] \cap Governors
              h == mem.history
              k == IF h = <<>> THEN h ELSE [h EXCEPT ![Len(h)].signers = signers]
              st == [mem EXCEPT !.collected = signers, !.phase = "Approved",
                                !.observed = head, !.history = k]
  <2>1. signers \in SUBSET Governors /\ head \in Nat
    BY DEF TypeOK
  <2>2. k \in Seq(HistoryRecord)
    <3>1. CASE h = <<>>
      BY <3>1
    <3>2. CASE h # <<>>
      BY <1>s, <2>1, <3>2, SignLastRecord DEF SignLast
    <3>. QED
      BY <3>1, <3>2
  <2>3. ToSaveStatus(st)
    BY <1>13 DEF CheckSignaturesApprove
  <2>. HIDE DEF signers, k
  <2>4. st \in MSRStatus
    BY <1>s, <2>1, <2>2, SetHistory, StateNames
  <2>. HIDE DEF st
  <2>5. WorkerTypes'
    BY <2>3, <2>4, SubstateTypes
  <2>. QED
    BY <1>13, <2>5 DEF CheckSignaturesApprove, TypeOK, WorkerTypes, cluster, repository
<1>14. CASE UpdateMCASpec
  <2>1. [mem EXCEPT !.rules = "Empty"] \in MSRStatus
    BY <1>s, SetSubstate, StateNames
  <2>2. WorkerTypes'
    BY <1>s, <1>14, <2>1, SubstateTypes, ReleaseTypes DEF UpdateMCASpec
  <2>3. NewMCASpec \in MCASpec
    BY <1>s, StatusFields DEF NewMCASpec, MCASpec, TypeOK, Aliases
  <2>. QED
    BY <1>14, <2>2, <2>3 DEF UpdateMCASpec, TypeOK, WorkerTypes, cluster, repository
<1>15. CASE AbortRules
  <2>1. [mem EXCEPT !.rules = "Empty"] \in MSRStatus
    BY <1>s, SetSubstate, StateNames
  <2>2. WorkerTypes'
    BY <1>15, <2>1, ReleaseTypes, StateNames DEF AbortRules
  <2>. QED
    BY <1>15, <2>2 DEF AbortRules, TypeOK, WorkerTypes, cluster, repository
<1>16. CASE SaveStatus
  <2>1. /\ [mem EXCEPT !.reconcile = "NotifyGovernors"] \in MSRStatus
        /\ [mem EXCEPT !.rules = "UpdateMCASpec"] \in MSRStatus
    BY <1>s, SetSubstate, StateNames
  <2>2. WorkerTypes'
    BY <1>s, <1>16, <2>1, SubstateTypes, ReleaseTypes, StateNames DEF SaveStatus
  <2>. QED
    BY <1>16, <2>2 DEF SaveStatus, TypeOK, WorkerTypes, repository
<1>17. CASE SaveSubstate
  <2>1. NextAction(mem) \in ActionStates
    BY <1>s, StateNames DEF NextAction
  <2>2. WorkerTypes'
    BY <1>s, <1>17, <2>1, ReleaseTypes DEF SaveSubstate
  <2>. QED
    BY <1>17, <2>2 DEF SaveSubstate, TypeOK, WorkerTypes, repository
<1>18. CASE ReleaseLock \/ Crash
  <2>1. WorkerTypes'
    BY <1>18, ReturnTypes DEF ReleaseLock, Crash
  <2>. QED
    BY <1>18, <2>1, BoundAssumption
    DEF ReleaseLock, Crash, TypeOK, WorkerTypes, cluster, repository
<1>19. CASE ReconcileDelete \/ ReconcileNotFound
  BY <1>19 DEF ReconcileDelete, ReconcileNotFound, TypeOK, vars, cluster, worker,
               repository
<1>20. CASE ReconcileDeleteFails
  <2>1. [status EXCEPT !.action = "Deletion", !.progressing = FALSE] \in MSRStatus
    BY <1>s, SetAction, StateNames
  <2>. QED
    BY <1>20, <2>1, BoundAssumption DEF ReconcileDeleteFails, TypeOK, worker, repository
<1>21. CASE UpdateMSRSpec
  <2>1. fresh' \in BOOLEAN
    BY <1>21, Zenon DEF UpdateMSRSpec
  <2>. QED
    BY <1>21, <2>1, BoundAssumption
    DEF BoundAssumption, UpdateMSRSpec, TypeOK, Versions, repository
<1>22. ASSUME NEW g \in Governors, NEW v \in Versions, GovernorSigns(g, v)
       PROVE  TypeOK'
  BY <1>22 DEF GovernorSigns, TypeOK, Aliases, cluster, worker
<1>23. CASE OtherCommit
  BY <1>23, BoundAssumption
  DEF BoundAssumption, OtherCommit, TypeOK, cluster, worker, repository
<1>24. CASE DeleteMSR
  <2>1. fresh' \in BOOLEAN
    BY <1>24, Zenon DEF DeleteMSR
  <2>2. life' \in {"live", "deleting", "gone"}
    BY <1>24, Zenon DEF DeleteMSR
  <2>. QED
    BY <1>24, <2>1, <2>2 DEF DeleteMSR, TypeOK, repository
<1>. QED
  BY <1>0, <1>1, <1>2, <1>3, <1>4, <1>5, <1>6, <1>7, <1>8, <1>9, <1>10, <1>11,
     <1>12, <1>13, <1>14, <1>15, <1>16, <1>17, <1>18, <1>19, <1>20, <1>21, <1>22,
     <1>23, <1>24
     DEF Next, Reconcile, Handler, Environment

\* Statuses, copies and repository keep their types whatever the interleaving.
THEOREM TypeCorrect == Spec => []TypeOK
  BY TypeInit, TypeNext, PTL DEF Spec

-----------------------------------------------------------------------------
(***************************************************************************)
(* The inductive invariant                                                 *)
(***************************************************************************)

LEMMA NewStatusFields ==
    /\ NewStatus.action = "Empty" /\ NewStatus.rules = "Empty"
    /\ NewStatus.history = <<>> /\ DOMAIN NewStatus.history = {}
    /\ NewStatus.collected = {}
  BY DEF NewStatus

LEMMA InvInit == Init => IInv
<1>. SUFFICES ASSUME Init PROVE IInv
  OBVIOUS
<1>1. TypeOK
  BY TypeInit
<1>2. /\ status = NewStatus /\ mem = NewStatus /\ pc = "idle" /\ pushed = {}
      /\ spec = 0 /\ memSpec = 0 /\ mca.version = 0
  BY DEF Init
<1>3. CopyIsBehind
  BY <1>2 DEF CopyIsBehind
<1>4. /\ RecordedVersions /\ CollectedBeforeMCA /\ MCAFollowsAnApproval
      /\ LatestIsRecorded(NewStatus) /\ Earned(NewStatus)
      /\ CollectedForARecord(NewStatus)
  BY <1>2, NewStatusFields
  DEF RecordedVersions, LatestIsRecorded, Earned, ApprovedRecords,
      CollectedForARecord, CollectedBeforeMCA, MCAFollowsAnApproval
<1>. QED
  BY <1>1, <1>2, <1>3, <1>4 DEF IInv

\* A lock is only taken for the rules when the stored status is already there.
LEMMA AcquireInv ==
    ASSUME IInv, TypeOK', NEW a \in ActionStates, AcquireLock(a),
           a = "MSRRulesFulfillment" => status.action = a
    PROVE  IInv'
<1>1. /\ status'.action = a
      /\ status'.rules = status.rules
      /\ status'.history = status.history
      /\ status'.collected = status.collected
  BY DEF IInv, TypeOK, MSRStatus, AcquireLock
<1>2. /\ mem' = status' /\ memSpec' = spec /\ pc' = "handler"
      /\ UNCHANGED <<spec, pushed, signed, mca>>
  BY DEF AcquireLock, repository
<1>3. CopyIsBehind'
  BY <1>1, <1>2 DEF IInv, TypeOK, Versions, CopyIsBehind, Extends
<1>4. RecordedVersions'
  BY <1>1, <1>2 DEF IInv, RecordedVersions
<1>5. LatestIsRecorded(status)' /\ LatestIsRecorded(mem)'
  BY <1>1, <1>2 DEF IInv, LatestIsRecorded
<1>6. Earned(status)' /\ Earned(mem)'
  BY <1>1, <1>2 DEF IInv, Earned, ApprovedRecords
<1>7. CollectedForARecord(status)' /\ CollectedForARecord(mem)'
  BY <1>1, <1>2 DEF IInv, CollectedForARecord, ApprovedRecords
<1>8. CollectedBeforeMCA' /\ MCAFollowsAnApproval'
  BY <1>1, <1>2 DEF IInv, CollectedBeforeMCA, MCAFollowsAnApproval, ApprovedRecords
<1>. QED
  BY <1>3, <1>4, <1>5, <1>6, <1>7, <1>8 DEF IInv

\* What an MCA rests on outlives every write that only adds to the history.
LEMMA MCAKept ==
    ASSUME MCAFollowsAnApproval, Extends(status'.history, status.history), mca' = mca
    PROVE  MCAFollowsAnApproval'
  BY DEF MCAFollowsAnApproval, Extends, ApprovedRecords

LEMMA ExtendsRefl == \A h : Extends(h, h)
  BY DEF Extends

\* A Reconcile that ends drops its copy, whether its last write was accepted or not.
LEMMA ReturnInv ==
    ASSUME IInv, TypeOK', Return, UNCHANGED <<spec, pushed, signed, mca>>,
           status' = status \/ (pc # "idle" /\ fresh /\ status' = mem)
    PROVE  IInv'
<1>1. mem' = NewStatus /\ memSpec' = 0 /\ pc' = "idle"
  BY DEF Return
<1>2. ~fresh'
  BY Zenon DEF Return
<1>3. CopyIsBehind'
  BY <1>1, <1>2 DEF CopyIsBehind, TypeOK, Versions
<1>4. RecordedVersions'
  BY <1>1, NewStatusFields DEF IInv, RecordedVersions, CopyIsBehind
<1>5. LatestIsRecorded(status)' /\ LatestIsRecorded(mem)'
  BY <1>1, NewStatusFields DEF IInv, LatestIsRecorded
<1>6. Earned(status)' /\ Earned(mem)'
  BY <1>1, NewStatusFields DEF IInv, Earned, ApprovedRecords
<1>7. CollectedForARecord(status)' /\ CollectedForARecord(mem)'
  BY <1>1, NewStatusFields DEF IInv, CollectedForARecord, ApprovedRecords
<1>8. CollectedBeforeMCA'
  BY <1>1, NewStatusFields DEF IInv, CollectedBeforeMCA
<1>9. MCAFollowsAnApproval'
  <2>1. Extends(status'.history, status.history)
    BY ExtendsRefl DEF IInv, CopyIsBehind
  <2>. QED
    BY <2>1, MCAKept DEF IInv
<1>. QED
  BY <1>3, <1>4, <1>5, <1>6, <1>7, <1>8, <1>9 DEF IInv

\* A handler that leaves the history of its copy alone: it may publish the copy's
\* version, but not while the rules are checked.
LEMMA CopyStepInv ==
    ASSUME IInv, TypeOK', pc # "idle", pc' \in {"release", "substate"},
           UNCHANGED <<spec, status, memSpec, fresh>>,
           mem'.history = mem.history, mem'.collected = mem.collected,
           mem'.rules = "UpdateMCASpec" => mem.rules = "UpdateMCASpec",
           mem'.action = "MSRRulesFulfillment" => mem.action = "MSRRulesFulfillment",
           \/ pushed' = pushed
           \/ /\ pushed' = pushed \cup {memSpec}
              /\ status.action # "MSRRulesFulfillment"
              /\ mem'.action # "MSRRulesFulfillment",
           \A v \in Versions : signed[v] \subseteq signed'[v],
           MCAFollowsAnApproval'
    PROVE  IInv'
<1>1. CopyIsBehind'
  BY DEF IInv, CopyIsBehind
<1>2. RecordedVersions'
  BY DEF IInv, RecordedVersions, CopyIsBehind
<1>3. LatestIsRecorded(status)' /\ LatestIsRecorded(mem)'
  BY DEF IInv, LatestIsRecorded
<1>4. Earned(status)' /\ Earned(mem)'
  BY DEF IInv, Earned, ApprovedRecords, TypeOK
<1>5. CollectedForARecord(status)' /\ CollectedForARecord(mem)'
  BY DEF IInv, CollectedForARecord, ApprovedRecords
<1>6. CollectedBeforeMCA'
  BY DEF IInv, CollectedBeforeMCA
<1>. QED
  BY <1>1, <1>2, <1>3, <1>4, <1>5, <1>6 DEF IInv

\* A write of the worker makes its fresh copy the stored status; the copy may then
\* move on to another state.
LEMMA StoreInv ==
    ASSUME IInv, TypeOK', pc # "idle", fresh, status' = mem,
           UNCHANGED <<spec, memSpec, fresh, pushed, signed, mca>>,
           pc' \in {"release", "substate"},
           mem'.history = mem.history, mem'.collected = mem.collected,
           mem'.rules = "UpdateMCASpec" => mem.collected # {},
           mem'.action = "MSRRulesFulfillment" => mem.action = "MSRRulesFulfillment"
    PROVE  IInv'
<1>0. Extends(status'.history, status.history)
  BY DEF IInv, CopyIsBehind
<1>1. CopyIsBehind'
  BY ExtendsRefl DEF IInv, CopyIsBehind
<1>2. RecordedVersions'
  BY DEF IInv, RecordedVersions, CopyIsBehind
<1>3. LatestIsRecorded(status)' /\ LatestIsRecorded(mem)'
  BY DEF IInv, LatestIsRecorded
<1>4. Earned(status)' /\ Earned(mem)'
  BY DEF IInv, Earned, ApprovedRecords
<1>5. CollectedForARecord(status)' /\ CollectedForARecord(mem)'
  BY DEF IInv, CollectedForARecord, ApprovedRecords
<1>6. CollectedBeforeMCA'
  BY DEF IInv, CollectedBeforeMCA
<1>7. MCAFollowsAnApproval'
  BY <1>0, MCAKept DEF IInv
<1>. QED
  BY <1>1, <1>2, <1>3, <1>4, <1>5, <1>6, <1>7 DEF IInv

LEMMA LastRecord ==
    ASSUME NEW h \in Seq(HistoryRecord), h # <<>>
    PROVE  Last(h) = h[Len(h)] /\ Last(h) \in HistoryRecord /\ Len(h) \in DOMAIN h
<1>1. Len(h) \in 1 .. Len(h) /\ DOMAIN h = 1 .. Len(h)
  BY EmptySeq, LenProperties
<1>. QED
  BY <1>1, ElementOfSeq DEF Last

\* A write of the idle worker that only sets the action.
LEMMA WriteInv ==
    ASSUME IInv, TypeOK', NEW st, st \in MSRStatus, WriteStatus(st),
           st.history = status.history, st.collected = status.collected,
           st.rules = status.rules,
           st.action = "MSRRulesFulfillment" =>
               status.action = "MSRRulesFulfillment"
                 \/ (spec <= LatestVersion(status))
    PROVE  IInv'
<1>1. /\ status' = st /\ pc = "idle"
      /\ UNCHANGED <<spec, pc, mem, memSpec, fresh, pushed, signed, mca>>
  BY DEF WriteStatus, worker, repository
<1>2. CopyIsBehind'
  BY <1>1 DEF IInv, CopyIsBehind
<1>3. RecordedVersions'
  BY <1>1 DEF IInv, RecordedVersions
<1>4. LatestIsRecorded(status)' /\ LatestIsRecorded(mem)'
  <2>1. CASE status.action = "MSRRulesFulfillment" \/ st.action # "MSRRulesFulfillment"
    BY <1>1, <2>1 DEF IInv, LatestIsRecorded
  <2>2. CASE spec <= LatestVersion(status)
    <3>1. status.history # <<>> /\ spec <= Last(status.history).version
      BY <2>2 DEF LatestVersion, IInv, TypeOK, Versions
    <3>2. Last(status.history).version \in Nat
      <4>1. status.history \in Seq(HistoryRecord)
        BY StatusFields DEF IInv, TypeOK
      <4>2. Last(status.history) \in HistoryRecord
        BY <3>1, <4>1, LastRecord
      <4>. QED
        BY <4>2 DEF HistoryRecord, Versions
    <3>3. \A v \in pushed : v <= Last(status.history).version
      BY <3>1, <3>2 DEF IInv, RecordedVersions, TypeOK, Versions
    <3>. QED
      BY <1>1, <3>1, <3>3 DEF IInv, LatestIsRecorded
  <2>. QED
    BY <2>1, <2>2
<1>5. Earned(status)' /\ Earned(mem)'
  BY <1>1 DEF IInv, Earned, ApprovedRecords
<1>6. CollectedForARecord(status)' /\ CollectedForARecord(mem)'
  BY <1>1 DEF IInv, CollectedForARecord, ApprovedRecords
<1>7. CollectedBeforeMCA' /\ MCAFollowsAnApproval'
  BY <1>1 DEF IInv, CollectedBeforeMCA, MCAFollowsAnApproval, ApprovedRecords
<1>. QED
  BY <1>2, <1>3, <1>4, <1>5, <1>6, <1>7 DEF IInv

\* A record for the copy's version is put at the end of its history.
LEMMA RecordInv ==
    ASSUME IInv, TypeOK', pc = "handler", pc' = "save",
           UNCHANGED <<spec, status, memSpec, fresh, pushed, signed, mca>>,
           mem'.history = Append(mem.history, NewRecord),
           mem'.collected = mem.collected, mem'.rules = mem.rules,
           mem'.action = mem.action,
           mem.action \in {"UpdateAfterGitPush", "NewMSRSpec"}
    PROVE  IInv'
<1>. DEFINE h == mem.history
            k == mem'.history
<1>1. NewRecord \in HistoryRecord /\ NewRecord.version = memSpec /\ NewRecord.signers = {}
  BY DEF NewRecord, HistoryRecord, IInv, TypeOK
<1>2. h \in Seq(HistoryRecord)
  BY StatusFields DEF IInv, TypeOK
<1>3. /\ DOMAIN k = DOMAIN h \cup {Len(h) + 1}
      /\ \A i \in DOMAIN h : k[i] = h[i]
      /\ k[Len(h) + 1] = NewRecord
  BY <1>1, <1>2, AppendRecord
<1>4. ApprovedRecords(mem') = ApprovedRecords(mem)
  BY <1>1, <1>2, <1>3 DEF ApprovedRecords
<1>. HIDE DEF h, k
<1>5. CopyIsBehind'
  BY <1>3 DEF IInv, CopyIsBehind, Extends, h, k
<1>6. RecordedVersions'
  BY <1>1, <1>3 DEF IInv, RecordedVersions, TypeOK, Versions, h, k
<1>7. LatestIsRecorded(status)' /\ LatestIsRecorded(mem)'
  BY DEF IInv, LatestIsRecorded
<1>8. Earned(status)' /\ Earned(mem)'
  BY <1>3, <1>4 DEF IInv, Earned, ApprovedRecords, h, k
<1>9. CollectedForARecord(status)' /\ CollectedForARecord(mem)'
  BY <1>3, <1>4 DEF IInv, CollectedForARecord, ApprovedRecords, h, k
<1>10. CollectedBeforeMCA' /\ MCAFollowsAnApproval'
  BY DEF IInv, CollectedBeforeMCA, MCAFollowsAnApproval, ApprovedRecords
<1>. QED
  BY <1>5, <1>6, <1>7, <1>8, <1>9, <1>10 DEF IInv

\* The approval: the signatures read for the copy's version are put on the last
\* record, which is the record of that version.
LEMMA ApproveInv ==
    ASSUME IInv, TypeOK', CheckSignaturesApprove
    PROVE  IInv'
<1>. DEFINE S == signed[memSpec] \cap Governors
            h == mem.history
            k == mem'.history
<1>1. /\ pc = "handler" /\ pc' = "save" /\ mem.action = "MSRRulesFulfillment"
      /\ memSpec \in pushed /\ Fulfilled(signed[memSpec])
      /\ UNCHANGED <<spec, status, memSpec, fresh, pushed, signed, mca>>
  BY DEF CheckSignaturesApprove, InHandler, ToSaveStatus, cluster, repository
<1>2. h \in Seq(HistoryRecord) /\ S \in SUBSET Governors
  BY StatusFields DEF IInv, TypeOK
<1>3. h # <<>> /\ \A v \in pushed : v <= Last(h).version
  BY <1>1 DEF IInv, LatestIsRecorded
<1>4. /\ mem'.action = mem.action /\ mem'.rules = mem.rules
      /\ mem'.collected = S
      /\ k = SignLast(h, S)
  BY <1>3
  DEF CheckSignaturesApprove, ToSaveStatus, IInv, TypeOK, MSRStatus, SignLast
<1>. HIDE DEF S, h, k
<1>5. /\ k # <<>> /\ DOMAIN k = DOMAIN h /\ Len(h) \in DOMAIN h
      /\ \A i \in DOMAIN h : k[i].version = h[i].version
      /\ \A i \in DOMAIN h \ {Len(h)} : k[i] = h[i]
      /\ k[Len(h)].signers = S
      /\ Last(h) = h[Len(h)] /\ Last(k).version = Last(h).version
  BY <1>2, <1>3, <1>4, SignLastRecord
<1>6. h[Len(h)].version = memSpec
  <2>1. h[Len(h)].version <= memSpec /\ memSpec <= h[Len(h)].version
    BY <1>1, <1>3, <1>5 DEF IInv, RecordedVersions, h
  <2>2. h[Len(h)].version \in Nat /\ memSpec \in Nat
    <3>1. h[Len(h)] \in HistoryRecord
      BY <1>2, <1>3, LastRecord
    <3>. QED
      BY <3>1 DEF IInv, TypeOK, Versions, HistoryRecord
  <2>. QED
    BY <2>1, <2>2
<1>7. Fulfilled(S) /\ S # {}
  BY <1>1, NoFreeQuorum DEF NoFreeQuorum, Fulfilled, S
<1>8. h[Len(h)].signers \subseteq S
  <2>1. h[Len(h)].signers \in SUBSET Governors
    BY <1>2, <1>3, LastRecord DEF HistoryRecord
  <2>2. h[Len(h)].signers # {} => h[Len(h)].signers \subseteq signed[memSpec]
    BY <1>5, <1>6 DEF IInv, Earned, ApprovedRecords, h
  <2>. QED
    BY <2>1, <2>2 DEF S
<1>9. CopyIsBehind'
  <2>1. Extends(k, h)
    BY <1>5, <1>8 DEF Extends
  <2>2. h = status.history
    BY <1>1 DEF IInv, CopyIsBehind, h
  <2>. QED
    BY <1>1, <2>1, <2>2 DEF IInv, CopyIsBehind, k
<1>10. RecordedVersions'
  BY <1>1, <1>5 DEF IInv, RecordedVersions, h, k
<1>11. LatestIsRecorded(status)' /\ LatestIsRecorded(mem)'
  BY <1>1, <1>3, <1>5 DEF IInv, LatestIsRecorded, h, k
<1>12. Earned(status)' /\ Earned(mem)'
  <2>1. Earned(status)'
    BY <1>1 DEF IInv, Earned, ApprovedRecords
  <2>2. ASSUME NEW i \in DOMAIN k, k[i].signers # {}
        PROVE  /\ Fulfilled(k[i].signers) /\ k[i].version \in pushed
               /\ k[i].signers \subseteq signed[k[i].version]
    <3>1. CASE i = Len(h)
      BY <1>1, <1>5, <1>6, <1>7, <3>1 DEF S
    <3>2. CASE i # Len(h)
      BY <1>5, <2>2, <3>2 DEF IInv, Earned, ApprovedRecords, h
    <3>. QED
      BY <3>1, <3>2
  <2>. QED
    BY <1>1, <2>1, <2>2 DEF Earned, ApprovedRecords, k
<1>13. CollectedForARecord(status)' /\ CollectedForARecord(mem)'
  BY <1>1, <1>4, <1>5, <1>7 DEF IInv, CollectedForARecord, ApprovedRecords, h, k
<1>14. CollectedBeforeMCA' /\ MCAFollowsAnApproval'
  BY <1>1, <1>4, <1>7
  DEF IInv, CollectedBeforeMCA, MCAFollowsAnApproval, ApprovedRecords
<1>. QED
  BY <1>9, <1>10, <1>11, <1>12, <1>13, <1>14 DEF IInv

\* The MCA is written with the signatures of a record the cluster already has.
LEMMA WriteMCA ==
    ASSUME IInv, UpdateMCASpec
    PROVE  MCAFollowsAnApproval'
<1>1. CASE mca' = mca
  BY <1>1, MCAKept, ExtendsRefl DEF IInv, UpdateMCASpec, cluster
<1>2. CASE mca' = NewMCASpec
  <2>1. mem = status /\ status' = status /\ mem.collected # {}
    BY DEF IInv, CopyIsBehind, CollectedBeforeMCA, UpdateMCASpec, InHandler, cluster
  <2>2. mca'.signers = status.collected /\ mca'.version = memSpec
    BY <1>2, <2>1 DEF NewMCASpec
  <2>3. PICK i \in ApprovedRecords(status) :
            status.collected \subseteq status.history[i].signers
    BY <2>1 DEF IInv, CollectedForARecord
  <2>4. status.history[i].version <= memSpec
    BY <2>1, <2>3 DEF IInv, RecordedVersions, ApprovedRecords
  <2>5. Fulfilled(status.collected)
    BY <2>1 DEF IInv, CollectedForARecord
  <2>. QED
    BY <2>1, <2>2, <2>3, <2>4, <2>5 DEF MCAFollowsAnApproval, ApprovedRecords
<1>. QED
  BY <1>1, <1>2 DEF UpdateMCASpec

LEMMA InvNext == IInv /\ [Next]_vars => IInv'
<1>. SUFFICES ASSUME IInv, [Next]_vars PROVE IInv'
  OBVIOUS
<1>t. TypeOK /\ TypeOK'
  BY TypeNext DEF IInv
<1>s. /\ status \in MSRStatus /\ status.action \in ActionStates
      /\ mem \in MSRStatus
  BY <1>t, StatusFields DEF TypeOK
<1>m. MCAFollowsAnApproval
  BY DEF IInv
<1>0. CASE UNCHANGED vars
  BY <1>0 DEF vars, cluster, worker, repository, IInv, CopyIsBehind, RecordedVersions,
     LatestIsRecorded, Earned, ApprovedRecords, CollectedForARecord,
     CollectedBeforeMCA, MCAFollowsAnApproval, TypeOK
<1>1. CASE LockTimeout
  <2>. DEFINE st == [status EXCEPT !.progressing = FALSE]
  <2>1. /\ st \in MSRStatus /\ st.history = status.history /\ st.rules = status.rules
        /\ st.collected = status.collected /\ st.action = status.action
    BY <1>s, SetAction, StateNames DEF MSRStatus
  <2>2. WriteStatus(st)
    BY <1>1 DEF LockTimeout
  <2>. HIDE DEF st
  <2>. QED
    BY <1>t, <2>1, <2>2, WriteInv
<1>2. CASE ReconcileCreate \/ ReconcileNewMSRSpec \/ ReconcileMSRRulesFulfillment
  <2>1. PICK a \in ActionStates :
            /\ AcquireLock(a)
            /\ a = "MSRRulesFulfillment" => status.action = a
    BY <1>s, <1>2, StateNames
    DEF ReconcileCreate, ReconcileNewMSRSpec, ReconcileMSRRulesFulfillment
  <2>. QED
    BY <1>t, <2>1, AcquireInv
<1>3. CASE DetectNewVersion \/ DetectInProgress \/ ResetAction
  <2>1. PICK a \in {"NewMSRSpec", "MSRRulesFulfillment", "Empty"} :
            /\ WriteStatus([status EXCEPT !.action = a])
            /\ a = "MSRRulesFulfillment" => spec <= LatestVersion(status)
    BY <1>3 DEF DetectNewVersion, DetectInProgress, ResetAction
  <2>. DEFINE st == [status EXCEPT !.action = a]
  <2>2. /\ st \in MSRStatus /\ st.history = status.history /\ st.rules = status.rules
        /\ st.collected = status.collected /\ st.action = a
    BY <1>s, SetAction, StateNames DEF MSRStatus
  <2>3. WriteStatus(st)
    BY <2>1
  <2>. HIDE DEF st
  <2>. QED
    BY <1>t, <2>1, <2>2, <2>3, WriteInv
<1>4. CASE GitCommit \/ GovernorQubmangoSignature
  <2>1. /\ mem'.history = mem.history /\ mem'.collected = mem.collected
        /\ mem'.rules = mem.rules /\ mem'.action # "MSRRulesFulfillment"
    BY <1>s, <1>4
    DEF GitCommit, GovernorQubmangoSignature, ToRelease, MSRStatus
  <2>2. /\ pc = "handler" /\ pc' = "release" /\ mem.action # "MSRRulesFulfillment"
        /\ UNCHANGED <<spec, status, memSpec, fresh, mca>>
        /\ pushed' = pushed \/ pushed' = pushed \cup {memSpec}
        /\ \A v \in Versions : signed[v] \subseteq signed'[v]
    BY <1>t, <1>4
    DEF GitCommit, GovernorQubmangoSignature, InHandler, PushMSR, ToRelease, cluster,
        TypeOK
  <2>3. status.action # "MSRRulesFulfillment" /\ status' = status /\ MCAFollowsAnApproval'
    BY <1>m, <2>2 DEF IInv, CopyIsBehind, MCAFollowsAnApproval, ApprovedRecords
  <2>. QED
    BY <1>t, <2>1, <2>2, <2>3, CopyStepInv
<1>5. CASE UpdateAfterGitPush
  <2>1. /\ pc = "handler" /\ pc' = "save" /\ mem.action = "UpdateAfterGitPush"
        /\ UNCHANGED <<spec, status, memSpec, fresh, pushed, signed, mca>>
        /\ mem' = [mem EXCEPT !.history = Append(mem.history, NewRecord)]
    BY <1>5 DEF UpdateAfterGitPush, InHandler, ToSaveStatus, cluster, repository
  <2>2. /\ mem'.history = Append(mem.history, NewRecord)
        /\ mem'.collected = mem.collected /\ mem'.rules = mem.rules
        /\ mem'.action = mem.action
    BY <1>s, <2>1 DEF MSRStatus
  <2>. QED
    BY <1>t, <2>1, <2>2, RecordInv
<1>6. CASE InitSetFinalizer
  <2>1. /\ pc = "handler" /\ pc' = "release" /\ mem.action = "InitSetFinalizer"
        /\ UNCHANGED <<spec, status, memSpec, fresh, pushed, signed, mca>>
        /\ mem'.history = mem.history /\ mem'.collected = mem.collected
        /\ mem'.rules = mem.rules /\ mem'.action # "MSRRulesFulfillment"
    BY <1>s, <1>6 DEF InitSetFinalizer, InHandler, ToRelease, MSRStatus, repository
  <2>2. MCAFollowsAnApproval'
    BY <1>m, <2>1 DEF MCAFollowsAnApproval, ApprovedRecords
  <2>. QED
    BY <1>t, <2>1, <2>2, CopyStepInv
<1>7. CASE ReconcileGitCommit
  <2>1. /\ pc = "handler" /\ pc' = "substate" /\ mem.action = "NewMSRSpec"
        /\ UNCHANGED <<spec, status, memSpec, fresh, signed, mca>>
        /\ pushed' = pushed \cup {memSpec}
        /\ mem'.history = mem.history /\ mem'.collected = mem.collected
        /\ mem'.rules = mem.rules /\ mem'.action = mem.action
    BY <1>s, <1>7
    DEF ReconcileGitCommit, InHandler, PushMSR, ToSubstate, MSRStatus, cluster
  <2>2. status.action # "MSRRulesFulfillment"
    BY <2>1 DEF IInv, CopyIsBehind
  <2>3. MCAFollowsAnApproval'
    BY <1>m, <2>1 DEF MCAFollowsAnApproval, ApprovedRecords
  <2>. QED
    BY <1>t, <2>1, <2>2, <2>3, CopyStepInv
<1>8. CASE ReconcileUpdateAfterGitPush
  <2>1. /\ pc = "handler" /\ pc' = "save" /\ mem.action = "NewMSRSpec"
        /\ UNCHANGED <<spec, status, memSpec, fresh, pushed, signed, mca>>
        /\ mem' = [mem EXCEPT !.history = Append(mem.history, NewRecord),
                              !.phase = "InProgress"]
    BY <1>8 DEF ReconcileUpdateAfterGitPush, InHandler, ToSaveStatus, cluster, repository
  <2>2. /\ mem'.history = Append(mem.history, NewRecord)
        /\ mem'.collected = mem.collected /\ mem'.rules = mem.rules
        /\ mem'.action = mem.action
    BY <1>s, <2>1 DEF MSRStatus
  <2>. QED
    BY <1>t, <2>1, <2>2, RecordInv
<1>9. CASE ReconcileNotifyGovernors \/ CheckSignaturesNotFound \/ CheckSignaturesAbort
            \/ AbortRules \/ CallFails
  <2>1. /\ pc # "idle" /\ pc' \in {"release", "substate"}
        /\ UNCHANGED <<spec, status, memSpec, fresh, pushed, signed, mca>>
    BY <1>9
    DEF ReconcileNotifyGovernors, CheckSignaturesNotFound, CheckSignaturesAbort,
        AbortRules, CallFails, InHandler, ToRelease, ToSubstate, cluster, repository
  <2>2. /\ mem'.history = mem.history /\ mem'.collected = mem.collected
        /\ mem'.rules = "UpdateMCASpec" => mem.rules = "UpdateMCASpec"
        /\ mem'.action = "MSRRulesFulfillment" => mem.action = "MSRRulesFulfillment"
    BY <1>s, <1>9
    DEF ReconcileNotifyGovernors, CheckSignaturesNotFound, CheckSignaturesAbort,
        AbortRules, CallFails, ToRelease, ToSubstate, MSRStatus
  <2>3. MCAFollowsAnApproval'
    BY <1>m, <2>1 DEF MCAFollowsAnApproval, ApprovedRecords
  <2>. QED
    BY <1>t, <2>1, <2>2, <2>3, CopyStepInv
<1>10. CASE CheckSignaturesApprove
  BY <1>t, <1>10, ApproveInv
<1>11. CASE UpdateMCASpec
  <2>1. /\ pc = "handler" /\ pc' \in {"release", "substate"}
        /\ UNCHANGED <<spec, status, memSpec, fresh, pushed, signed>>
    BY <1>11 DEF UpdateMCASpec, InHandler, ToRelease, ToSubstate, cluster, repository
  <2>2. /\ mem'.history = mem.history /\ mem'.collected = mem.collected
        /\ mem'.rules = "UpdateMCASpec" => mem.rules = "UpdateMCASpec"
        /\ mem'.action = mem.action
    BY <1>s, <1>11 DEF UpdateMCASpec, ToRelease, ToSubstate, MSRStatus
  <2>. QED
    BY <1>t, <1>11, <2>1, <2>2, WriteMCA, CopyStepInv
<1>12. CASE SaveStatus
  <2>1. CASE fresh
    <3>1. /\ pc = "save" /\ pc' \in {"release", "substate"} /\ status' = mem
          /\ UNCHANGED <<spec, memSpec, fresh, pushed, signed, mca>>
      BY <1>12, <2>1 DEF SaveStatus, ToRelease, ToSubstate, repository
    <3>2. /\ mem'.history = mem.history /\ mem'.collected = mem.collected
          /\ mem'.action = "MSRRulesFulfillment" => mem.action = "MSRRulesFulfillment"
          /\ \/ mem'.rules = mem.rules
             \/ mem.action \notin {"UpdateAfterGitPush", "NewMSRSpec"}
      BY <1>s, <1>12, <2>1 DEF SaveStatus, ToRelease, ToSubstate, MSRStatus
    <3>3. mem'.rules = "UpdateMCASpec" => mem.collected # {}
      BY <3>1, <3>2 DEF IInv, CollectedBeforeMCA
    <3>. QED
      BY <1>t, <2>1, <3>1, <3>2, <3>3, StoreInv
  <2>2. CASE ~fresh
    <3>1. /\ pc = "save" /\ pc' = "release"
          /\ UNCHANGED <<spec, status, memSpec, fresh, pushed, signed, mca>>
          /\ mem'.history = mem.history /\ mem'.collected = mem.collected
          /\ mem'.rules = mem.rules /\ mem'.action = mem.action
      BY <1>s, <1>12, <2>2 DEF SaveStatus, ToRelease, MSRStatus, repository
    <3>2. MCAFollowsAnApproval'
      BY <1>m, <3>1 DEF MCAFollowsAnApproval, ApprovedRecords
    <3>. QED
      BY <1>t, <3>1, <3>2, CopyStepInv
  <2>. QED
    BY <2>1, <2>2
<1>13. CASE SaveSubstate
  <2>0. /\ pc = "substate" /\ pc' = "release"
        /\ UNCHANGED <<spec, memSpec, fresh, pushed, signed, mca>>
        /\ mem'.history = mem.history /\ mem'.collected = mem.collected
        /\ mem'.rules = mem.rules
        /\ mem'.action = "MSRRulesFulfillment" => mem.action = "MSRRulesFulfillment"
    BY <1>s, <1>13 DEF SaveSubstate, NextAction, ToRelease, MSRStatus, repository
  <2>1. CASE fresh
    <3>1. status' = mem
      BY <1>13, <2>1 DEF SaveSubstate
    <3>2. mem'.rules = "UpdateMCASpec" => mem.collected # {}
      BY <2>0 DEF IInv, CollectedBeforeMCA
    <3>. QED
      BY <1>t, <2>0, <2>1, <3>1, <3>2, StoreInv
  <2>2. CASE ~fresh
    <3>1. status' = status
      BY <1>13, <2>2 DEF SaveSubstate
    <3>2. MCAFollowsAnApproval'
      BY <1>m, <2>0, <3>1 DEF MCAFollowsAnApproval, ApprovedRecords
    <3>. QED
      BY <1>t, <2>0, <3>1, <3>2, CopyStepInv
  <2>. QED
    BY <2>1, <2>2
<1>14. CASE ReleaseLock \/ Crash
  <2>1. /\ Return
        /\ UNCHANGED <<spec, pushed, signed, mca>>
        /\ status' = status \/ (pc # "idle" /\ fresh /\ status' = mem)
    BY <1>14 DEF ReleaseLock, Crash, cluster, repository
  <2>. QED
    BY <1>t, <2>1, ReturnInv
<1>15. CASE ReconcileDelete \/ ReconcileNotFound
  BY <1>t, <1>15
  DEF ReconcileDelete, ReconcileNotFound, vars, cluster, worker, repository, IInv,
      CopyIsBehind, RecordedVersions, LatestIsRecorded, Earned, ApprovedRecords,
      CollectedForARecord, CollectedBeforeMCA, MCAFollowsAnApproval
<1>16. CASE ReconcileDeleteFails
  <2>1. /\ status'.history = status.history /\ status'.rules = status.rules
        /\ status'.collected = status.collected /\ status'.action = "Deletion"
        /\ pc = "idle"
        /\ UNCHANGED <<spec, pc, mem, memSpec, fresh, pushed, signed, mca>>
    BY <1>s, <1>16 DEF ReconcileDeleteFails, MSRStatus, worker, repository
  <2>. QED
    BY <1>t, <2>1
    DEF IInv, CopyIsBehind, RecordedVersions, LatestIsRecorded, Earned,
        ApprovedRecords, CollectedForARecord, CollectedBeforeMCA, MCAFollowsAnApproval
<1>17. CASE UpdateMSRSpec \/ DeleteMSR
  <2>1. /\ spec' = spec \/ spec' = spec + 1
        /\ UNCHANGED <<status, pc, mem, memSpec, pushed, signed, mca>>
    BY <1>17 DEF UpdateMSRSpec, DeleteMSR, repository
  <2>2. ~fresh'
    BY <1>17, Zenon DEF UpdateMSRSpec, DeleteMSR
  <2>3. CopyIsBehind'
    BY <1>t, <2>1, <2>2 DEF IInv, CopyIsBehind, TypeOK, Versions
  <2>4. RecordedVersions'
    <3>1. \A v \in pushed : v <= spec'
      BY <1>t, <2>1 DEF IInv, RecordedVersions, TypeOK, Versions
    <3>2. \A i \in DOMAIN status.history : status.history[i].version <= spec'
      <4>1. ASSUME NEW i \in DOMAIN status.history
            PROVE  status.history[i].version \in Nat
        <5>1. status.history \in Seq(HistoryRecord)
          BY <1>s, StatusFields
        <5>2. status.history[i] \in HistoryRecord
          BY <5>1
        <5>. QED
          BY <5>2 DEF HistoryRecord, Versions
      <4>. QED
        BY <1>t, <2>1, <4>1 DEF IInv, RecordedVersions, TypeOK, Versions
    <3>. QED
      BY <2>1, <3>1, <3>2 DEF IInv, RecordedVersions
  <2>. QED
    BY <1>t, <2>1, <2>3, <2>4
    DEF IInv, LatestIsRecorded, Earned, ApprovedRecords, CollectedForARecord,
        CollectedBeforeMCA, MCAFollowsAnApproval
<1>18. ASSUME NEW g \in Governors, NEW v \in Versions, GovernorSigns(g, v)
       PROVE  IInv'
  <2>1. /\ UNCHANGED <<spec, status, pc, mem, memSpec, fresh, pushed, mca>>
        /\ \A w \in Versions : signed[w] \subseteq signed'[w]
    BY <1>t, <1>18 DEF GovernorSigns, TypeOK, cluster, worker
  <2>2. Earned(status)' /\ Earned(mem)'
    BY <1>t, <2>1 DEF IInv, Earned, ApprovedRecords, TypeOK
  <2>. QED
    BY <1>t, <2>1, <2>2
    DEF IInv, CopyIsBehind, RecordedVersions, LatestIsRecorded, ApprovedRecords,
        CollectedForARecord, CollectedBeforeMCA, MCAFollowsAnApproval
<1>19. CASE OtherCommit
  BY <1>t, <1>19
  DEF OtherCommit, cluster, worker, IInv, CopyIsBehind, RecordedVersions,
      LatestIsRecorded, Earned, ApprovedRecords, CollectedForARecord,
      CollectedBeforeMCA, MCAFollowsAnApproval
<1>. QED
  BY <1>0, <1>1, <1>2, <1>3, <1>4, <1>5, <1>6, <1>7, <1>8, <1>9, <1>10, <1>11,
     <1>12, <1>13, <1>14, <1>15, <1>16, <1>17, <1>18, <1>19
     DEF Next, Reconcile, Handler, Environment

\* What the worker knows of the cluster between two of its calls stays true.
THEOREM InvCorrect == Spec => []IInv
  BY InvInit, InvNext, PTL DEF Spec

-----------------------------------------------------------------------------
(***************************************************************************)
(* What follows from it                                                    *)
(***************************************************************************)

\* An approval written to RequestHistory was earned by the version it is written
\* to, whatever the MRT controller, the governors and the faults do meanwhile.
THEOREM ApprovalsCorrect == Spec => []ApprovalsAreEarned
<1>1. IInv => ApprovalsAreEarned
  BY DEF IInv, ApprovalsAreEarned
<1>. QED
  BY <1>1, InvCorrect, PTL

\* The signatures of an MCA fulfil the rule and come from an approved request.
THEOREM MCACorrect == Spec => []MCAFollowsAnApproval
<1>1. IInv => MCAFollowsAnApproval
  BY DEF IInv
<1>. QED
  BY <1>1, InvCorrect, PTL

\* The stored history changes only when the worker stores its copy.
LEMMA StatusWrites ==
    ASSUME TypeOK, [Next]_vars
    PROVE  status'.history = status.history \/ (pc # "idle" /\ status' = mem)
<1>s. status \in MSRStatus
  BY DEF TypeOK
<1>0. CASE UNCHANGED vars
  BY <1>0 DEF vars, cluster
<1>1. CASE LockTimeout \/ DetectNewVersion \/ DetectInProgress \/ ResetAction
            \/ ReconcileDeleteFails
  BY <1>s, <1>1
  DEF LockTimeout, DetectNewVersion, DetectInProgress, ResetAction,
      ReconcileDeleteFails, WriteStatus, MSRStatus
<1>2. CASE ReconcileCreate \/ ReconcileNewMSRSpec \/ ReconcileMSRRulesFulfillment
  BY <1>s, <1>2
  DEF ReconcileCreate, ReconcileNewMSRSpec, ReconcileMSRRulesFulfillment, AcquireLock,
      MSRStatus
<1>3. CASE Handler
  BY <1>3
  DEF Handler, GitCommit, GovernorQubmangoSignature, UpdateAfterGitPush,
      InitSetFinalizer, ReconcileGitCommit, ReconcileUpdateAfterGitPush,
      ReconcileNotifyGovernors, CheckSignaturesNotFound, CheckSignaturesAbort,
      CheckSignaturesApprove, UpdateMCASpec, AbortRules, PushMSR, cluster
<1>4. CASE SaveStatus \/ SaveSubstate \/ ReleaseLock
  BY <1>4 DEF SaveStatus, SaveSubstate, ReleaseLock
<1>5. CASE ReconcileDelete \/ ReconcileNotFound \/ CallFails \/ Crash
  BY <1>5 DEF ReconcileDelete, ReconcileNotFound, CallFails, Crash, vars, cluster
<1>6. CASE Environment
  BY <1>6
  DEF Environment, UpdateMSRSpec, GovernorSigns, OtherCommit, DeleteMSR, cluster
<1>. QED
  BY <1>0, <1>1, <1>2, <1>3, <1>4, <1>5, <1>6 DEF Next, Reconcile

\* No write of the worker takes a record, its version or its signatures away.
THEOREM HistoryCorrect == Spec => HistoryOnlyGrows
<1>1. IInv /\ [Next]_vars => [Extends(status'.history, status.history)]_status
  <2>. SUFFICES ASSUME IInv, [Next]_vars
                PROVE  Extends(status'.history, status.history)
    OBVIOUS
  <2>1. CASE status'.history = status.history
    BY <2>1, ExtendsRefl
  <2>2. CASE pc # "idle" /\ status' = mem
    BY <2>2 DEF IInv, CopyIsBehind
  <2>. QED
    BY <2>1, <2>2, StatusWrites DEF IInv
<1>. QED
  BY <1>1, InvCorrect, PTL DEF Spec, HistoryOnlyGrows

-----------------------------------------------------------------------------
(***************************************************************************)
(* If versions wait for the request to rest                                *)
(***************************************************************************)

\* The version the worker has read is the one that is stored until it is done: its
\* action is not Empty, so that nothing arrives.
WorksUndisturbed ==
    /\ pc # "idle" => status.action # "Empty" /\ memSpec = spec
    /\ pc \in {"handler", "save", "substate"} => mem.action # "Empty"
    /\ pc = "save" =>
           mem.action \in {"UpdateAfterGitPush", "NewMSRSpec", "MSRRulesFulfillment"}

CollectedFor(st, v) == st.collected \subseteq signed[v]

\* Signatures that are about to reach the MCA are of the version they go there with.
CollectedForThis ==
    /\ status.rules = "UpdateMCASpec" =>
           status.action \in {"MSRRulesFulfillment", "Deletion"} /\ CollectedFor(status, spec)
    /\ mem.rules = "UpdateMCASpec" =>
           mem.action = "MSRRulesFulfillment" /\ CollectedFor(mem, memSpec)
    /\ pc = "save" /\ mem.action = "MSRRulesFulfillment" => CollectedFor(mem, memSpec)

MCASignedForIt == mca.version > 0 => mca.signers \subseteq signed[mca.version]

RestInv == WorksUndisturbed /\ CollectedForThis /\ MCASignedForIt

\* A step of the worker on its copy.
LEMMA RestCopyStep ==
    ASSUME TypeOK, RestInv, pc # "idle", pc' \in {"save", "substate", "release"},
           UNCHANGED <<spec, status, memSpec>>,
           \A v \in Versions : signed[v] \subseteq signed'[v],
           pc' = "substate" => mem'.action # "Empty",
           pc' = "save" => /\ mem'.action \in {"UpdateAfterGitPush", "NewMSRSpec",
                                               "MSRRulesFulfillment"}
                           /\ mem'.action = "MSRRulesFulfillment" =>
                                  CollectedFor(mem, memSpec)',
           mem'.rules = "UpdateMCASpec" =>
               /\ mem.rules = "UpdateMCASpec"
               /\ mem'.action = mem.action /\ mem'.collected = mem.collected,
           MCASignedForIt'
    PROVE  RestInv'
<1>1. WorksUndisturbed'
  BY DEF RestInv, WorksUndisturbed
<1>2. \A v \in Versions : CollectedFor(status, v) => CollectedFor(status, v)'
  BY DEF CollectedFor
<1>3. mem'.collected = mem.collected /\ CollectedFor(mem, memSpec) => CollectedFor(mem, memSpec)'
  BY DEF CollectedFor, TypeOK
<1>4. CollectedForThis'
  BY <1>2, <1>3 DEF RestInv, CollectedForThis, TypeOK
<1>. QED
  BY <1>1, <1>4 DEF RestInv

\* The worker stores its copy, which may then move on to another state.
LEMMA RestStore ==
    ASSUME TypeOK, RestInv, pc \in {"save", "substate"}, status' = mem,
           UNCHANGED <<spec, memSpec, signed, mca>>,
           pc' \in {"release", "substate"},
           pc' = "substate" => mem'.action # "Empty",
           mem'.rules = "UpdateMCASpec" =>
               /\ \/ mem.rules = "UpdateMCASpec"
                  \/ pc = "save" /\ mem.action = "MSRRulesFulfillment"
               /\ mem'.action = mem.action /\ mem'.collected = mem.collected
    PROVE  RestInv'
<1>1. WorksUndisturbed'
  BY DEF RestInv, WorksUndisturbed
<1>2. CollectedForThis'
  BY DEF RestInv, WorksUndisturbed, CollectedForThis, CollectedFor
<1>. QED
  BY <1>1, <1>2 DEF RestInv, MCASignedForIt

LEMMA RestInit == Init => RestInv
  BY NewStatusFields DEF Init, RestInv, WorksUndisturbed, CollectedForThis, MCASignedForIt

LEMMA RestNext ==
    ASSUME Arrivals = "resting", TypeOK, TypeOK', RestInv, [Next]_vars
    PROVE  RestInv'
<1>s. /\ status \in MSRStatus /\ mem \in MSRStatus
      /\ status.action \in ActionStates /\ mem.action \in ActionStates
  BY StatusFields DEF TypeOK
<1>g. UNCHANGED <<signed, mca>> => MCASignedForIt'
  BY DEF RestInv, MCASignedForIt
<1>0. CASE UNCHANGED vars
  BY <1>0 DEF vars, cluster, worker, repository, RestInv, WorksUndisturbed,
     CollectedForThis, CollectedFor, MCASignedForIt
<1>1. CASE LockTimeout \/ DetectNewVersion \/ DetectInProgress \/ ResetAction
  <2>1. /\ pc = "idle"
        /\ UNCHANGED <<spec, pc, mem, memSpec, signed, mca>>
    BY <1>1 DEF LockTimeout, DetectNewVersion, DetectInProgress, ResetAction, WriteStatus,
       worker, repository
  <2>2. /\ status'.rules = status.rules /\ status'.collected = status.collected
        /\ \/ status'.action = status.action
           \/ status.action \in CreateStates \cup {"Empty"}
    BY <1>s, <1>1 DEF LockTimeout, DetectNewVersion, DetectInProgress, ResetAction,
       WriteStatus, MSRStatus
  <2>. QED
    BY <2>1, <2>2 DEF RestInv, WorksUndisturbed, CollectedForThis, CollectedFor,
       MCASignedForIt, CreateStates
<1>2. CASE ReconcileCreate \/ ReconcileNewMSRSpec \/ ReconcileMSRRulesFulfillment
  <2>1. PICK a \in ActionStates \ {"Empty", "Deletion"} :
            /\ AcquireLock(a)
            /\ a = status.action \/ status.action = "Empty"
    BY <1>s, <1>2, StateNames
    DEF ReconcileCreate, ReconcileNewMSRSpec, ReconcileMSRRulesFulfillment, CreateStates
  <2>2. /\ status'.rules = status.rules /\ status'.collected = status.collected
        /\ status'.action = a
        /\ mem' = status' /\ memSpec' = spec /\ pc' = "handler"
        /\ UNCHANGED <<spec, signed, mca>>
    BY <1>s, <2>1 DEF AcquireLock, MSRStatus, repository
  <2>. QED
    BY <2>1, <2>2 DEF RestInv, WorksUndisturbed, CollectedForThis, CollectedFor,
       MCASignedForIt
<1>3. CASE GitCommit \/ InitSetFinalizer
  <2>1. /\ pc = "handler" /\ pc' = "release"
        /\ mem.action \in {"GitPushMSR", "InitSetFinalizer"} /\ mem'.rules = mem.rules
        /\ UNCHANGED <<spec, status, memSpec, signed, mca>>
    BY <1>s, <1>3
    DEF GitCommit, InitSetFinalizer, InHandler, PushMSR, ToRelease, cluster, repository,
        MSRStatus
  <2>2. mem.rules # "UpdateMCASpec"
    BY <2>1 DEF RestInv, CollectedForThis
  <2>. QED
    BY <1>g, <2>1, <2>2, RestCopyStep
<1>4. CASE GovernorQubmangoSignature
  <2>1. /\ pc = "handler" /\ pc' = "release"
        /\ mem.action = "GovernorQubmangoSignature" /\ mem'.rules = mem.rules
        /\ UNCHANGED <<spec, status, memSpec, mca>>
        /\ \A v \in Versions : signed[v] \subseteq signed'[v]
    BY <1>s, <1>4 DEF GovernorQubmangoSignature, InHandler, ToRelease, cluster, MSRStatus, TypeOK
  <2>2. mem.rules # "UpdateMCASpec"
    BY <2>1 DEF RestInv, CollectedForThis
  <2>3. MCASignedForIt'
    BY <2>1 DEF RestInv, MCASignedForIt, TypeOK, MCASpec
  <2>. QED
    BY <2>1, <2>2, <2>3, RestCopyStep
<1>5. CASE UpdateAfterGitPush \/ ReconcileUpdateAfterGitPush
  <2>1. /\ pc = "handler" /\ pc' = "save"
        /\ mem.action \in {"UpdateAfterGitPush", "NewMSRSpec"}
        /\ mem'.action = mem.action /\ mem'.rules = mem.rules
        /\ UNCHANGED <<spec, status, memSpec, signed, mca>>
    BY <1>s, <1>5
    DEF UpdateAfterGitPush, ReconcileUpdateAfterGitPush, InHandler, ToSaveStatus, cluster,
        repository, MSRStatus
  <2>2. mem.rules # "UpdateMCASpec"
    BY <2>1 DEF RestInv, CollectedForThis
  <2>. QED
    BY <1>g, <2>1, <2>2, RestCopyStep
<1>6. CASE ReconcileGitCommit \/ ReconcileNotifyGovernors
  <2>1. /\ pc = "handler" /\ pc' = "substate" /\ mem.action = "NewMSRSpec"
        /\ mem'.action = mem.action /\ mem'.rules = mem.rules
        /\ UNCHANGED <<spec, status, memSpec, signed, mca>>
    BY <1>s, <1>6
    DEF ReconcileGitCommit, ReconcileNotifyGovernors, InHandler, PushMSR, ToSubstate,
        cluster, repository, MSRStatus
  <2>2. mem.rules # "UpdateMCASpec"
    BY <2>1 DEF RestInv, CollectedForThis
  <2>. QED
    BY <1>g, <2>1, <2>2, RestCopyStep
<1>7. CASE CheckSignaturesNotFound \/ CheckSignaturesAbort \/ AbortRules
  <2>1. /\ pc = "handler" /\ pc' \in {"release", "substate"}
        /\ mem.action = "MSRRulesFulfillment"
        /\ pc' = "substate" => mem'.action = mem.action
        /\ mem'.rules # "UpdateMCASpec"
        /\ UNCHANGED <<spec, status, memSpec, signed, mca>>
    BY <1>s, <1>7
    DEF CheckSignaturesNotFound, CheckSignaturesAbort, AbortRules, InHandler, ToRelease,
        ToSubstate, cluster, repository, MSRStatus
  <2>. QED
    BY <1>g, <2>1, RestCopyStep
<1>8. CASE CheckSignaturesApprove
  <2>1. /\ pc = "handler" /\ pc' = "save" /\ mem.action = "MSRRulesFulfillment"
        /\ mem.rules = "Empty"
        /\ mem'.action = mem.action /\ mem'.rules = mem.rules
        /\ mem'.collected = signed[memSpec] \cap Governors
        /\ UNCHANGED <<spec, status, memSpec, signed, mca>>
    BY <1>s, <1>8
    DEF CheckSignaturesApprove, InHandler, ToSaveStatus, cluster, repository, MSRStatus
  <2>2. CollectedFor(mem, memSpec)'
    BY <2>1 DEF CollectedFor
  <2>. QED
    BY <1>g, <2>1, <2>2, RestCopyStep
<1>9. CASE UpdateMCASpec
  <2>1. /\ pc = "handler" /\ mem.action = "MSRRulesFulfillment"
        /\ mem.rules = "UpdateMCASpec"
        /\ mca' = mca \/ mca' = NewMCASpec
        /\ UNCHANGED <<spec, status, memSpec, signed>>
    BY <1>9 DEF UpdateMCASpec, InHandler, ToRelease, ToSubstate, cluster, repository
  <2>2. /\ pc' \in {"release", "substate"}
        /\ mem'.action = mem.action /\ mem'.collected = mem.collected
    BY <1>s, <1>9 DEF UpdateMCASpec, ToRelease, ToSubstate, MSRStatus
  <2>3. MCASignedForIt'
    BY <1>g, <2>1 DEF NewMCASpec, RestInv, CollectedForThis, CollectedFor, MCASignedForIt
  <2>. QED
    BY <2>1, <2>2, <2>3, RestCopyStep
<1>10. CASE CallFails
  <2>1. /\ pc \in {"handler", "save", "substate"} /\ pc' = "release"
        /\ mem'.action = mem.action /\ mem'.rules = mem.rules
        /\ mem'.collected = mem.collected
        /\ UNCHANGED <<spec, status, memSpec, signed, mca>>
    BY <1>s, <1>10 DEF CallFails, ToRelease, cluster, repository, MSRStatus
  <2>. QED
    BY <1>g, <2>1, RestCopyStep
<1>11. CASE SaveStatus
  <2>1. /\ pc = "save"
        /\ UNCHANGED <<spec, memSpec, signed, mca>>
    BY <1>11 DEF SaveStatus, ToRelease, ToSubstate, repository
  <2>2. CASE fresh
    <3>1. /\ status' = mem /\ mem'.collected = mem.collected
          /\ pc' \in {"release", "substate"}
          /\ pc' = "substate" => mem'.action = mem.action
      BY <1>s, <1>11, <2>2 DEF SaveStatus, ToRelease, ToSubstate, MSRStatus
    <3>2. mem'.rules = "UpdateMCASpec" =>
              /\ \/ mem.rules = "UpdateMCASpec"
                 \/ mem.action = "MSRRulesFulfillment"
              /\ mem'.action = mem.action
      <4>1. mem.action \in {"UpdateAfterGitPush", "NewMSRSpec", "MSRRulesFulfillment"}
        BY <2>1 DEF RestInv, WorksUndisturbed
      <4>2. mem.action # "MSRRulesFulfillment" => mem.rules # "UpdateMCASpec"
        BY DEF RestInv, CollectedForThis
      <4>. QED
        BY <1>s, <1>11, <2>2, <4>1, <4>2 DEF SaveStatus, ToRelease, ToSubstate, MSRStatus
    <3>3. mem.action # "Empty"
      BY <2>1 DEF RestInv, WorksUndisturbed
    <3>4. pc' = "substate" => mem'.action # "Empty"
      BY <3>1, <3>3
    <3>5. mem'.rules = "UpdateMCASpec" =>
              /\ \/ mem.rules = "UpdateMCASpec"
                 \/ pc = "save" /\ mem.action = "MSRRulesFulfillment"
              /\ mem'.action = mem.action /\ mem'.collected = mem.collected
      BY <2>1, <3>1, <3>2
    <3>. QED
      BY <2>1, <3>1, <3>4, <3>5, RestStore
  <2>3. CASE ~fresh
    <3>1. /\ pc' = "release" /\ status' = status
          /\ mem'.action = mem.action /\ mem'.rules = mem.rules
          /\ mem'.collected = mem.collected
      BY <1>s, <1>11, <2>3 DEF SaveStatus, ToRelease, MSRStatus
    <3>. QED
      BY <1>g, <2>1, <3>1, RestCopyStep
  <2>. QED
    BY <2>2, <2>3
<1>12. CASE SaveSubstate
  <2>1. /\ pc = "substate" /\ pc' = "release"
        /\ UNCHANGED <<spec, memSpec, signed, mca>>
        /\ mem'.rules = mem.rules /\ mem'.collected = mem.collected
        /\ mem'.action = mem.action \/ mem'.action = NextAction(mem)
    BY <1>s, <1>12 DEF SaveSubstate, ToRelease, repository, MSRStatus
  <2>2. mem.rules = "UpdateMCASpec" => mem'.action = mem.action
    BY <2>1 DEF NextAction, RestInv, CollectedForThis
  <2>3. CASE fresh
    <3>1. status' = mem
      BY <1>12, <2>3 DEF SaveSubstate
    <3>. QED
      BY <2>1, <2>2, <3>1, RestStore
  <2>4. CASE ~fresh
    <3>1. status' = status
      BY <1>12, <2>4 DEF SaveSubstate
    <3>. QED
      BY <1>g, <2>1, <2>2, <3>1, RestCopyStep
  <2>. QED
    BY <2>3, <2>4
<1>13. CASE ReleaseLock \/ Crash
  <2>1. /\ pc # "idle" /\ pc' = "idle" /\ mem' = NewStatus
        /\ UNCHANGED <<spec, signed, mca>>
        /\ status' = mem \/ status' = status
    BY <1>13 DEF ReleaseLock, Crash, Return, cluster, repository
  <2>2. mem'.rules # "UpdateMCASpec"
    BY <2>1, NewStatusFields
  <2>3. WorksUndisturbed'
    BY <2>1 DEF WorksUndisturbed
  <2>4. CollectedForThis'
    BY <2>1, <2>2 DEF RestInv, WorksUndisturbed, CollectedForThis, CollectedFor
  <2>. QED
    BY <1>g, <2>1, <2>3, <2>4 DEF RestInv
<1>14. CASE ReconcileDelete \/ ReconcileNotFound \/ OtherCommit \/ DeleteMSR
  <2>1. UNCHANGED <<spec, status, pc, mem, memSpec, signed, mca>>
    BY <1>14 DEF ReconcileDelete, ReconcileNotFound, OtherCommit, DeleteMSR, vars, cluster,
       worker, repository
  <2>. QED
    BY <2>1 DEF RestInv, WorksUndisturbed, CollectedForThis, CollectedFor, MCASignedForIt
<1>15. CASE ReconcileDeleteFails
  <2>1. /\ pc = "idle" /\ UNCHANGED <<spec, pc, mem, memSpec, signed, mca>>
        /\ status'.rules = status.rules /\ status'.collected = status.collected
        /\ status'.action = "Deletion"
    BY <1>s, <1>15 DEF ReconcileDeleteFails, worker, repository, MSRStatus
  <2>. QED
    BY <2>1 DEF RestInv, WorksUndisturbed, CollectedForThis, CollectedFor, MCASignedForIt
<1>16. CASE UpdateMSRSpec
  <2>1. /\ status.action = "Empty"
        /\ UNCHANGED <<status, pc, mem, memSpec, signed, mca>>
    BY <1>16 DEF UpdateMSRSpec, MayArrive, repository
  <2>2. pc = "idle" /\ status.rules # "UpdateMCASpec"
    BY <2>1 DEF RestInv, WorksUndisturbed, CollectedForThis
  <2>. QED
    BY <2>1, <2>2 DEF RestInv, WorksUndisturbed, CollectedForThis, CollectedFor,
       MCASignedForIt
<1>17. ASSUME NEW g \in Governors, NEW v \in Versions, GovernorSigns(g, v)
       PROVE  RestInv'
  <2>1. /\ UNCHANGED <<spec, status, pc, mem, memSpec, mca>>
        /\ \A w \in Versions : signed[w] \subseteq signed'[w]
    BY <1>17 DEF GovernorSigns, TypeOK, cluster, worker
  <2>2. MCASignedForIt'
    BY <2>1 DEF RestInv, MCASignedForIt, TypeOK, MCASpec
  <2>. QED
    BY <2>1, <2>2 DEF RestInv, WorksUndisturbed, CollectedForThis, CollectedFor, TypeOK
<1>. QED
  BY <1>0, <1>1, <1>2, <1>3, <1>4, <1>5, <1>6, <1>7, <1>8, <1>9, <1>10, <1>11, <1>12,
     <1>13, <1>14, <1>15, <1>16, <1>17 DEF Next, Reconcile, Handler, Environment

\* When versions wait until the request before them rests, the MCA carries a quorum that
\* signed the very version it approves, through faults and restarts at any step
\* (handleMSRRulesFulfillmentStateUpdateMCASpec).
THEOREM CarriesCorrect ==
    ASSUME Arrivals = "resting"
    PROVE  Spec => []MCACarriesItsQuorum
<1>1. TypeOK /\ TypeOK' /\ RestInv /\ [Next]_vars => RestInv'
  BY RestNext
<1>2. Spec => []RestInv
  BY <1>1, RestInit, TypeCorrect, PTL DEF Spec
<1>3. IInv /\ RestInv => MCACarriesItsQuorum
  BY DEF IInv, RestInv, MCASignedForIt, MCAFollowsAnApproval, MCACarriesItsQuorum
<1>. QED
  BY <1>2, <1>3, InvCorrect, PTL
-----------------------------------------------------------------------------
(***************************************************************************)
(* For the composition with what the MCA is used for                       *)
(***************************************************************************)

\* Signatures arrive one at a time, and none is ever taken away.
LEMMA SignedOneByOne ==
    ASSUME TypeOK, [Next]_vars
    PROVE  \/ signed' = signed
           \/ \E g \in Aliases, v \in Versions :
                  signed' = [signed EXCEPT ![v] = @ \cup {g}]
<1>0. CASE UNCHANGED vars
  BY <1>0 DEF vars, repository
<1>1. CASE LockTimeout \/ DetectNewVersion \/ DetectInProgress \/ ResetAction
            \/ ReconcileDeleteFails
  BY <1>1
  DEF LockTimeout, DetectNewVersion, DetectInProgress, ResetAction,
      ReconcileDeleteFails, WriteStatus, repository
<1>2. CASE ReconcileCreate \/ ReconcileNewMSRSpec \/ ReconcileMSRRulesFulfillment
  BY <1>2
  DEF ReconcileCreate, ReconcileNewMSRSpec, ReconcileMSRRulesFulfillment, AcquireLock,
      repository
<1>3. CASE GovernorQubmangoSignature
  <2>1. memSpec \in Versions /\ Qubmango \in Aliases
    BY DEF TypeOK, Aliases
  <2>. QED
    BY <1>3, <2>1 DEF GovernorQubmangoSignature
<1>4. CASE Handler /\ ~GovernorQubmangoSignature
  BY <1>4
  DEF Handler, GitCommit, UpdateAfterGitPush, InitSetFinalizer, ReconcileGitCommit,
      ReconcileUpdateAfterGitPush, ReconcileNotifyGovernors, CheckSignaturesNotFound,
      CheckSignaturesAbort, CheckSignaturesApprove, UpdateMCASpec, AbortRules, PushMSR,
      repository
<1>5. CASE SaveStatus \/ SaveSubstate \/ ReleaseLock
  BY <1>5 DEF SaveStatus, SaveSubstate, ReleaseLock, repository
<1>6. CASE ReconcileDelete \/ ReconcileNotFound \/ CallFails \/ Crash
  BY <1>6 DEF ReconcileDelete, ReconcileNotFound, CallFails, Crash, vars, repository
<1>7. CASE UpdateMSRSpec \/ OtherCommit \/ DeleteMSR
  BY <1>7 DEF UpdateMSRSpec, OtherCommit, DeleteMSR, repository
<1>8. CASE \E g \in Governors, v \in Versions : GovernorSigns(g, v)
  BY <1>8 DEF GovernorSigns, Aliases
<1>. QED
  BY <1>0, <1>1, <1>2, <1>3, <1>4, <1>5, <1>6, <1>7, <1>8
  DEF Next, Reconcile, Environment

\* A step that changes the MCA writes the version of the worker's copy, which is higher.
LEMMA MCAMovesOn ==
    ASSUME IInv, UpdateMCASpec, mca' # mca
    PROVE  /\ mca'.version = memSpec
           /\ mca'.version \in Versions /\ mca'.version <= spec
           /\ mca'.version > mca.version
           /\ UNCHANGED <<spec, signed>>
<1>1. NewMCASpec # mca /\ MCAUpdateAllowed /\ mca' = NewMCASpec
  BY DEF UpdateMCASpec
<1>2. memSpec \in Versions /\ memSpec <= spec
  BY DEF IInv, TypeOK, CopyIsBehind
<1>. QED
  BY <1>1, <1>2 DEF MCAUpdateAllowed, NewMCASpec, UpdateMCASpec, cluster, repository
=============================================================================
