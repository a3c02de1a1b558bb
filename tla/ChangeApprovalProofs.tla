------------------------ MODULE ChangeApprovalProofs ------------------------
(***************************************************************************)
(* What ChangeApproval guarantees for every set of resources, number of    *)
(* versions and of mishaps: proofs checked by TLAPS.                       *)
(***************************************************************************)
EXTENDS ChangeApproval, SequenceTheorems, FiniteSetTheorems, TLAPS

-----------------------------------------------------------------------------
(***************************************************************************)
(* Approval histories                                                      *)
(***************************************************************************)

\* The versions of a history are versions, and a record put at its end loses none.
LEMMA RangeOfHistory ==
    ASSUME NEW h \in Seq(Versions)
    PROVE  Range(h) \in SUBSET Versions
<1>. SUFFICES ASSUME NEW i \in DOMAIN h PROVE h[i] \in Versions
  BY DEF Range
<1>. QED
  BY ElementOfSeq, LenProperties

LEMMA AppendRecord ==
    ASSUME NEW h \in Seq(Versions), NEW v \in Versions
    PROVE  /\ Append(h, v) \in Seq(Versions)
           /\ Range(h) \subseteq Range(Append(h, v))
<1>1. /\ Append(h, v) \in Seq(Versions)
      /\ DOMAIN h \subseteq DOMAIN Append(h, v)
      /\ \A i \in DOMAIN h : Append(h, v)[i] = h[i]
  OBVIOUS
<1>. QED
  BY <1>1 DEF Range

-----------------------------------------------------------------------------
(***************************************************************************)
(* Types                                                                   *)
(***************************************************************************)

LEMMA StatusFields ==
    ASSUME NEW st \in MCAStatus
    PROVE  /\ st.action \in ActionStates
           /\ st.reconcile \in ReconcileStates
           /\ st.history \in Seq(Versions)
  BY DEF MCAStatus

\* What the writers of a status set in it; only SetHistory touches the history.
LEMMA SetAction ==
    ASSUME NEW st \in MCAStatus, NEW a \in ActionStates, NEW b \in BOOLEAN
    PROVE  /\ [st EXCEPT !.action = a, !.progressing = b] \in MCAStatus
           /\ [st EXCEPT !.action = a] \in MCAStatus
           /\ [st EXCEPT !.progressing = b] \in MCAStatus
           /\ [st EXCEPT !.action = a, !.progressing = b].history = st.history
           /\ [st EXCEPT !.action = a].history = st.history
           /\ [st EXCEPT !.progressing = b].history = st.history
  BY DEF MCAStatus

LEMMA SetSubstate ==
    ASSUME NEW st \in MCAStatus, NEW s \in ReconcileStates
    PROVE  /\ [st EXCEPT !.reconcile = s] \in MCAStatus
           /\ [st EXCEPT !.reconcile = s].history = st.history
  BY DEF MCAStatus

LEMMA SetHistory ==
    ASSUME NEW st \in MCAStatus, NEW h \in Seq(Versions)
    PROVE  /\ [st EXCEPT !.history = h] \in MCAStatus
           /\ [st EXCEPT !.history = h].history = h
  BY DEF MCAStatus

LEMMA NewStatusType == NewStatus \in MCAStatus
  BY DEF NewStatus, MCAStatus, ActionStates, ReconcileStates

\* The names of the states, as the type sets hold them.
LEMMA StateNames ==
    /\ CreateStates \subseteq ActionStates
    /\ {"GitPushMCA", "PushSummaryFiles", "UpdateAfterGitPush", "UpdateArgoCD",
        "InitSetFinalizer", "Empty", "NewMCASpec"} \subseteq ActionStates
    /\ {"Empty", "PushSummaryFiles", "UpdateAfterGitPush", "UpdateArgoCD",
        "NotifyGovernors"} \subseteq ReconcileStates
  BY DEF ActionStates, CreateStates, ReconcileStates

LEMMA VersionTypes ==
    /\ 0 \in Versions /\ Versions \subseteq Commits /\ Versions \subseteq Nat
    /\ Unapproved \in Commits /\ Commits \subseteq Int
    /\ \A c \in Commits : c >= -1
  BY BoundAssumption DEF BoundAssumption, Versions, Commits, Unapproved

\* The types of the worker's variables, and what the worker itself never changes.
WorkerTypes ==
    /\ pc \in {"idle", "handler", "save", "substate", "release"}
    /\ mem \in MCAStatus
    /\ memSpec \in Versions
    /\ fresh \in BOOLEAN

\* The step leaves the worker's copy as stale, and as long in its history, as it was.
KeepsCopy == fresh' = fresh /\ memSpec' = memSpec /\ mem'.history = mem.history

LEMMA ReleaseTypes ==
    ASSUME TypeOK, NEW st \in MCAStatus, NEW a \in ActionStates, ToRelease(st, a)
    PROVE  /\ WorkerTypes' /\ pc' = "release"
           /\ fresh' = fresh /\ memSpec' = memSpec /\ mem'.history = st.history
<1>1. fresh' \in BOOLEAN /\ fresh' = fresh
  BY Zenon DEF TypeOK, ToRelease
<1>. QED
  BY <1>1, SetAction DEF TypeOK, ToRelease, WorkerTypes

LEMMA SubstateTypes ==
    ASSUME TypeOK, NEW st \in MCAStatus, ToSubstate(st)
    PROVE  /\ WorkerTypes' /\ pc' = "substate"
           /\ fresh' = fresh /\ memSpec' = memSpec /\ mem' = st
<1>1. fresh' \in BOOLEAN /\ fresh' = fresh
  BY Zenon DEF TypeOK, ToSubstate
<1>. QED
  BY <1>1 DEF TypeOK, ToSubstate, WorkerTypes

LEMMA SucceedTypes ==
    ASSUME TypeOK, NEW a \in ActionStates, NEW s \in ReconcileStates, Succeed(a, s)
    PROVE  WorkerTypes' /\ pc' # "idle" /\ KeepsCopy
<1>1. CASE mem.action = "NewMCASpec"
  <2>. DEFINE st == [mem EXCEPT !.reconcile = s]
  <2>1. st \in MCAStatus /\ st.history = mem.history
    BY SetSubstate DEF TypeOK
  <2>2. ToSubstate(st)
    BY <1>1 DEF Succeed
  <2>. HIDE DEF st
  <2>. QED
    BY <2>1, <2>2, SubstateTypes DEF KeepsCopy
<1>2. CASE mem.action # "NewMCASpec"
  <2>1. mem \in MCAStatus /\ ToRelease(mem, a)
    BY <1>2 DEF Succeed, TypeOK
  <2>. QED
    BY <2>1, ReleaseTypes DEF KeepsCopy
<1>. QED
  BY <1>1, <1>2

LEMMA ReturnTypes == Return => WorkerTypes' /\ pc' = "idle" /\ memSpec' = 0
<1>. SUFFICES ASSUME Return PROVE WorkerTypes' /\ pc' = "idle" /\ memSpec' = 0
  OBVIOUS
<1>1. fresh' \in BOOLEAN
  BY Zenon DEF Return
<1>. QED
  BY <1>1, VersionTypes, NewStatusType DEF Return, WorkerTypes

-----------------------------------------------------------------------------
(***************************************************************************)
(* Steps of the worker                                                     *)
(***************************************************************************)

\* All that a step of the worker may do to what the others see: it records, it
\* points the Application at the version of its copy, and its copy keeps up with
\* what is stored.
WorkerStep ==
    /\ TypeOK'
    /\ UNCHANGED <<spec, argo, webhook>>
    /\ target' \in {target, memSpec}
    /\ memSpec' \in {memSpec, spec, 0}
    /\ Range(status.history) \subseteq Range(status'.history)
    /\ (pc' # "idle" /\ fresh') => Range(status'.history) \subseteq Range(mem'.history)

\* A call of a handler: the stored status stays.
LEMMA CallStep ==
    ASSUME IInv, pc # "idle", WorkerTypes', UNCHANGED <<Outside, status>>,
           fresh' = fresh, memSpec' = memSpec,
           Range(mem.history) \subseteq Range(mem'.history),
           finalizer' \in BOOLEAN, target' \in {target, memSpec},
           pushed' \in SUBSET Versions, summarised' \in SUBSET Versions,
           told' \in SUBSET Versions, mishaps' \in 0 .. MaxMishaps
    PROVE  WorkerStep
<1>1. UNCHANGED <<calm, spec, life, status, operation, remaining, applied, governed,
                  seenMCA>>
  BY DEF Outside, argo, webhook
<1>2. calm' \in BOOLEAN /\ governed' \in BOOLEAN
  BY <1>1, Zenon DEF IInv, TypeOK
<1>3. target' \in Commits
  BY VersionTypes DEF IInv, TypeOK
<1>4. TypeOK'
  BY <1>1, <1>2, <1>3 DEF IInv, TypeOK, WorkerTypes
<1>5. (pc' # "idle" /\ fresh') => Range(status'.history) \subseteq Range(mem'.history)
  BY <1>1 DEF IInv, SeenIsRecorded
<1>. QED
  BY <1>1, <1>4, <1>5 DEF WorkerStep, argo, webhook

\* The write that ends a Reconcile, or the one before: the copy is stored if fresh.
LEMMA WriteStep ==
    ASSUME IInv, pc # "idle", WorkerTypes',
           UNCHANGED <<Outside, finalizer, repository, told, target, mishaps>>,
           status' = IF fresh THEN mem ELSE status,
           \/ pc' = "idle" /\ memSpec' = 0
           \/ fresh' = fresh /\ memSpec' = memSpec /\ mem'.history = mem.history
    PROVE  WorkerStep
<1>1. UNCHANGED <<calm, spec, life, operation, remaining, applied, governed,
                  seenMCA, pushed, summarised>>
  BY DEF Outside, argo, webhook, repository
<1>2. calm' \in BOOLEAN /\ governed' \in BOOLEAN /\ finalizer' \in BOOLEAN
  BY <1>1, Zenon DEF IInv, TypeOK
<1>3. status' \in MCAStatus /\ Range(status.history) \subseteq Range(status'.history)
  BY DEF IInv, TypeOK, SeenIsRecorded
<1>4. TypeOK'
  BY <1>1, <1>2, <1>3 DEF IInv, TypeOK, WorkerTypes
<1>5. (pc' # "idle" /\ fresh') => Range(status'.history) \subseteq Range(mem'.history)
  BY DEF IInv, SeenIsRecorded
<1>. QED
  BY <1>1, <1>3, <1>4, <1>5 DEF WorkerStep, argo, webhook

\* A status written outside a handler holds the same history.
LEMMA StatusStep ==
    ASSUME IInv, NEW st \in MCAStatus, st.history = status.history, WriteStatus(st)
    PROVE  WorkerStep
<1>1. /\ UNCHANGED <<calm, spec, life, operation, remaining, applied, governed,
                     seenMCA, pushed, summarised, pc, mem, memSpec, fresh, finalizer,
                     told, target, mishaps>>
      /\ pc = "idle" /\ status' = st
  BY DEF WriteStatus, Outside, argo, webhook, repository, worker
<1>2. /\ calm' \in BOOLEAN /\ governed' \in BOOLEAN /\ finalizer' \in BOOLEAN
      /\ fresh' \in BOOLEAN
  BY <1>1, Zenon DEF IInv, TypeOK
<1>3. TypeOK'
  BY <1>1, <1>2 DEF IInv, TypeOK
<1>. QED
  BY <1>1, <1>3 DEF WorkerStep, argo, webhook

LEMMA AcquireStep ==
    ASSUME IInv, NEW a \in ActionStates, AcquireLock(a)
    PROVE  WorkerStep
<1>. DEFINE st == [status EXCEPT !.action = a, !.progressing = TRUE]
<1>1. st \in MCAStatus /\ st.history = status.history
  BY SetAction DEF IInv, TypeOK
<1>2. /\ UNCHANGED <<calm, spec, life, operation, remaining, applied, governed,
                     seenMCA, pushed, summarised, finalizer, told, target, mishaps>>
      /\ status' = st /\ pc' = "handler" /\ mem' = st /\ memSpec' = spec
  BY DEF AcquireLock, Outside, argo, webhook, repository
<1>3. /\ calm' \in BOOLEAN /\ governed' \in BOOLEAN /\ finalizer' \in BOOLEAN
      /\ fresh' \in BOOLEAN
  BY <1>2, Zenon DEF IInv, TypeOK, AcquireLock
<1>. HIDE DEF st
<1>4. TypeOK'
  BY <1>1, <1>2, <1>3 DEF IInv, TypeOK
<1>. QED
  BY <1>1, <1>2, <1>4 DEF WorkerStep, argo, webhook

Working ==
    \/ LockTimeout \/ ReconcileCreate
    \/ DetectNewVersion \/ ResetAction \/ ReconcileNewMCASpec
    \/ GitCommit \/ PushSummaryFiles \/ UpdateAfterGitPush \/ UpdateArgoCD
    \/ InitSetFinalizer \/ NotifyGovernors
    \/ SaveStatus \/ SaveSubstate \/ ReleaseLock
    \/ CallFails \/ Crash

LEMMA WorkingStep ==
    ASSUME IInv, Working
    PROVE  WorkerStep
<1>. USE StateNames
<1>0. status \in MCAStatus /\ mem \in MCAStatus /\ memSpec \in Versions
  BY DEF IInv, TypeOK
<1>1. CASE LockTimeout
  <2>. DEFINE st == [status EXCEPT !.progressing = FALSE]
  <2>1. st \in MCAStatus /\ st.history = status.history
    BY <1>0, SetAction, StatusFields
  <2>2. WriteStatus(st)
    BY <1>1 DEF LockTimeout
  <2>. QED
    BY <2>1, <2>2, StatusStep
<1>2. CASE ReconcileCreate
  <2>1. PICK a \in ActionStates : AcquireLock(a)
    BY <1>2 DEF ReconcileCreate
  <2>. QED
    BY <2>1, AcquireStep
<1>3. CASE DetectNewVersion
  <2>. DEFINE st == [status EXCEPT !.action = "NewMCASpec"]
  <2>1. st \in MCAStatus /\ st.history = status.history
    BY <1>0, SetAction
  <2>2. WriteStatus(st)
    BY <1>3 DEF DetectNewVersion
  <2>. QED
    BY <2>1, <2>2, StatusStep
<1>4. CASE ResetAction
  <2>. DEFINE st == [status EXCEPT !.action = "Empty"]
  <2>1. st \in MCAStatus /\ st.history = status.history
    BY <1>0, SetAction
  <2>2. WriteStatus(st)
    BY <1>4 DEF ResetAction
  <2>. QED
    BY <2>1, <2>2, StatusStep
<1>5. CASE ReconcileNewMCASpec
  BY <1>5, AcquireStep DEF ReconcileNewMCASpec
<1>6. CASE GitCommit
  <2>1. WorkerTypes' /\ pc' # "idle" /\ KeepsCopy
    BY <1>6, SucceedTypes DEF GitCommit, IInv
  <2>2. /\ pc # "idle"
        /\ UNCHANGED <<Outside, status, finalizer, summarised, told, target, mishaps>>
        /\ pushed' = pushed \cup {memSpec}
    BY <1>6 DEF GitCommit, InHandler
  <2>3. finalizer' \in BOOLEAN
    BY <2>2, Zenon DEF IInv, TypeOK
  <2>. QED
    BY <1>0, <2>1, <2>2, <2>3, CallStep DEF KeepsCopy, IInv, TypeOK
<1>7. CASE PushSummaryFiles
  <2>1. WorkerTypes' /\ pc' # "idle" /\ KeepsCopy
    BY <1>7, SucceedTypes DEF PushSummaryFiles, IInv
  <2>2. /\ pc # "idle"
        /\ UNCHANGED <<Outside, status, finalizer, pushed, told, target, mishaps>>
        /\ summarised' = summarised \cup {memSpec}
    BY <1>7 DEF PushSummaryFiles, InHandler
  <2>3. finalizer' \in BOOLEAN
    BY <2>2, Zenon DEF IInv, TypeOK
  <2>. QED
    BY <1>0, <2>1, <2>2, <2>3, CallStep DEF KeepsCopy, IInv, TypeOK
<1>8. CASE UpdateAfterGitPush
  <2>. DEFINE h == Append(mem.history, memSpec)
  <2>1. h \in Seq(Versions) /\ Range(mem.history) \subseteq Range(h)
    BY <1>0, StatusFields, AppendRecord
  <2>2. /\ pc # "idle" /\ mem' = [mem EXCEPT !.history = h] /\ pc' = "save"
        /\ UNCHANGED <<Outside, status, finalizer, memSpec, fresh, repository, told,
                       target, mishaps>>
    BY <1>8 DEF UpdateAfterGitPush, InHandler, NewRecord
  <2>. HIDE DEF h
  <2>3. mem' \in MCAStatus /\ mem'.history = h
    BY <1>0, <2>1, <2>2, SetHistory
  <2>4. finalizer' \in BOOLEAN /\ fresh' \in BOOLEAN
    BY <2>2, Zenon DEF IInv, TypeOK
  <2>5. WorkerTypes'
    BY <1>0, <2>2, <2>3, <2>4 DEF WorkerTypes
  <2>. QED
    BY <2>1, <2>2, <2>3, <2>4, <2>5, CallStep DEF repository, IInv, TypeOK
<1>9. CASE UpdateArgoCD
  <2>1. WorkerTypes' /\ pc' # "idle" /\ KeepsCopy
    BY <1>9, SucceedTypes DEF UpdateArgoCD, IInv
  <2>2. /\ pc # "idle" /\ target' = memSpec
        /\ UNCHANGED <<Outside, status, finalizer, repository, told, mishaps>>
    BY <1>9 DEF UpdateArgoCD, InHandler
  <2>3. finalizer' \in BOOLEAN
    BY <2>2, Zenon DEF IInv, TypeOK
  <2>. QED
    BY <2>1, <2>2, <2>3, CallStep DEF repository, KeepsCopy, IInv, TypeOK
<1>10. CASE InitSetFinalizer
  <2>1. PICK a \in ActionStates : ToRelease(mem, a)
    BY <1>0, <1>10, StatusFields DEF InitSetFinalizer
  <2>2. /\ WorkerTypes' /\ fresh' = fresh /\ memSpec' = memSpec
        /\ mem'.history = mem.history
    BY <1>0, <2>1, ReleaseTypes DEF IInv
  <2>3. /\ pc # "idle"
        /\ UNCHANGED <<Outside, status, repository, told, target, mishaps>>
    BY <1>10 DEF InitSetFinalizer, InHandler
  <2>4. finalizer' \in BOOLEAN
    BY <1>10, Zenon DEF InitSetFinalizer, IInv, TypeOK
  <2>. QED
    BY <2>2, <2>3, <2>4, CallStep DEF repository, IInv, TypeOK
<1>11. CASE NotifyGovernors
  <2>1. WorkerTypes' /\ pc' # "idle" /\ KeepsCopy
    BY <1>11, SucceedTypes DEF NotifyGovernors, IInv
  <2>2. /\ pc # "idle" /\ told' = told \cup {memSpec}
        /\ UNCHANGED <<Outside, status, finalizer, repository, target, mishaps>>
    BY <1>11 DEF NotifyGovernors, InHandler
  <2>3. finalizer' \in BOOLEAN
    BY <2>2, Zenon DEF IInv, TypeOK
  <2>. QED
    BY <1>0, <2>1, <2>2, <2>3, CallStep DEF repository, KeepsCopy, IInv, TypeOK
<1>12. CASE SaveStatus
  <2>1. /\ pc # "idle" /\ status' = IF fresh THEN mem ELSE status
        /\ UNCHANGED <<Outside, finalizer, repository, told, target, mishaps>>
    BY <1>12 DEF SaveStatus
  <2>2. CASE fresh
    <3>1. WorkerTypes' /\ KeepsCopy
      BY <1>12, <2>2, SucceedTypes DEF SaveStatus, IInv
    <3>. QED
      BY <2>1, <3>1, WriteStep DEF KeepsCopy
  <2>3. CASE ~fresh
    <3>1. ToRelease(mem, mem.action)
      BY <1>12, <2>3 DEF SaveStatus
    <3>2. /\ WorkerTypes' /\ fresh' = fresh /\ memSpec' = memSpec
          /\ mem'.history = mem.history
      BY <1>0, <3>1, ReleaseTypes, StatusFields DEF IInv
    <3>. QED
      BY <2>1, <3>2, WriteStep
  <2>. QED
    BY <2>2, <2>3
<1>13. CASE SaveSubstate
  <2>1. /\ pc # "idle" /\ status' = IF fresh THEN mem ELSE status
        /\ UNCHANGED <<Outside, finalizer, repository, told, target, mishaps>>
    BY <1>13 DEF SaveSubstate
  <2>2. PICK a \in ActionStates : ToRelease(mem, a)
    BY <1>13 DEF SaveSubstate
  <2>3. /\ WorkerTypes' /\ fresh' = fresh /\ memSpec' = memSpec
        /\ mem'.history = mem.history
    BY <1>0, <2>2, ReleaseTypes DEF IInv
  <2>. QED
    BY <2>1, <2>3, WriteStep
<1>14. CASE ReleaseLock
  <2>1. /\ pc # "idle" /\ status' = IF fresh THEN mem ELSE status
        /\ UNCHANGED <<Outside, finalizer, repository, told, target, mishaps>>
        /\ Return
    BY <1>14 DEF ReleaseLock
  <2>. QED
    BY <2>1, ReturnTypes, WriteStep
<1>15. CASE CallFails
  <2>1. ToRelease(mem, mem.action)
    BY <1>15 DEF CallFails
  <2>2. /\ WorkerTypes' /\ fresh' = fresh /\ memSpec' = memSpec
        /\ mem'.history = mem.history
    BY <1>0, <2>1, ReleaseTypes, StatusFields DEF IInv
  <2>3. /\ pc # "idle" /\ mishaps < MaxMishaps /\ mishaps' = mishaps + 1
        /\ UNCHANGED <<Outside, status, finalizer, repository, told, target>>
    BY <1>15 DEF CallFails, Mishap
  <2>4. finalizer' \in BOOLEAN
    BY <2>3, Zenon DEF IInv, TypeOK
  <2>5. mishaps' \in 0 .. MaxMishaps
    BY <2>3, BoundAssumption DEF BoundAssumption, IInv, TypeOK
  <2>. QED
    BY <2>2, <2>3, <2>4, <2>5, CallStep DEF repository, IInv, TypeOK
<1>16. CASE Crash
  <2>1. /\ pc # "idle" /\ mishaps < MaxMishaps /\ mishaps' = mishaps + 1
        /\ UNCHANGED <<Outside, status, finalizer, repository, told, target>>
        /\ Return
    BY <1>16 DEF Crash, Mishap
  <2>2. WorkerTypes' /\ pc' = "idle" /\ memSpec' = 0
    BY <2>1, ReturnTypes
  <2>3. UNCHANGED <<calm, spec, life, operation, remaining, applied, governed,
                    seenMCA, pushed, summarised>>
    BY <2>1 DEF Outside, argo, webhook, repository
  <2>4. calm' \in BOOLEAN /\ governed' \in BOOLEAN /\ finalizer' \in BOOLEAN
    BY <2>1, <2>3, Zenon DEF IInv, TypeOK
  <2>5. mishaps' \in 0 .. MaxMishaps
    BY <2>1, BoundAssumption DEF BoundAssumption, IInv, TypeOK
  <2>6. TypeOK'
    BY <2>1, <2>2, <2>3, <2>4, <2>5 DEF IInv, TypeOK, WorkerTypes
  <2>. QED
    BY <2>1, <2>2, <2>3, <2>6 DEF WorkerStep, argo, webhook
<1>. QED
  BY <1>1, <1>2, <1>3, <1>4, <1>5, <1>6, <1>7, <1>8, <1>9, <1>10, <1>11, <1>12,
     <1>13, <1>14, <1>15, <1>16 DEF Working

-----------------------------------------------------------------------------
(***************************************************************************)
(* The inductive invariant                                                 *)
(***************************************************************************)

LEMMA InvInit == Init => IInv
<1>. SUFFICES ASSUME Init PROVE IInv
  OBVIOUS
<1>. USE NewStatusType, VersionTypes
<1>1. /\ calm \in BOOLEAN /\ finalizer \in BOOLEAN /\ fresh \in BOOLEAN
      /\ governed \in BOOLEAN
  BY Zenon DEF Init
<1>2. Range(status.history) = {}
  BY DEF Init, NewStatus, Range
<1>3. /\ seenMCA \in [exists : BOOLEAN, spec : Versions, recorded : SUBSET Versions]
      /\ seenMCA.spec = 0 /\ seenMCA.recorded = {}
  BY <1>2 DEF Init, CachedMCA
<1>4. TypeOK
  BY <1>1, <1>3, BoundAssumption DEF BoundAssumption, Init, TypeOK
<1>5. KnownIsApproved /\ AppliedIsKnown /\ SeenIsRecorded
  BY <1>3 DEF Init, KnownIsApproved, AppliedIsKnown, SeenIsRecorded, Unapproved
<1>. QED
  BY <1>4, <1>5 DEF IInv

\* The worker: what it writes to the Application is a version it has read.
LEMMA InvWorking == IInv /\ Working => IInv'
<1>. SUFFICES ASSUME IInv, Working PROVE IInv'
  OBVIOUS
<1>1. WorkerStep
  BY WorkingStep
<1>2. UNCHANGED <<spec, operation, remaining, applied, governed, seenMCA>>
  BY <1>1 DEF WorkerStep, argo, webhook
<1>3. spec \in Nat
  BY VersionTypes DEF IInv, TypeOK
<1>4. KnownIsApproved'
  BY <1>1, <1>2, <1>3 DEF IInv, KnownIsApproved, WorkerStep
<1>5. AppliedIsKnown'
  BY <1>2 DEF IInv, AppliedIsKnown
<1>6. SeenIsRecorded'
  BY <1>1, <1>2 DEF IInv, SeenIsRecorded, WorkerStep
<1>. QED
  BY <1>1, <1>4, <1>5, <1>6 DEF IInv, WorkerStep

\* What no step outside the worker changes, but for the freshness of its copy.
Elsewhere ==
    /\ UNCHANGED <<calm, status, pc, mem, memSpec, pushed, summarised, told, target>>
    /\ fresh' = fresh \/ fresh' = FALSE

LEMMA ElsewhereTypes ==
    ASSUME IInv, Elsewhere
    PROVE  calm' \in BOOLEAN /\ fresh' \in BOOLEAN /\ (fresh' => fresh)
<1>1. calm \in BOOLEAN /\ fresh \in BOOLEAN
  BY DEF IInv, TypeOK
<1>2. calm' = calm /\ (fresh' = fresh \/ fresh' = FALSE)
  BY DEF Elsewhere
<1>3. calm' \in BOOLEAN
  BY <1>1, <1>2, Zenon
<1>4. fresh' \in BOOLEAN /\ (fresh' => fresh)
  <2>1. CASE fresh' = fresh
    BY <1>1, <2>1, Zenon
  <2>2. CASE fresh' = FALSE
    BY <2>2, Zenon
  <2>. QED
    BY <1>2, <2>1, <2>2
<1>. QED
  BY <1>3, <1>4

LEMMA InvDelete == IInv /\ (ReconcileDelete \/ DeleteMCA) => IInv'
<1>. SUFFICES ASSUME IInv, ReconcileDelete \/ DeleteMCA PROVE IInv'
  OBVIOUS
<1>1. Elsewhere
  BY Zenon DEF ReconcileDelete, DeleteMCA, worker, repository, Elsewhere, IInv, TypeOK
<1>2. /\ UNCHANGED <<spec, operation, remaining, applied, governed, seenMCA>>
      /\ life' \in {"deleting", "gone"}
  BY DEF ReconcileDelete, DeleteMCA, argo, webhook
<1>3. finalizer' \in BOOLEAN /\ governed' \in BOOLEAN
  BY <1>2, Zenon DEF ReconcileDelete, DeleteMCA, IInv, TypeOK
<1>4. mishaps' \in 0 .. MaxMishaps
  BY BoundAssumption
  DEF BoundAssumption, ReconcileDelete, DeleteMCA, Mishap, IInv, TypeOK
<1>5. TypeOK'
  BY <1>1, <1>2, <1>3, <1>4, ElsewhereTypes DEF Elsewhere, IInv, TypeOK
<1>6. (KnownIsApproved /\ AppliedIsKnown)'
  BY <1>1, <1>2 DEF Elsewhere, IInv, KnownIsApproved, AppliedIsKnown
<1>7. SeenIsRecorded'
  BY <1>1, <1>2, ElsewhereTypes DEF Elsewhere, IInv, SeenIsRecorded
<1>. QED
  BY <1>5, <1>6, <1>7 DEF IInv

LEMMA InvStartSync ==
    ASSUME IInv, NEW c \in Commits, c <= spec, StartSync(c),
           mishaps' \in 0 .. MaxMishaps
    PROVE  IInv'
<1>1. Elsewhere
  BY DEF StartSync, worker, cluster, repository, Elsewhere
<1>2. /\ UNCHANGED <<spec, finalizer, life, applied, governed, seenMCA>>
      /\ operation' = c /\ remaining' = Resources
  BY DEF StartSync, cluster, webhook
<1>3. finalizer' \in BOOLEAN /\ governed' \in BOOLEAN
  BY <1>2, Zenon DEF IInv, TypeOK
<1>4. TypeOK'
  BY <1>1, <1>2, <1>3, ElsewhereTypes DEF Elsewhere, IInv, TypeOK
<1>5. (KnownIsApproved /\ AppliedIsKnown)'
  BY <1>1, <1>2 DEF Elsewhere, IInv, KnownIsApproved, AppliedIsKnown
<1>6. SeenIsRecorded'
  BY <1>1, <1>2, ElsewhereTypes DEF Elsewhere, IInv, SeenIsRecorded
<1>. QED
  BY <1>4, <1>5, <1>6 DEF IInv

\* What the webhook lets in is known to it, and no later than what it knows.
LEMMA AdmittedIsKnown ==
    ASSUME IInv, Admitted(operation)
    PROVE  /\ operation <= seenMCA.spec
           /\ governed => /\ operation = seenMCA.spec
                          /\ operation \in Range(status.history)
<1>1. /\ seenMCA.spec \in Nat /\ spec \in Nat
      /\ operation \in Int /\ operation <= spec
  BY VersionTypes DEF IInv, TypeOK, KnownIsApproved
<1>2. CASE governed
  BY <1>1, <1>2 DEF Admitted, IInv, SeenIsRecorded
<1>3. CASE ~governed
  BY <1>1, <1>3 DEF IInv, KnownIsApproved
<1>. QED
  BY <1>2, <1>3

LEMMA InvApplyResource ==
    ASSUME IInv, NEW r \in Resources, ApplyResource(r)
    PROVE  IInv'
<1>1. Elsewhere
  BY DEF ApplyResource, worker, cluster, repository, Elsewhere
<1>2. /\ UNCHANGED <<spec, finalizer, life, governed, seenMCA, mishaps>>
      /\ operation' \in {operation, Unapproved} /\ remaining' \subseteq Resources
  BY DEF ApplyResource, cluster, webhook, IInv, TypeOK
<1>3. finalizer' \in BOOLEAN /\ governed' \in BOOLEAN
  BY <1>2, Zenon DEF IInv, TypeOK
<1>4. /\ applied' \in [Resources -> Commits]
      /\ \A q \in Resources : applied'[q] <= seenMCA.spec
  BY AdmittedIsKnown DEF ApplyResource, IInv, TypeOK, AppliedIsKnown
<1>5. TypeOK'
  BY <1>1, <1>2, <1>3, <1>4, VersionTypes, ElsewhereTypes
  DEF Elsewhere, IInv, TypeOK
<1>6. spec \in Nat
  BY VersionTypes DEF IInv, TypeOK
<1>7. (KnownIsApproved /\ AppliedIsKnown)'
  BY <1>1, <1>2, <1>4, <1>6
  DEF Elsewhere, IInv, KnownIsApproved, AppliedIsKnown, Unapproved
<1>8. SeenIsRecorded'
  BY <1>1, <1>2, ElsewhereTypes DEF Elsewhere, IInv, SeenIsRecorded
<1>. QED
  BY <1>5, <1>7, <1>8 DEF IInv

LEMMA InvCacheSync == IInv /\ CacheSync => IInv'
<1>. SUFFICES ASSUME IInv, CacheSync PROVE IInv'
  OBVIOUS
<1>1. Elsewhere
  BY DEF CacheSync, worker, cluster, repository, Elsewhere
<1>2. /\ UNCHANGED <<spec, finalizer, life, operation, remaining, applied, governed,
                     mishaps>>
      /\ seenMCA' = CachedMCA
  BY DEF CacheSync, cluster, argo
<1>3. finalizer' \in BOOLEAN /\ governed' \in BOOLEAN
  BY <1>2, Zenon DEF IInv, TypeOK
<1>4. Range(status.history) \in SUBSET Versions
  BY RangeOfHistory, StatusFields DEF IInv, TypeOK
<1>5. (life # "gone") \in BOOLEAN
  OBVIOUS
<1>6. /\ seenMCA' \in [exists : BOOLEAN, spec : Versions, recorded : SUBSET Versions]
      /\ seenMCA'.spec = spec /\ seenMCA'.recorded = Range(status.history)
  BY <1>2, <1>4, <1>5 DEF CachedMCA, IInv, TypeOK
<1>7. TypeOK'
  BY <1>1, <1>2, <1>3, <1>6, ElsewhereTypes DEF Elsewhere, IInv, TypeOK
<1>8. /\ spec \in Nat /\ seenMCA.spec \in Nat /\ seenMCA.spec <= spec
      /\ \A r \in Resources : applied[r] \in Int
  BY VersionTypes DEF IInv, TypeOK, KnownIsApproved
<1>9. (KnownIsApproved /\ AppliedIsKnown)'
  BY <1>1, <1>2, <1>6, <1>8 DEF Elsewhere, IInv, KnownIsApproved, AppliedIsKnown
<1>10. SeenIsRecorded'
  BY <1>1, <1>2, <1>6, ElsewhereTypes DEF Elsewhere, IInv, SeenIsRecorded
<1>. QED
  BY <1>7, <1>9, <1>10 DEF IInv

LEMMA InvInitialiseMRT == IInv /\ InitialiseMRT => IInv'
<1>. SUFFICES ASSUME IInv, InitialiseMRT PROVE IInv'
  OBVIOUS
<1>1. Elsewhere
  BY DEF InitialiseMRT, worker, cluster, repository, Elsewhere
<1>2. /\ UNCHANGED <<spec, finalizer, life, operation, remaining, applied, seenMCA,
                     mishaps>>
      /\ governed'
  BY DEF InitialiseMRT, cluster, argo
<1>3. finalizer' \in BOOLEAN /\ governed' \in BOOLEAN
  BY <1>2, Zenon DEF InitialiseMRT, IInv, TypeOK
<1>4. TypeOK'
  BY <1>1, <1>2, <1>3, ElsewhereTypes DEF Elsewhere, IInv, TypeOK
<1>5. (KnownIsApproved /\ AppliedIsKnown)'
  BY <1>1, <1>2 DEF Elsewhere, IInv, KnownIsApproved, AppliedIsKnown
<1>6. SeenIsRecorded'
  BY <1>1, <1>2, ElsewhereTypes DEF Elsewhere, IInv, SeenIsRecorded
<1>. QED
  BY <1>4, <1>5, <1>6 DEF IInv

LEMMA InvUpdateMCASpec ==
    ASSUME IInv, NEW v \in Versions, UpdateMCASpec(v)
    PROVE  IInv'
<1>1. Elsewhere
  BY DEF UpdateMCASpec, SpecWritten, repository, Elsewhere
<1>2. /\ UNCHANGED <<finalizer, life, operation, remaining, applied, governed,
                     seenMCA, mishaps>>
      /\ governed /\ spec' = v /\ v > spec
  BY DEF UpdateMCASpec, SpecWritten, argo, webhook
<1>3. finalizer' \in BOOLEAN /\ governed' \in BOOLEAN
  BY <1>2, Zenon DEF IInv, TypeOK
<1>4. TypeOK'
  BY <1>1, <1>2, <1>3, ElsewhereTypes DEF Elsewhere, IInv, TypeOK
<1>5. /\ spec \in Nat /\ v \in Nat /\ memSpec \in Nat /\ seenMCA.spec \in Nat
      /\ target \in Int /\ operation \in Int
  BY VersionTypes DEF IInv, TypeOK
<1>6. (KnownIsApproved /\ AppliedIsKnown)'
  BY <1>1, <1>2, <1>5 DEF Elsewhere, IInv, KnownIsApproved, AppliedIsKnown
<1>7. SeenIsRecorded'
  BY <1>1, <1>2, ElsewhereTypes DEF Elsewhere, IInv, SeenIsRecorded
<1>. QED
  BY <1>4, <1>6, <1>7 DEF IInv

LEMMA InvStutter == IInv /\ UNCHANGED vars => IInv'
  BY DEF vars, cluster, worker, repository, argo, webhook, IInv, TypeOK,
         KnownIsApproved, AppliedIsKnown, SeenIsRecorded

\* Next, split into the worker and the others.
LEMMA Steps ==
    ASSUME Next
    PROVE  \/ Working \/ ReconcileDelete \/ UNCHANGED vars \/ AutoSync
           \/ (\E r \in Resources : ApplyResource(r))
           \/ CacheSync \/ (\E c \in Commits : SyncByHand(c))
           \/ InitialiseMRT \/ (\E v \in Versions : UpdateMCASpec(v)) \/ DeleteMCA
  BY Zenon DEF Next, Reconcile, ArgoCD, Environment, Working, ReconcileNotFound

LEMMA InvNext == IInv /\ [Next]_vars => IInv'
<1>. SUFFICES ASSUME IInv, [Next]_vars PROVE IInv'
  OBVIOUS
<1>1. CASE Working
  BY <1>1, InvWorking
<1>2. CASE ReconcileDelete \/ DeleteMCA
  BY <1>2, InvDelete
<1>3. CASE UNCHANGED vars
  BY <1>3, InvStutter
<1>4. CASE AutoSync
  <2>1. target \in Commits /\ target <= spec /\ mishaps' \in 0 .. MaxMishaps
    BY <1>4 DEF AutoSync, IInv, TypeOK, KnownIsApproved
  <2>. QED
    BY <1>4, <2>1, InvStartSync DEF AutoSync
<1>5. CASE \E r \in Resources : ApplyResource(r)
  BY <1>5, InvApplyResource
<1>6. CASE CacheSync
  BY <1>6, InvCacheSync
<1>7. CASE \E c \in Commits : SyncByHand(c)
  <2>1. PICK c \in Commits : SyncByHand(c)
    BY <1>7
  <2>2. c <= spec /\ StartSync(c) /\ mishaps' \in 0 .. MaxMishaps
    BY <2>1, BoundAssumption DEF BoundAssumption, SyncByHand, Mishap, IInv, TypeOK
  <2>. QED
    BY <2>2, InvStartSync
<1>8. CASE InitialiseMRT
  BY <1>8, InvInitialiseMRT
<1>9. CASE \E v \in Versions : UpdateMCASpec(v)
  BY <1>9, InvUpdateMCASpec
<1>. QED
  BY <1>1, <1>2, <1>3, <1>4, <1>5, <1>6, <1>7, <1>8, <1>9, Steps

-----------------------------------------------------------------------------
(***************************************************************************)
(* Theorems                                                                *)
(***************************************************************************)

\* The inductive invariant holds in every reachable state.
THEOREM InvCorrect == Spec => []IInv
  BY InvInit, InvNext, PTL DEF Spec

\* Every variable of the MCA controller, the webhook and ArgoCD keeps its type.
THEOREM TypeCorrect == Spec => []TypeOK
<1>1. IInv => TypeOK
  BY DEF IInv
<1>. QED
  BY <1>1, InvCorrect, PTL

\* A resource changes only when ArgoCD applies what the webhook admits.
LEMMA AppliedIsAdmitted ==
    ASSUME IInv, [Next]_vars, applied' # applied
    PROVE  /\ Admitted(operation)
           /\ governed' = governed /\ spec' = spec /\ status' = status
           /\ \E r \in Resources : applied' = [applied EXCEPT ![r] = operation]
<1>1. ~UNCHANGED vars
  BY DEF vars, argo
<1>2. CASE Working
  BY <1>2, WorkingStep DEF WorkerStep, argo
<1>3. CASE \E r \in Resources : ApplyResource(r)
  BY <1>3 DEF ApplyResource, cluster, webhook
<1>4. CASE ReconcileDelete \/ DeleteMCA \/ CacheSync \/ InitialiseMRT
  BY <1>4 DEF ReconcileDelete, DeleteMCA, CacheSync, InitialiseMRT, argo
<1>5. CASE AutoSync \/ \E c \in Commits : SyncByHand(c)
  BY <1>5 DEF AutoSync, SyncByHand, StartSync
<1>6. CASE \E v \in Versions : UpdateMCASpec(v)
  BY <1>6 DEF UpdateMCASpec, SpecWritten, argo
<1>. QED
  BY <1>1, <1>2, <1>3, <1>4, <1>5, <1>6, Steps

\* Once governed, a resource only takes the content of a commit that
\* approvalHistory holds at that moment (checkRevisionApprovalStatus).
THEOREM DeliveredIsRecordedCorrect == Spec => DeliveredIsRecorded
<1>1. IInv /\ [Next]_vars =>
        [governed => \A r \in Resources :
            applied'[r] # applied[r] => applied'[r] \in Range(status.history)]_applied
  <2>. SUFFICES ASSUME IInv, [Next]_vars, applied' # applied, governed,
                       NEW r \in Resources, applied'[r] # applied[r]
                PROVE  applied'[r] \in Range(status.history)
    OBVIOUS
  <2>1. operation \in Range(status.history)
    BY AppliedIsAdmitted, AdmittedIsKnown
  <2>2. applied'[r] = operation
    BY AppliedIsAdmitted DEF IInv, TypeOK
  <2>. QED
    BY <2>1, <2>2
<1>. QED
  BY <1>1, InvCorrect, PTL DEF Spec, DeliveredIsRecorded

\* The initial states are initial states of the promise, and every step either
\* approves, starts the governance, applies what is approved, or changes none of it.
LEMMA DeliveryInit == Init => Delivery!Init
  BY DEF Init, Delivery!Init, Unapproved

LEMMA DeliveryApply ==
    ASSUME IInv, [Next]_vars, applied' # applied
    PROVE  Delivery!Next
<1>1. PICK r \in Resources : applied' = [applied EXCEPT ![r] = operation]
  BY AppliedIsAdmitted
<1>2. /\ governed' = governed /\ spec' = spec /\ operation <= spec
      /\ operation <= seenMCA.spec
      /\ governed => operation = seenMCA.spec
  BY AppliedIsAdmitted, AdmittedIsKnown DEF IInv, KnownIsApproved
<1>3. operation \in -1 .. spec
  BY <1>2, VersionTypes DEF IInv, TypeOK
<1>4. CASE ~governed
  BY <1>1, <1>2, <1>3, <1>4 DEF Delivery!Next, Delivery!ApplyFreely
<1>5. CASE governed
  <2>1. seenMCA.spec \in Nat /\ spec \in Nat /\ applied[r] <= operation
    BY <1>2, <1>5, VersionTypes DEF IInv, TypeOK, AppliedIsKnown
  <2>2. operation \in {a \in 0 .. spec : a >= applied[r]}
    BY <1>2, <1>5, <2>1, VersionTypes DEF IInv, TypeOK
  <2>3. Delivery!Apply(r)
    BY <1>1, <1>2, <1>5, <2>2 DEF Delivery!Apply
  <2>. QED
    BY <2>3 DEF Delivery!Next
<1>. QED
  BY <1>4, <1>5

LEMMA DeliveryOther ==
    ASSUME IInv, [Next]_vars, applied' = applied
    PROVE  [Delivery!Next]_(Delivery!vars)
<1>1. CASE InitialiseMRT
  BY <1>1 DEF InitialiseMRT, cluster, Delivery!Next, Delivery!StartGovernance
<1>2. CASE \E v \in Versions : UpdateMCASpec(v)
  <2>1. spec' \in Int /\ spec' > spec /\ governed' = governed
    BY <1>2, VersionTypes DEF UpdateMCASpec, SpecWritten, webhook
  <2>. QED
    BY <2>1 DEF Delivery!Next, Delivery!Approve
<1>3. CASE governed' = governed /\ spec' = spec
  BY <1>3 DEF Delivery!vars
<1>4. Working => governed' = governed /\ spec' = spec
  BY WorkingStep DEF WorkerStep, webhook
<1>5. ReconcileDelete \/ DeleteMCA \/ CacheSync \/ UNCHANGED vars
        => governed' = governed /\ spec' = spec
  BY DEF ReconcileDelete, DeleteMCA, CacheSync, vars, cluster, webhook
<1>6. AutoSync \/ (\E c \in Commits : SyncByHand(c))
               \/ (\E r \in Resources : ApplyResource(r))
        => governed' = governed /\ spec' = spec
  BY DEF AutoSync, SyncByHand, StartSync, ApplyResource, cluster, webhook
<1>. QED
  BY <1>1, <1>2, <1>3, <1>4, <1>5, <1>6, Steps

\* The MCA controller, the webhook and ArgoCD implement the promise of
\* GovernedDelivery: governed resources only move forward from approval to approval.
THEOREM DeliveryCorrect == Spec => DeliversWhatIsApproved
<1>1. IInv /\ [Next]_vars => [Delivery!Next]_(Delivery!vars)
  BY DeliveryApply, DeliveryOther
<1>. QED
  BY <1>1, DeliveryInit, InvCorrect, PTL DEF Spec, DeliversWhatIsApproved, Delivery!Spec

\* The governance never ends, and the webhook learns what is approved and nothing else.
LEMMA WebhookLearns ==
    ASSUME [Next]_vars
    PROVE  /\ calm' = calm
           /\ governed => governed'
           /\ governed' # governed => governed' = TRUE
           /\ seenMCA' = seenMCA \/ seenMCA'.spec = spec
<1>0. CASE UNCHANGED vars
  BY <1>0 DEF vars, webhook
<1>1. CASE Reconcile
  BY <1>1
  DEF Reconcile, LockTimeout, ReconcileCreate, DetectNewVersion, ResetAction,
      ReconcileNewMCASpec, GitCommit, PushSummaryFiles, UpdateAfterGitPush, UpdateArgoCD,
      InitSetFinalizer, NotifyGovernors, SaveStatus, SaveSubstate, ReleaseLock,
      ReconcileDelete, ReconcileNotFound, WriteStatus, AcquireLock, Outside, vars, webhook
<1>2. CASE CallFails \/ Crash \/ DeleteMCA
  BY <1>2 DEF CallFails, Crash, DeleteMCA, Outside, webhook
<1>3. CASE ArgoCD \/ \E c \in Commits : SyncByHand(c)
  BY <1>3 DEF ArgoCD, AutoSync, SyncByHand, StartSync, ApplyResource, webhook
<1>4. CASE CacheSync
  BY <1>4 DEF CacheSync, CachedMCA
<1>5. CASE InitialiseMRT
  BY <1>5 DEF InitialiseMRT
<1>6. CASE \E v \in Versions : UpdateMCASpec(v)
  BY <1>6 DEF UpdateMCASpec, SpecWritten, webhook
<1>. QED
  BY <1>0, <1>1, <1>2, <1>3, <1>4, <1>5, <1>6 DEF Next, Environment

-----------------------------------------------------------------------------
(***************************************************************************)
(* The records of ApprovalHistory: their order, how often a version is     *)
(* recorded, and what is published of a version before it is.              *)
(***************************************************************************)

-----------------------------------------------------------------------------
(***************************************************************************)
(* The inductive invariant                                                 *)
(***************************************************************************)

\* A new version starts with the first sub-state: the last one was finished.
Settled(st) == st.action # "NewMCASpec" => st.reconcile = "Empty"

\* What the worker is doing shows in the stored status, and its copy is of the stored
\* version unless that was replaced meanwhile.
WorkerFits ==
    /\ pc # "idle" => status.action # "Empty"
    /\ pc = "substate" => mem.action = "NewMCASpec"
    /\ pc = "save" => Stage(mem) = "UpdateAfterGitPush"
    /\ (pc # "idle" /\ (fresh \/ calm)) => memSpec = spec

\* Until the finalizer is set the MCA only goes through its creation.
Initialising == (life = "live" /\ ~finalizer) =>
    /\ status.action \in CreateStates \cup {"Empty"}
    /\ status.action = "Empty" => status.history = <<>>
    /\ pc # "idle" => mem.action \in CreateStates

\* Records are in order, and of versions that the spec has had.
InOrder(h) == \A i, j \in DOMAIN h : i <= j => h[i] <= h[j]
UpTo(h, v) == \A i \in DOMAIN h : h[i] <= v

RecordsInOrder ==
    /\ InOrder(status.history) /\ UpTo(status.history, spec)
    /\ InOrder(mem.history) /\ UpTo(mem.history, memSpec)

\* What must be published by the time a status leads to the later handlers.
PublishedSoFar(st, v) ==
    /\ Stage(st) \in {"PushSummaryFiles", "UpdateAfterGitPush"} => v \in pushed
    /\ Stage(st) = "UpdateAfterGitPush" => v \in summarised

PublishedFirst == calm =>
    /\ Range(status.history) \subseteq pushed \cap summarised
    /\ Range(mem.history) \subseteq pushed \cap summarised
    /\ PublishedSoFar(status, spec)
    /\ pc # "idle" => PublishedSoFar(mem, memSpec)

Duplicates(h) == Len(h) - Cardinality(Range(h))

\* A status that still leads to a record of version v, though v has one already, owes
\* a duplicate.
LeadsToRecord(st) == Stage(st) \in {"GitPushMCA", "PushSummaryFiles", "UpdateAfterGitPush"}
Owed(st, v) == IF LeadsToRecord(st) /\ v \in Range(st.history) THEN 1 ELSE 0

\* The copy pays what it owes with the write it makes next, if that write succeeds.
CopyOwes ==
    IF pc = "save" \/ (pc = "substate" /\ mem.reconcile = "Empty") THEN 0 ELSE Owed(mem, memSpec)

\* Duplicates, those owed included, are paid for by mishaps: by the stored status if no
\* write follows, and else by the copy.
DuplicatesPaid ==
    /\ Duplicates(status.history) <= mishaps
    /\ (life = "live" /\ (pc = "idle" \/ ~fresh)) =>
           Duplicates(status.history) + Owed(status, spec) <= mishaps
    /\ (pc # "idle" /\ fresh) => Duplicates(mem.history) + CopyOwes <= mishaps

HistoryKept ==
    /\ Settled(status) /\ Settled(mem)
    /\ WorkerFits
    /\ Initialising
    /\ RecordsInOrder
    /\ PublishedFirst
    /\ DuplicatesPaid

HInv == IInv /\ HistoryKept

-----------------------------------------------------------------------------
(***************************************************************************)
(* Records and their duplicates                                            *)
(***************************************************************************)

LEMMA HistoryTypes ==
    ASSUME TypeOK
    PROVE  /\ spec \in Nat /\ memSpec \in Nat /\ mishaps \in Nat /\ memSpec \in Versions
           /\ status \in MCAStatus /\ status.history \in Seq(Versions)
           /\ mem \in MCAStatus /\ mem.history \in Seq(Versions)
<1>1. /\ status \in MCAStatus /\ mem \in MCAStatus /\ memSpec \in Versions
      /\ spec \in Nat /\ memSpec \in Nat /\ mishaps \in Nat
  BY BoundAssumption DEF TypeOK, Versions, BoundAssumption
<1>. QED
  BY <1>1, StatusFields

\* The versions of a history are finitely many.
LEMMA RecordedTypes ==
    ASSUME NEW h \in Seq(Versions)
    PROVE  /\ IsFiniteSet(Range(h)) /\ Cardinality(Range(h)) \in Nat
           /\ Duplicates(h) \in Int
<1>1. Range(h) \subseteq Versions
  BY RangeOfHistory
<1>2. IsFiniteSet(Versions)
  BY FS_Interval, BoundAssumption DEF Versions, BoundAssumption
<1>3. IsFiniteSet(Range(h))
  BY <1>1, <1>2, FS_Subset
<1>. QED
  BY <1>3, FS_CardinalityType DEF Duplicates

\* A record is a duplicate if its version was there already.
LEMMA DuplicatesOfAppend ==
    ASSUME NEW h \in Seq(Versions), NEW v \in Versions
    PROVE  /\ Range(Append(h, v)) = Range(h) \cup {v}
           /\ Duplicates(Append(h, v)) = Duplicates(h) + (IF v \in Range(h) THEN 1 ELSE 0)
<1>1. /\ DOMAIN Append(h, v) = DOMAIN h \cup {Len(h) + 1}
      /\ \A i \in DOMAIN h : Append(h, v)[i] = h[i]
      /\ Append(h, v)[Len(h) + 1] = v
      /\ Len(Append(h, v)) = Len(h) + 1 /\ Len(h) \in Nat
  OBVIOUS
<1>2. Range(Append(h, v)) = Range(h) \cup {v}
  BY <1>1 DEF Range
<1>3. IsFiniteSet(Range(h)) /\ Cardinality(Range(h)) \in Nat
  BY RecordedTypes
<1>4. Cardinality(Range(h) \cup {v}) =
          IF v \in Range(h) THEN Cardinality(Range(h)) ELSE Cardinality(Range(h)) + 1
  BY <1>3, FS_AddElement
<1>. QED
  BY <1>1, <1>2, <1>3, <1>4 DEF Duplicates

\* A record of a version that no other exceeds keeps the order.
LEMMA OrderOfAppend ==
    ASSUME NEW h \in Seq(Versions), NEW v \in Versions, InOrder(h), UpTo(h, v)
    PROVE  InOrder(Append(h, v)) /\ UpTo(Append(h, v), v)
<1>1. /\ DOMAIN Append(h, v) = DOMAIN h \cup {Len(h) + 1}
      /\ \A i \in DOMAIN h : Append(h, v)[i] = h[i]
      /\ Append(h, v)[Len(h) + 1] = v
      /\ \A i \in DOMAIN h : i \in Nat /\ i <= Len(h)
      /\ v \in Nat /\ Len(h) \in Nat
  BY VersionTypes
<1>. QED
  BY <1>1 DEF InOrder, UpTo

\* No record has a version above the last one.
LEMMA HigherIsNew ==
    ASSUME NEW st \in MCAStatus, InOrder(st.history), NEW v \in Nat, v > LatestVersion(st)
    PROVE  v \notin Range(st.history)
<1>. SUFFICES ASSUME v \in Range(st.history) PROVE FALSE
  OBVIOUS
<1>1. st.history \in Seq(Versions)
  BY StatusFields
<1>2. PICK i \in DOMAIN st.history : st.history[i] = v
  BY DEF Range
<1>3. st.history # <<>> /\ Len(st.history) \in DOMAIN st.history /\ i <= Len(st.history)
  BY <1>1, <1>2
<1>4. Last(st.history) \in Nat
  BY <1>1, <1>3, ElementOfSeq, VersionTypes, LenProperties DEF Last
<1>5. v <= Last(st.history)
  BY <1>2, <1>3 DEF InOrder, Last
<1>. QED
  BY <1>3, <1>4, <1>5 DEF LatestVersion

LEMMA OwedTypes ==
    /\ \A st, v : Owed(st, v) \in {0, 1}
    /\ CopyOwes \in {0, 1}
  BY DEF Owed, CopyOwes

\* No state of creation is one of the others.
LEMMA CreationNames ==
    /\ "Empty" \notin CreateStates /\ "NewMCASpec" \notin CreateStates
    /\ "NotifyGovernors" \notin CreateStates
    /\ "NotifyGovernors" \notin ActionStates /\ "InitSetFinalizer" \notin ReconcileStates
    /\ "GitPushMCA" \notin ReconcileStates
    /\ {"GitPushMCA", "PushSummaryFiles", "UpdateAfterGitPush", "UpdateArgoCD",
        "InitSetFinalizer"} = CreateStates
    /\ ActionStates = CreateStates \cup {"Empty", "NewMCASpec"}
  BY DEF ActionStates, CreateStates, ReconcileStates

LEMMA NewStatusFields ==
    /\ NewStatus.action = "Empty" /\ NewStatus.reconcile = "Empty" /\ NewStatus.history = <<>>
    /\ DOMAIN NewStatus.history = {} /\ Range(NewStatus.history) = {}
    /\ Stage(NewStatus) = "Empty" /\ Settled(NewStatus)
    /\ InOrder(NewStatus.history) /\ \A v : UpTo(NewStatus.history, v)
<1>1. /\ NewStatus.action = "Empty" /\ NewStatus.reconcile = "Empty"
      /\ NewStatus.history = <<>> /\ DOMAIN NewStatus.history = {}
  BY DEF NewStatus
<1>. QED
  BY <1>1 DEF Stage, Settled, InOrder, UpTo, Range

-----------------------------------------------------------------------------
(***************************************************************************)
(* Kinds of steps                                                          *)
(***************************************************************************)

\* A step on the copy that leaves its records.
LEMMA CopyKept ==
    ASSUME TypeOK, HistoryKept, pc # "idle", pc' \notin {"idle", "save"},
           UNCHANGED <<calm, status, spec, memSpec, life, fresh>>,
           mishaps' \in Nat, mishaps <= mishaps', finalizer => finalizer',
           pushed \subseteq pushed', summarised \subseteq summarised',
           mem'.history = mem.history, Settled(mem'),
           pc' = "substate" => mem'.action = "NewMCASpec",
           (life = "live" /\ ~finalizer') => mem'.action \in CreateStates,
           calm => PublishedSoFar(mem, memSpec)',
           fresh => Duplicates(mem.history) + CopyOwes' <= mishaps'
    PROVE  HistoryKept'
<1>1. Settled(status)' /\ Settled(mem)'
  BY DEF HistoryKept, Settled
<1>2. WorkerFits'
  BY DEF HistoryKept, WorkerFits
<1>3. Initialising'
  BY DEF HistoryKept, Initialising
<1>4. RecordsInOrder'
  BY DEF HistoryKept, RecordsInOrder, InOrder, UpTo
<1>5. PublishedFirst'
  BY DEF HistoryKept, PublishedFirst, PublishedSoFar
<1>6. DuplicatesPaid'
  <2>1. /\ Duplicates(status.history) \in Int /\ mishaps \in Nat
        /\ Owed(status, spec) \in {0, 1}
    BY HistoryTypes, RecordedTypes, OwedTypes
  <2>2. Duplicates(status.history) <= mishaps'
    BY <2>1 DEF HistoryKept, DuplicatesPaid
  <2>3. (life = "live" /\ ~fresh) => Duplicates(status.history) + Owed(status, spec) <= mishaps'
    BY <2>1 DEF HistoryKept, DuplicatesPaid
  <2>. QED
    BY <2>2, <2>3 DEF DuplicatesPaid, Owed
<1>. QED
  BY <1>1, <1>2, <1>3, <1>4, <1>5, <1>6 DEF HistoryKept

\* The copy is stored, and the worker goes on with a copy that owes nothing more.
LEMMA StoreKept ==
    ASSUME TypeOK, HistoryKept, pc # "idle", pc' \notin {"idle", "save"}, fresh,
           status' = mem, mem.action # "Empty",
           UNCHANGED <<calm, spec, memSpec, life, fresh, finalizer, mishaps, pushed, summarised>>,
           mem'.history = mem.history, Settled(mem'),
           pc' = "substate" => mem'.action = "NewMCASpec",
           mem.action \in CreateStates => mem'.action \in CreateStates,
           calm => PublishedSoFar(mem', memSpec),
           Duplicates(mem.history) + CopyOwes' <= mishaps
    PROVE  HistoryKept'
<1>0. memSpec = spec /\ spec \in Nat
  BY HistoryTypes DEF HistoryKept, WorkerFits
<1>1. Settled(status)' /\ Settled(mem)'
  BY DEF HistoryKept, Settled
<1>2. WorkerFits'
  BY DEF HistoryKept, WorkerFits
<1>3. Initialising'
  BY DEF HistoryKept, Initialising
<1>4. RecordsInOrder'
  BY <1>0 DEF HistoryKept, RecordsInOrder, InOrder, UpTo
<1>5. PublishedFirst'
  BY <1>0 DEF HistoryKept, PublishedFirst, PublishedSoFar
<1>6. DuplicatesPaid'
  <2>1. Duplicates(mem.history) \in Int /\ mishaps \in Nat /\ CopyOwes \in {0, 1}
    BY HistoryTypes, RecordedTypes, OwedTypes
  <2>2. Duplicates(mem.history) <= mishaps
    BY <2>1 DEF HistoryKept, DuplicatesPaid
  <2>. QED
    BY <2>2 DEF DuplicatesPaid
<1>. QED
  BY <1>1, <1>2, <1>3, <1>4, <1>5, <1>6 DEF HistoryKept

\* The worker returns, after its last write, a refused one or a crash.
LEMMA ReturnKept ==
    ASSUME TypeOK, HistoryKept, pc # "idle", Return,
           UNCHANGED <<calm, spec, life, finalizer, pushed, summarised>>,
           \/ fresh /\ pc = "release" /\ status' = mem /\ mishaps' = mishaps
           \/ ~fresh /\ status' = status /\ mishaps' = mishaps
           \/ status' = status /\ mishaps' = mishaps + 1
    PROVE  HistoryKept'
<1>0. mem' = NewStatus /\ pc' = "idle"
  BY DEF Return
<1>1. Settled(status)' /\ Settled(mem)'
  BY <1>0, NewStatusFields DEF HistoryKept, Settled
<1>2. WorkerFits'
  BY <1>0 DEF WorkerFits
<1>3. Initialising'
  BY <1>0, CreationNames DEF HistoryKept, Initialising
<1>c. (fresh /\ pc = "release") => memSpec = spec
  BY DEF HistoryKept, WorkerFits
<1>4. RecordsInOrder'
  BY <1>0, <1>c, NewStatusFields DEF HistoryKept, RecordsInOrder
<1>5. PublishedFirst'
  BY <1>0, <1>c, NewStatusFields DEF HistoryKept, PublishedFirst, PublishedSoFar
<1>6. DuplicatesPaid'
  <2>1. /\ Duplicates(mem.history) \in Int /\ Duplicates(status.history) \in Int /\ mishaps \in Nat
        /\ \A st, v : Owed(st, v) \in {0, 1}
    BY HistoryTypes, RecordedTypes, OwedTypes
  <2>2. CASE fresh /\ pc = "release" /\ status' = mem /\ mishaps' = mishaps
    <3>1. CopyOwes = Owed(mem, spec)
      BY <2>2, <1>c DEF CopyOwes
    <3>2. Duplicates(mem.history) + Owed(mem, spec) <= mishaps
      BY <2>2, <3>1 DEF HistoryKept, DuplicatesPaid
    <3>3. Owed(mem, spec) \in {0, 1}
      BY <2>1
    <3>4. Duplicates(mem.history) <= mishaps
      BY <2>1, <3>2, <3>3
    <3>. QED
      BY <1>0, <2>2, <3>2, <3>4 DEF DuplicatesPaid, Owed
  <2>3. CASE ~fresh /\ status' = status /\ mishaps' = mishaps
    BY <1>0, <2>3 DEF HistoryKept, DuplicatesPaid, Owed
  <2>4. CASE status' = status /\ mishaps' = mishaps + 1
    <3>1. Owed(status, spec) \in {0, 1} /\ Duplicates(status.history) <= mishaps
      BY <2>1 DEF HistoryKept, DuplicatesPaid
    <3>2. /\ Duplicates(status.history) <= mishaps + 1
          /\ Duplicates(status.history) + Owed(status, spec) <= mishaps + 1
      BY <2>1, <3>1
    <3>. QED
      BY <1>0, <2>4, <3>2 DEF DuplicatesPaid, Owed
  <2>. QED
    BY <2>2, <2>3, <2>4
<1>. QED
  BY <1>1, <1>2, <1>3, <1>4, <1>5, <1>6 DEF HistoryKept

\* A single write between two Reconciles.
LEMMA WriteKept ==
    ASSUME TypeOK, HistoryKept, pc = "idle",
           UNCHANGED <<calm, spec, life, finalizer, pc, mem, memSpec, fresh, pushed, summarised,
                       mishaps>>,
           status'.history = status.history, status'.reconcile = status.reconcile,
           \/ status'.action = status.action
           \/ finalizer /\ status'.action = "Empty" /\ status.action # "NewMCASpec"
           \/ /\ finalizer /\ status'.action = "NewMCASpec" /\ status.action = "Empty"
              /\ spec > LatestVersion(status)
    PROVE  HistoryKept'
<1>0. \/ Stage(status') = Stage(status)
      \/ Stage(status') = "Empty"
      \/ Stage(status') = "GitPushMCA" /\ spec > LatestVersion(status)
  BY DEF HistoryKept, Settled, Stage
<1>1. Settled(status)' /\ Settled(mem)'
  BY DEF HistoryKept, Settled
<1>2. WorkerFits'
  BY DEF HistoryKept, WorkerFits
<1>3. Initialising'
  BY DEF HistoryKept, Initialising
<1>4. RecordsInOrder'
  BY DEF HistoryKept, RecordsInOrder, InOrder, UpTo
<1>5. PublishedFirst'
  BY <1>0 DEF HistoryKept, PublishedFirst, PublishedSoFar
<1>6. DuplicatesPaid'
  <2>1. Owed(status, spec) \in {0, 1}
    BY OwedTypes
  <2>2. spec > LatestVersion(status) => spec \notin Range(status.history)
    BY HistoryTypes, HigherIsNew DEF HistoryKept, RecordsInOrder
  <2>3. Owed(status', spec) = Owed(status, spec) \/ Owed(status', spec) = 0
    BY <1>0, <2>2 DEF Owed, LeadsToRecord
  <2>4. life = "live" => Duplicates(status.history) + Owed(status', spec) <= mishaps
    <3>1. Duplicates(status.history) \in Int /\ mishaps \in Nat
      BY HistoryTypes, RecordedTypes
    <3>. QED
      BY <2>1, <2>3, <3>1 DEF HistoryKept, DuplicatesPaid
  <2>. QED
    BY <2>4 DEF HistoryKept, DuplicatesPaid, Owed
<1>. QED
  BY <1>1, <1>2, <1>3, <1>4, <1>5, <1>6 DEF HistoryKept

\* The lock is taken for the action of the status, or for the first one of creation.
LEMMA AcquireKept ==
    ASSUME TypeOK, HistoryKept, NEW a \in ActionStates, AcquireLock(a), a # "Empty",
           \/ a = status.action
           \/ a = "GitPushMCA" /\ status.action = "Empty" /\ ~finalizer,
           ~finalizer => a \in CreateStates
    PROVE  HistoryKept'
<1>1. /\ pc = "idle" /\ pc' = "handler" /\ life = "live"
      /\ mem' = status' /\ memSpec' = spec /\ fresh'
      /\ status'.history = status.history /\ status'.reconcile = status.reconcile
      /\ status'.action = a
      /\ UNCHANGED <<calm, spec, life, finalizer, pushed, summarised, mishaps>>
  BY DEF AcquireLock, TypeOK, MCAStatus, Outside, repository
<1>2. Stage(status') = Stage(status) \/ Stage(status') = "GitPushMCA"
  BY <1>1 DEF Stage
<1>3. Settled(status)' /\ Settled(mem)'
  BY <1>1, CreationNames DEF HistoryKept, Settled
<1>4. WorkerFits'
  BY <1>1 DEF WorkerFits
<1>5. Initialising'
  BY <1>1, CreationNames DEF HistoryKept, Initialising
<1>6. RecordsInOrder'
  BY <1>1 DEF HistoryKept, RecordsInOrder, InOrder, UpTo
<1>7. PublishedFirst'
  BY <1>1, <1>2 DEF HistoryKept, PublishedFirst, PublishedSoFar
<1>8. DuplicatesPaid'
  <2>1. Duplicates(status.history) + Owed(status, spec) <= mishaps /\ Duplicates(status.history) <= mishaps
    BY <1>1 DEF HistoryKept, DuplicatesPaid
  <2>2. Duplicates(mem'.history) + Owed(mem', spec) <= mishaps
    <3>1. CASE a = status.action
      BY <1>1, <2>1, <3>1 DEF Owed, LeadsToRecord, Stage
    <3>2. CASE a = "GitPushMCA" /\ status.action = "Empty" /\ ~finalizer
      <4>1. status.history = <<>>
        BY <1>1, <3>2 DEF HistoryKept, Initialising
      <4>2. spec \notin Range(mem'.history)
        BY <1>1, <4>1 DEF Range
      <4>3. Owed(mem', spec) = 0 /\ Duplicates(status.history) \in Int
        BY <4>2, HistoryTypes, RecordedTypes DEF Owed
      <4>. QED
        BY <1>1, <2>1, <4>3
    <3>. QED
      BY <3>1, <3>2
  <2>. QED
    BY <1>1, <2>1, <2>2 DEF DuplicatesPaid, CopyOwes
<1>. QED
  BY <1>3, <1>4, <1>5, <1>6, <1>7, <1>8 DEF HistoryKept

\* A record is added to the copy; if its version has one, the copy owed it, and what
\* it needs was published before.
LEMMA RecordKept ==
    ASSUME TypeOK, HistoryKept, UpdateAfterGitPush
    PROVE  HistoryKept'
<1>. DEFINE h == mem.history
            k == Append(h, memSpec)
<1>1. /\ mem \in MCAStatus /\ h \in Seq(Versions) /\ memSpec \in Versions /\ k \in Seq(Versions)
  BY HistoryTypes
<1>2. /\ pc = "handler" /\ pc' = "save" /\ Stage(mem) = "UpdateAfterGitPush"
      /\ UNCHANGED <<calm, status, spec, memSpec, life, fresh, finalizer, mishaps, pushed, summarised>>
  BY DEF UpdateAfterGitPush, InHandler, Stage, Outside, repository
<1>3. mem'.history = k /\ mem'.action = mem.action /\ mem'.reconcile = mem.reconcile
  BY <1>1 DEF UpdateAfterGitPush, NewRecord, MCAStatus
<1>. HIDE DEF k
<1>4. Stage(mem') = Stage(mem)
  BY <1>3 DEF Stage
<1>5. Settled(status)' /\ Settled(mem)'
  BY <1>2, <1>3 DEF HistoryKept, Settled
<1>6. WorkerFits'
  BY <1>2, <1>4 DEF HistoryKept, WorkerFits, Stage
<1>7. Initialising'
  BY <1>2, <1>3 DEF HistoryKept, Initialising
<1>8. RecordsInOrder'
  <2>1. InOrder(k) /\ UpTo(k, memSpec)
    BY <1>1, OrderOfAppend DEF HistoryKept, RecordsInOrder, k
  <2>. QED
    BY <1>2, <1>3, <2>1 DEF HistoryKept, RecordsInOrder, InOrder, UpTo
<1>9. Range(k) = Range(h) \cup {memSpec} /\ Duplicates(k) = Duplicates(h) + Owed(mem, memSpec)
  BY <1>1, <1>2, DuplicatesOfAppend DEF Owed, LeadsToRecord, k
<1>10. PublishedFirst'
  BY <1>2, <1>3, <1>4, <1>9 DEF HistoryKept, PublishedFirst, PublishedSoFar
<1>11. DuplicatesPaid'
  <2>1. fresh => Duplicates(h) + Owed(mem, memSpec) <= mishaps
    BY <1>2 DEF HistoryKept, DuplicatesPaid, CopyOwes
  <2>2. Owed(mem, memSpec) \in Int /\ mishaps \in Nat /\ Duplicates(h) \in Int
    BY OwedTypes, HistoryTypes, RecordedTypes
  <2>3. CopyOwes' = 0
    BY <1>2 DEF CopyOwes
  <2>4. fresh => Duplicates(k) + CopyOwes' <= mishaps
    BY <1>9, <2>1, <2>2, <2>3
  <2>. QED
    BY <1>2, <1>3, <2>4 DEF HistoryKept, DuplicatesPaid, Owed
<1>. QED
  BY <1>5, <1>6, <1>7, <1>8, <1>10, <1>11 DEF HistoryKept

\* A step elsewhere.
LEMMA HistoryStutter ==
    ASSUME HistoryKept,
           UNCHANGED <<calm, spec, status, life, finalizer, pc, mem, memSpec, fresh, pushed,
                       summarised>>,
           mishaps \in Nat, mishaps' \in Nat, mishaps <= mishaps', TypeOK
    PROVE  HistoryKept'
<1>1. Settled(status)' /\ Settled(mem)' /\ WorkerFits' /\ Initialising'
  BY DEF HistoryKept, Settled, WorkerFits, Stage, Initialising
<1>2. RecordsInOrder' /\ PublishedFirst'
  BY DEF HistoryKept, RecordsInOrder, InOrder, UpTo, PublishedFirst, PublishedSoFar
<1>3. DuplicatesPaid'
  <2>1. /\ Duplicates(mem.history) \in Int /\ Duplicates(status.history) \in Int
        /\ Owed(status, spec) \in {0, 1} /\ CopyOwes \in {0, 1}
    BY HistoryTypes, RecordedTypes, OwedTypes
  <2>2. CopyOwes' = CopyOwes
    BY DEF CopyOwes, Owed
  <2>. QED
    BY <2>1, <2>2 DEF HistoryKept, DuplicatesPaid, Owed
<1>. QED
  BY <1>1, <1>2, <1>3 DEF HistoryKept

-----------------------------------------------------------------------------
(***************************************************************************)
(* The invariant                                                           *)
(***************************************************************************)

LEMMA HInvInit == Init => HInv
<1>. SUFFICES ASSUME Init PROVE HInv
  OBVIOUS
<1>1. /\ status = NewStatus /\ mem = NewStatus /\ pc = "idle" /\ mishaps = 0
      /\ spec = 0 /\ memSpec = 0
  BY DEF Init
<1>2. Settled(status) /\ Settled(mem) /\ WorkerFits /\ Initialising
  BY <1>1, NewStatusFields DEF WorkerFits, Initialising
<1>3. RecordsInOrder /\ PublishedFirst
  BY <1>1, NewStatusFields DEF RecordsInOrder, PublishedFirst, PublishedSoFar
<1>4. DuplicatesPaid
  <2>1. Duplicates(NewStatus.history) = 0
    <3>1. Cardinality(Range(NewStatus.history)) = 0
      BY NewStatusFields, FS_EmptySet
    <3>2. Len(<<>>) = 0
      OBVIOUS
    <3>. QED
      BY <3>1, <3>2, NewStatusFields DEF Duplicates
  <2>2. Owed(NewStatus, spec) = 0
    BY NewStatusFields DEF Owed
  <2>. QED
    BY <1>1, <2>1, <2>2 DEF DuplicatesPaid
<1>. QED
  BY <1>2, <1>3, <1>4, InvInit DEF HInv, HistoryKept

\* What a handler that succeeded leaves in the copy.
LEMMA SucceedKept ==
    ASSUME TypeOK, Settled(mem), pc = "handler",
           NEW a \in CreateStates \cup {"Empty"}, NEW s \in ReconcileStates, Succeed(a, s)
    PROVE  /\ pc' \in {"substate", "release"} /\ UNCHANGED <<memSpec, fresh>>
           /\ mem'.history = mem.history /\ Settled(mem')
           /\ mem.action = "NewMCASpec" =>
                  pc' = "substate" /\ mem'.action = "NewMCASpec" /\ mem'.reconcile = s
           /\ mem.action # "NewMCASpec" =>
                  pc' = "release" /\ mem'.action = a
<1>1. mem \in MCAStatus
  BY HistoryTypes
<1>2. CASE mem.action = "NewMCASpec"
  BY <1>1, <1>2 DEF Succeed, ToSubstate, MCAStatus, Settled
<1>3. CASE mem.action # "NewMCASpec"
  BY <1>1, <1>3, CreationNames DEF Succeed, ToRelease, MCAStatus, Settled
<1>. QED
  BY <1>2, <1>3

\* Each step of the worker is of one of these kinds.
LEMMA WorkingKept ==
    ASSUME IInv, HistoryKept, Working
    PROVE  HistoryKept'
<1>t. TypeOK /\ Settled(mem) /\ Settled(status)
  BY DEF IInv, HistoryKept
<1>s. /\ status \in MCAStatus /\ mem \in MCAStatus /\ mishaps \in Nat
      /\ mem.action \in ActionStates /\ mem.reconcile \in ReconcileStates
      /\ status.action \in ActionStates
      /\ Duplicates(mem.history) \in Int
      /\ CopyOwes \in {0, 1}
  BY <1>t, HistoryTypes, RecordedTypes, OwedTypes, StatusFields
<1>d. (pc # "idle" /\ fresh) => /\ Duplicates(mem.history) + CopyOwes <= mishaps
                                /\ Duplicates(mem.history) <= mishaps
  BY <1>s DEF HistoryKept, DuplicatesPaid
<1>i. (pc # "idle" /\ life = "live" /\ ~finalizer) => mem.action \in CreateStates
  BY DEF HistoryKept, Initialising
<1>p. (pc # "idle" /\ calm) => PublishedSoFar(mem, memSpec)
  BY DEF HistoryKept, PublishedFirst
<1>1. CASE LockTimeout
  <2>1. status' = [status EXCEPT !.progressing = FALSE] /\ pc = "idle"
        /\ UNCHANGED <<calm, spec, life, finalizer, pc, mem, memSpec, fresh, pushed, summarised, mishaps>>
    BY <1>1 DEF LockTimeout, WriteStatus, worker, Outside, repository
  <2>2. status'.history = status.history /\ status'.reconcile = status.reconcile
        /\ status'.action = status.action
    BY <1>s, <2>1 DEF MCAStatus
  <2>. QED
    BY <1>t, <2>1, <2>2, WriteKept
<1>2. CASE DetectNewVersion \/ ResetAction
  <2>1. PICK a \in {"NewMCASpec", "Empty"} :
            /\ status' = [status EXCEPT !.action = a]
            /\ a = "NewMCASpec" => status.action = "Empty" /\ spec > LatestVersion(status)
            /\ a = "Empty" => status.action # "NewMCASpec"
    BY <1>2, CreationNames DEF DetectNewVersion, ResetAction, WriteStatus
  <2>2. pc = "idle" /\ finalizer
        /\ UNCHANGED <<calm, spec, life, finalizer, pc, mem, memSpec, fresh, pushed, summarised, mishaps>>
    BY <1>2 DEF DetectNewVersion, ResetAction, WriteStatus, worker, Outside, repository
  <2>3. status'.history = status.history /\ status'.reconcile = status.reconcile
        /\ status'.action = a
    BY <1>s, <2>1 DEF MCAStatus
  <2>. QED
    BY <1>t, <2>1, <2>2, <2>3, WriteKept
<1>3. CASE ReconcileCreate \/ ReconcileNewMCASpec
  <2>1. PICK a \in ActionStates :
            /\ AcquireLock(a) /\ a # "Empty"
            /\ \/ a = status.action
               \/ a = "GitPushMCA" /\ status.action = "Empty" /\ ~finalizer
            /\ ~finalizer => a \in CreateStates
    BY <1>s, <1>3, CreationNames DEF ReconcileCreate, ReconcileNewMCASpec
  <2>. QED
    BY <1>t, <2>1, AcquireKept
<1>4. CASE UpdateAfterGitPush
  BY <1>t, <1>4, RecordKept
<1>5. CASE GitCommit
  <2>1. /\ pc = "handler" /\ Succeed("PushSummaryFiles", "PushSummaryFiles")
        /\ pushed' = pushed \cup {memSpec}
        /\ UNCHANGED <<calm, status, spec, life, finalizer, summarised, mishaps>>
        /\ Stage(mem) = "GitPushMCA"
    BY <1>5 DEF GitCommit, InHandler, Stage, Outside
  <2>2. /\ pc' \in {"substate", "release"} /\ UNCHANGED <<memSpec, fresh>>
        /\ mem'.history = mem.history /\ Settled(mem')
        /\ Stage(mem') = "PushSummaryFiles"
        /\ pc' = "substate" => mem'.action = "NewMCASpec" /\ mem'.reconcile = "PushSummaryFiles"
        /\ mem.action \in CreateStates => mem'.action \in CreateStates
    BY <1>t, <2>1, StateNames, CreationNames, SucceedKept DEF Stage
  <2>3. CopyOwes' = CopyOwes
    BY <2>1, <2>2 DEF CopyOwes, Owed, LeadsToRecord
  <2>4. PublishedSoFar(mem, memSpec)'
    BY <2>1, <2>2 DEF PublishedSoFar
  <2>5. fresh => Duplicates(mem.history) + CopyOwes' <= mishaps'
    BY <1>d, <2>1, <2>3
  <2>. QED
    BY <1>t, <1>s, <1>i, <2>1, <2>2, <2>4, <2>5, CopyKept
<1>6. CASE PushSummaryFiles
  <2>1. /\ pc = "handler" /\ Succeed("UpdateAfterGitPush", "UpdateAfterGitPush")
        /\ summarised' = summarised \cup {memSpec}
        /\ UNCHANGED <<calm, status, spec, life, finalizer, pushed, mishaps>>
        /\ Stage(mem) = "PushSummaryFiles"
    BY <1>6 DEF PushSummaryFiles, InHandler, Stage, Outside
  <2>2. /\ pc' \in {"substate", "release"} /\ UNCHANGED <<memSpec, fresh>>
        /\ mem'.history = mem.history /\ Settled(mem')
        /\ Stage(mem') = "UpdateAfterGitPush"
        /\ pc' = "substate" => mem'.action = "NewMCASpec" /\ mem'.reconcile = "UpdateAfterGitPush"
        /\ mem.action \in CreateStates => mem'.action \in CreateStates
    BY <1>t, <2>1, StateNames, CreationNames, SucceedKept DEF Stage
  <2>3. CopyOwes' = CopyOwes
    BY <2>1, <2>2 DEF CopyOwes, Owed, LeadsToRecord
  <2>4. calm => PublishedSoFar(mem, memSpec)'
    BY <1>p, <2>1, <2>2 DEF PublishedSoFar
  <2>5. fresh => Duplicates(mem.history) + CopyOwes' <= mishaps'
    BY <1>d, <2>1, <2>3
  <2>. QED
    BY <1>t, <1>s, <1>i, <2>1, <2>2, <2>4, <2>5, CopyKept
<1>7. CASE UpdateArgoCD \/ NotifyGovernors
  <2>1. /\ pc = "handler"
        /\ UNCHANGED <<calm, status, spec, life, finalizer, pushed, summarised, mishaps>>
        /\ \/ Succeed("InitSetFinalizer", "NotifyGovernors")
           \/ Succeed("Empty", "Empty") /\ mem.action = "NewMCASpec"
    BY <1>s, <1>7, CreationNames DEF UpdateArgoCD, NotifyGovernors, InHandler, Stage, Outside, repository
  <2>2. /\ pc' \in {"substate", "release"} /\ UNCHANGED <<memSpec, fresh>>
        /\ mem'.history = mem.history /\ Settled(mem')
        /\ \/ Stage(mem') \in {"InitSetFinalizer", "NotifyGovernors"}
           \/ pc' = "substate" /\ mem'.reconcile = "Empty" /\ Stage(mem') = "GitPushMCA"
        /\ pc' = "substate" => mem'.action = "NewMCASpec"
        /\ mem.action \in CreateStates => mem'.action \in CreateStates
    BY <1>t, <2>1, StateNames, CreationNames, SucceedKept DEF Stage
  <2>3. CopyOwes' = 0
    BY <2>2 DEF CopyOwes, Owed, LeadsToRecord
  <2>4. PublishedSoFar(mem, memSpec)'
    BY <2>2 DEF PublishedSoFar
  <2>5. fresh => Duplicates(mem.history) + CopyOwes' <= mishaps'
    BY <1>s, <1>d, <2>1, <2>3
  <2>. QED
    BY <1>t, <1>s, <1>i, <2>1, <2>2, <2>4, <2>5, CopyKept
<1>8. CASE InitSetFinalizer
  <2>1. /\ pc = "handler" /\ pc' = "release" /\ Stage(mem) = "InitSetFinalizer"
        /\ UNCHANGED <<calm, status, spec, life, memSpec, fresh, pushed, summarised, mishaps>>
    BY <1>8 DEF InitSetFinalizer, InHandler, ToRelease, Outside, repository
  <2>f. (finalizer => finalizer') /\ (fresh => finalizer')
    BY <1>8, Zenon DEF InitSetFinalizer
  <2>2. /\ mem'.history = mem.history /\ mem'.reconcile = mem.reconcile
        /\ mem.action = "InitSetFinalizer"
        /\ mem'.action = IF fresh THEN "Empty" ELSE "InitSetFinalizer"
    BY <1>s, <1>8, <2>1, CreationNames DEF InitSetFinalizer, ToRelease, MCAStatus, Stage
  <2>3. Stage(mem') \in {"Empty", "InitSetFinalizer"} /\ Settled(mem')
    BY <1>t, <2>2 DEF Stage, Settled
  <2>4. CopyOwes' = 0 /\ PublishedSoFar(mem, memSpec)'
    BY <2>3 DEF CopyOwes, Owed, LeadsToRecord, PublishedSoFar
  <2>5. fresh => Duplicates(mem.history) + CopyOwes' <= mishaps'
    BY <1>s, <1>d, <2>1, <2>4
  <2>6. (life = "live" /\ ~finalizer') => mem'.action \in CreateStates
    BY <2>2, <2>f, CreationNames
  <2>. QED
    BY <1>t, <1>s, <2>1, <2>2, <2>3, <2>4, <2>5, <2>6, <2>f, CopyKept
<1>9. CASE SaveStatus /\ fresh
  <2>1. /\ pc = "save" /\ status' = mem /\ Succeed("UpdateArgoCD", "UpdateArgoCD")
        /\ UNCHANGED <<calm, spec, life, finalizer, pushed, summarised, mishaps>>
    BY <1>9 DEF SaveStatus, Outside, repository
  <2>2. Stage(mem) = "UpdateAfterGitPush" /\ mem.action # "Empty"
    BY <2>1 DEF HistoryKept, WorkerFits, Stage
  <2>3. /\ pc' \in {"substate", "release"} /\ UNCHANGED <<memSpec, fresh>>
        /\ mem'.history = mem.history /\ Settled(mem')
        /\ Stage(mem') = "UpdateArgoCD"
        /\ pc' = "substate" => mem'.action = "NewMCASpec"
        /\ mem.action \in CreateStates => mem'.action \in CreateStates
    <3>1. CASE mem.action = "NewMCASpec"
      BY <1>t, <1>s, <2>1, <3>1, CreationNames DEF Succeed, ToSubstate, MCAStatus, Settled, Stage
    <3>2. CASE mem.action # "NewMCASpec"
      BY <1>t, <1>s, <2>1, <2>2, <3>2, CreationNames DEF Succeed, ToRelease, MCAStatus, Settled, Stage
    <3>. QED
      BY <3>1, <3>2
  <2>4. CopyOwes' = 0 /\ PublishedSoFar(mem', memSpec)
    BY <2>3 DEF CopyOwes, Owed, LeadsToRecord, PublishedSoFar
  <2>5. Duplicates(mem.history) + CopyOwes' <= mishaps
    BY <1>s, <1>d, <1>9, <2>1, <2>4
  <2>. QED
    BY <1>t, <1>9, <2>1, <2>2, <2>3, <2>4, <2>5, StoreKept
<1>10. CASE SaveSubstate /\ fresh
  <2>1. /\ pc = "substate" /\ pc' = "release" /\ status' = mem /\ mem.action = "NewMCASpec"
        /\ UNCHANGED <<calm, spec, memSpec, life, fresh, finalizer, pushed, summarised, mishaps>>
    BY <1>10 DEF SaveSubstate, ToRelease, Outside, repository, HistoryKept, WorkerFits
  <2>2. /\ mem'.history = mem.history /\ mem'.reconcile = mem.reconcile
        /\ mem'.action = IF mem.reconcile = "Empty" THEN "Empty" ELSE "NewMCASpec"
    BY <1>s, <1>10 DEF SaveSubstate, ToRelease, MCAStatus
  <2>3. /\ Settled(mem')
        /\ Stage(mem') = "Empty" \/ (Stage(mem') = Stage(mem) /\ mem.reconcile # "Empty")
    BY <2>1, <2>2 DEF Settled, Stage
  <2>4. CopyOwes' = 0 \/ CopyOwes' = CopyOwes
    BY <2>1, <2>2, <2>3 DEF CopyOwes, Owed, LeadsToRecord
  <2>5. Duplicates(mem.history) + CopyOwes' <= mishaps
    BY <1>s, <1>d, <1>10, <2>1, <2>4
  <2>6. calm => PublishedSoFar(mem', memSpec)
    BY <1>p, <2>1, <2>3 DEF PublishedSoFar
  <2>. QED
    BY <1>t, <1>10, <2>1, <2>2, <2>3, <2>5, <2>6, CreationNames, StoreKept
<1>11. CASE (SaveStatus \/ SaveSubstate) /\ ~fresh
  <2>1. /\ pc # "idle" /\ pc' = "release"
        /\ UNCHANGED <<calm, status, spec, memSpec, life, fresh, finalizer, pushed, summarised, mishaps>>
        /\ mem'.history = mem.history /\ mem'.reconcile = mem.reconcile /\ mem'.action = mem.action
    BY <1>s, <1>11
       DEF SaveStatus, SaveSubstate, ToRelease, MCAStatus, Outside, repository, HistoryKept, WorkerFits
  <2>2. Settled(mem') /\ Stage(mem') = Stage(mem)
    BY <1>t, <2>1 DEF Settled, Stage
  <2>3. calm => PublishedSoFar(mem, memSpec)'
    BY <1>p, <2>1, <2>2 DEF PublishedSoFar
  <2>. QED
    BY <1>t, <1>s, <1>i, <1>11, <2>1, <2>2, <2>3, CopyKept
<1>12. CASE CallFails
  <2>1. /\ pc # "idle" /\ pc' = "release" /\ mishaps' = mishaps + 1
        /\ UNCHANGED <<calm, status, spec, memSpec, life, fresh, finalizer, pushed, summarised>>
        /\ mem'.history = mem.history /\ mem'.reconcile = mem.reconcile /\ mem'.action = mem.action
    BY <1>s, <1>12 DEF CallFails, Mishap, ToRelease, MCAStatus, Outside, repository
  <2>2. Settled(mem') /\ Stage(mem') = Stage(mem)
    BY <1>t, <2>1 DEF Settled, Stage
  <2>3. calm => PublishedSoFar(mem, memSpec)'
    BY <1>p, <2>1, <2>2 DEF PublishedSoFar
  <2>4. CopyOwes' \in {0, 1}
    BY DEF CopyOwes, Owed
  <2>5. fresh => Duplicates(mem.history) + CopyOwes' <= mishaps'
    BY <1>s, <1>d, <2>1, <2>4
  <2>6. mishaps' \in Nat /\ mishaps <= mishaps'
    BY <1>s, <2>1
  <2>. QED
    BY <1>t, <1>i, <2>1, <2>2, <2>3, <2>5, <2>6, CopyKept
<1>13. CASE ReleaseLock \/ Crash
  <2>1. /\ pc # "idle" /\ Return
        /\ UNCHANGED <<calm, spec, life, finalizer, pushed, summarised>>
        /\ \/ fresh /\ pc = "release" /\ status' = mem /\ mishaps' = mishaps
           \/ ~fresh /\ status' = status /\ mishaps' = mishaps
           \/ status' = status /\ mishaps' = mishaps + 1
    BY <1>13 DEF ReleaseLock, Crash, Mishap, Outside, repository
  <2>. QED
    BY <1>t, <2>1, ReturnKept
<1>. QED
  BY <1>1, <1>2, <1>3, <1>4, <1>5, <1>6, <1>7, <1>8, <1>9, <1>10, <1>11, <1>12, <1>13 DEF Working

\* A new version has no record yet, and while another is processed it comes only
\* when versions do not wait for the MCA to rest.
LEMMA UpdateKept ==
    ASSUME IInv, HistoryKept, NEW v \in Versions, UpdateMCASpec(v)
    PROVE  HistoryKept'
<1>t. /\ TypeOK /\ spec \in Nat /\ memSpec \in Nat /\ v \in Nat
      /\ status.history \in Seq(Versions)
      /\ \A i \in DOMAIN status.history : status.history[i] \in Nat
  <2>1. TypeOK /\ status.history \in Seq(Versions)
    BY HistoryTypes DEF IInv
  <2>2. \A i \in DOMAIN status.history : status.history[i] \in Nat
    BY <2>1, ElementOfSeq, LenProperties, VersionTypes
  <2>. QED
    BY <2>1, <2>2, HistoryTypes, VersionTypes
<1>1. /\ spec' = v /\ v > spec /\ ~fresh'
      /\ calm => status.action = "Empty"
      /\ UNCHANGED <<calm, status, life, finalizer, pc, mem, memSpec, pushed, summarised, mishaps>>
  BY DEF UpdateMCASpec, SpecWritten, repository
<1>2. Settled(status)' /\ Settled(mem)' /\ WorkerFits' /\ Initialising'
  BY <1>1 DEF HistoryKept, Settled, WorkerFits, Stage, Initialising
<1>3. RecordsInOrder'
  BY <1>t, <1>1 DEF HistoryKept, RecordsInOrder, InOrder, UpTo
<1>4. PublishedFirst'
  BY <1>1 DEF HistoryKept, WorkerFits, PublishedFirst, PublishedSoFar, Stage
<1>5. DuplicatesPaid'
  <2>1. v \notin Range(status.history)
    BY <1>t, <1>1 DEF HistoryKept, RecordsInOrder, UpTo, Range
  <2>2. Owed(status, spec)' = 0
    BY <1>1, <2>1 DEF Owed
  <2>3. Duplicates(status.history) \in Int
    BY <1>t, RecordedTypes
  <2>. QED
    BY <1>1, <2>2, <2>3 DEF HistoryKept, DuplicatesPaid
<1>. QED
  BY <1>2, <1>3, <1>4, <1>5 DEF HistoryKept

LEMMA DeleteKept ==
    ASSUME IInv, HistoryKept, ReconcileDelete \/ DeleteMCA
    PROVE  HistoryKept'
<1>t. /\ TypeOK /\ mishaps \in Nat
      /\ Duplicates(status.history) \in Int /\ Duplicates(mem.history) \in Int
  BY HistoryTypes, RecordedTypes DEF IInv
<1>1. /\ life' # "live" /\ (pc # "idle" => ~fresh')
      /\ UNCHANGED <<calm, spec, status, pc, mem, memSpec, pushed, summarised>>
      /\ mishaps' \in {mishaps, mishaps + 1}
  BY DEF ReconcileDelete, DeleteMCA, Mishap, worker, repository
<1>2. Settled(status)' /\ Settled(mem)' /\ WorkerFits' /\ Initialising'
  BY <1>1 DEF HistoryKept, Settled, WorkerFits, Stage, Initialising
<1>3. RecordsInOrder' /\ PublishedFirst'
  BY <1>1 DEF HistoryKept, RecordsInOrder, InOrder, UpTo, PublishedFirst, PublishedSoFar
<1>4. DuplicatesPaid'
  BY <1>t, <1>1 DEF HistoryKept, DuplicatesPaid
<1>. QED
  BY <1>2, <1>3, <1>4 DEF HistoryKept

LEMMA HInvNext == HInv /\ [Next]_vars => HInv'
<1>. SUFFICES ASSUME IInv, HistoryKept, [Next]_vars PROVE HInv'
  BY DEF HInv
<1>0. IInv' /\ TypeOK /\ mishaps \in Nat
  BY InvNext, HistoryTypes DEF IInv
<1>1. CASE Working
  BY <1>0, <1>1, WorkingKept DEF HInv
<1>2. CASE ReconcileDelete \/ DeleteMCA
  BY <1>0, <1>2, DeleteKept DEF HInv
<1>3. CASE \E v \in Versions : UpdateMCASpec(v)
  BY <1>0, <1>3, UpdateKept DEF HInv
<1>4. CASE \/ UNCHANGED vars \/ AutoSync \/ (\E r \in Resources : ApplyResource(r))
           \/ CacheSync \/ (\E c \in Commits : SyncByHand(c)) \/ InitialiseMRT
  <2>1. /\ UNCHANGED <<calm, spec, status, life, finalizer, pc, mem, memSpec, fresh, pushed,
                       summarised>>
        /\ mishaps' = mishaps \/ mishaps' = mishaps + 1
    BY <1>4 DEF vars, AutoSync, ApplyResource, CacheSync, SyncByHand, StartSync, InitialiseMRT,
       Mishap, cluster, worker, repository
  <2>2. mishaps' \in Nat /\ mishaps <= mishaps'
    BY <1>0, <2>1
  <2>. QED
    BY <1>0, <2>1, <2>2, HistoryStutter DEF HInv
<1>. QED
  BY <1>1, <1>2, <1>3, <1>4, Steps

-----------------------------------------------------------------------------
(***************************************************************************)
(* The properties                                                          *)
(***************************************************************************)

\* The inductive invariant of the records holds in every reachable state.
THEOREM HistoryInvariant == Spec => []HInv
<1>. QED
  BY HInvInit, HInvNext, PTL DEF Spec

\* ApprovalHistory, which the admission webhook decides by, is in the order of the
\* versions and repeats no more of them than calls failed, crashed or were undone by
\* hand: no stale copy (handleStateUpdateAfterGitPush) puts an old version last.
THEOREM AdvanceCorrect == Spec => []HistoryAdvances
<1>1. HInv => HistoryAdvances
  <2>. SUFFICES ASSUME HInv PROVE HistoryAdvances
    OBVIOUS
  <2>1. status.history \in Seq(Versions)
    BY HistoryTypes DEF HInv, IInv
  <2>2. \A i \in 2 .. Len(status.history) :
            /\ i - 1 \in DOMAIN status.history /\ i \in DOMAIN status.history /\ i - 1 <= i
    BY <2>1
  <2>3. \A i \in 2 .. Len(status.history) : status.history[i - 1] <= status.history[i]
    BY <2>2 DEF HInv, HistoryKept, RecordsInOrder, InOrder
  <2>. QED
    BY <2>3 DEF HInv, HistoryKept, DuplicatesPaid, Duplicates, HistoryAdvances
<1>. QED
  BY <1>1, HistoryInvariant, PTL

\* If versions wait for the one before to be processed, whatever fails on the way, a
\* version in ApprovalHistory has its MCA and its summary files in the repository.
THEOREM PublishedCorrect == Spec => []RecordsArePublished
<1>1. HInv => RecordsArePublished
  BY DEF HInv, HistoryKept, PublishedFirst, RecordsArePublished
<1>. QED
  BY <1>1, HistoryInvariant, PTL
=============================================================================
