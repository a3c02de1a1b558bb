------------------------- MODULE SigningHistoryProofs -------------------------
(***************************************************************************)
(* What SigningRequest guarantees of the records of RequestHistory, for    *)
(* every governance board, rule, number of versions, faults and commits:   *)
(* which record the phase tells of, and how often a version is recorded.   *)
(***************************************************************************)
EXTENDS SigningRequestProofs, FiniteSetTheorems

-----------------------------------------------------------------------------
(***************************************************************************)
(* The inductive invariant                                                 *)
(***************************************************************************)

PhaseOf(st) == (st.phase = "Approved") <=> (Len(st.history) \in ApprovedRecords(st))

\* Until the finalizer is set the MSR only goes through its creation, and nothing is
\* approved; what creation leaves behind is not approved either.
NotYetApproved(st) == st.action \in CreateStates => st.phase # "Approved"

Initialising == (life = "live" /\ ~finalizer) =>
    /\ status.action \in CreateStates \cup {"Empty"} /\ status.phase # "Approved"
    /\ status.action = "Empty" => status.history = <<>>
    /\ pc # "idle" => mem.action \in CreateStates

PhaseKept ==
    /\ PhaseOf(status) /\ PhaseOf(mem)
    /\ NotYetApproved(status) /\ NotYetApproved(mem)
    /\ Initialising

\* The last record is of the highest version.
LastIsHighest(st) == \A i \in DOMAIN st.history : st.history[i].version <= Last(st.history).version

RecordedIn(h) == {h[i].version : i \in DOMAIN h}
Duplicates(h) == Len(h) - Cardinality(RecordedIn(h))

\* A status that still leads to a record of version v, though v has one already, owes
\* a duplicate.
LeadsToRecord(st) ==
    \/ st.action \in CreateStates \ {"InitSetFinalizer"}
    \/ st.action = "NewMSRSpec" /\ st.reconcile # "NotifyGovernors"

Owed(st, v) == IF LeadsToRecord(st) /\ v \in RecordedIn(st.history) THEN 1 ELSE 0

\* The copy pays what it owes with the write it makes next, if that write succeeds.
CopyOwes ==
    IF \/ pc = "save"
       \/ pc = "substate" /\ mem.action = "NewMSRSpec" /\ mem.reconcile = "Empty"
    THEN 0 ELSE Owed(mem, memSpec)

\* Duplicates, those owed included, are paid for by faults: by the stored status if no
\* write follows, and else by the copy.
DuplicatesPaid ==
    /\ Duplicates(status.history) <= faults
    /\ (life = "live" /\ (pc = "idle" \/ ~fresh)) =>
           Duplicates(status.history) + Owed(status, spec) <= faults
    /\ (pc # "idle" /\ fresh) => Duplicates(mem.history) + CopyOwes <= faults

\* Only these actions save their work before their sub-state.
WhatIsSaved ==
    pc = "save" => mem.action \in {"UpdateAfterGitPush", "NewMSRSpec", "MSRRulesFulfillment"}

HistoryKept ==
    /\ PhaseKept
    /\ WhatIsSaved
    /\ LastIsHighest(status) /\ LastIsHighest(mem)
    /\ DuplicatesPaid

HInv == IInv /\ HistoryKept

-----------------------------------------------------------------------------
(***************************************************************************)
(* Records and their duplicates                                            *)
(***************************************************************************)

LEMMA NumberTypes ==
    ASSUME TypeOK
    PROVE  /\ spec \in Nat /\ memSpec \in Nat /\ faults \in Nat
           /\ status \in MSRStatus /\ status.history \in Seq(HistoryRecord)
           /\ mem \in MSRStatus /\ mem.history \in Seq(HistoryRecord)
           /\ NewRecord \in HistoryRecord
<1>1. /\ status \in MSRStatus /\ mem \in MSRStatus
      /\ spec \in Nat /\ memSpec \in Nat /\ faults \in Nat
  BY BoundAssumption DEF TypeOK, Versions, BoundAssumption
<1>2. NewRecord \in HistoryRecord
  BY DEF NewRecord, HistoryRecord, TypeOK
<1>. QED
  BY <1>1, <1>2, StatusFields

\* The versions of a history are finitely many.
LEMMA RecordedTypes ==
    ASSUME NEW h \in Seq(HistoryRecord)
    PROVE  IsFiniteSet(RecordedIn(h)) /\ Cardinality(RecordedIn(h)) \in Nat /\ Duplicates(h) \in Int
<1>1. RecordedIn(h) \subseteq Versions
  <2>1. \A i \in DOMAIN h : h[i] \in HistoryRecord
    OBVIOUS
  <2>. QED
    BY <2>1 DEF RecordedIn, HistoryRecord
<1>2. IsFiniteSet(Versions)
  BY FS_Interval, BoundAssumption DEF Versions, BoundAssumption
<1>3. IsFiniteSet(RecordedIn(h))
  BY <1>1, <1>2, FS_Subset
<1>. QED
  BY <1>3, FS_CardinalityType DEF Duplicates

\* A record is a duplicate if its version was there already.
LEMMA DuplicatesOfAppend ==
    ASSUME NEW h \in Seq(HistoryRecord), NEW r \in HistoryRecord
    PROVE  /\ RecordedIn(Append(h, r)) = RecordedIn(h) \cup {r.version}
           /\ Duplicates(Append(h, r)) =
                  Duplicates(h) + (IF r.version \in RecordedIn(h) THEN 1 ELSE 0)
<1>1. RecordedIn(Append(h, r)) = RecordedIn(h) \cup {r.version}
  BY AppendRecord DEF RecordedIn
<1>2. IsFiniteSet(RecordedIn(h)) /\ Cardinality(RecordedIn(h)) \in Nat
  BY RecordedTypes
<1>3. Len(Append(h, r)) = Len(h) + 1 /\ Len(h) \in Nat
  OBVIOUS
<1>4. Cardinality(RecordedIn(h) \cup {r.version}) =
          IF r.version \in RecordedIn(h) THEN Cardinality(RecordedIn(h))
                                         ELSE Cardinality(RecordedIn(h)) + 1
  BY <1>2, FS_AddElement
<1>. QED
  BY <1>1, <1>2, <1>3, <1>4 DEF Duplicates

\* Signing the last record leaves the versions as they are.
LEMMA DuplicatesOfSignLast ==
    ASSUME NEW h \in Seq(HistoryRecord), h # <<>>, NEW S \in SUBSET Governors
    PROVE  Duplicates(SignLast(h, S)) = Duplicates(h)
<1>1. RecordedIn(SignLast(h, S)) = RecordedIn(h)
  BY SignLastRecord DEF RecordedIn
<1>2. Len(SignLast(h, S)) = Len(h)
  BY DEF SignLast
<1>. QED
  BY <1>1, <1>2 DEF Duplicates

\* No record has a version above the last one.
LEMMA HigherIsNew ==
    ASSUME NEW st \in MSRStatus, LastIsHighest(st), NEW v \in Nat, v > LatestVersion(st)
    PROVE  v \notin RecordedIn(st.history)
<1>. SUFFICES ASSUME v \in RecordedIn(st.history) PROVE FALSE
  OBVIOUS
<1>1. st.history \in Seq(HistoryRecord)
  BY StatusFields
<1>2. PICK i \in DOMAIN st.history : st.history[i].version = v
  BY DEF RecordedIn
<1>3. st.history # <<>>
  BY <1>1, <1>2
<1>4. Len(st.history) \in DOMAIN st.history
  BY <1>1, <1>3
<1>5. Last(st.history).version \in Nat
  <2>1. Last(st.history) \in HistoryRecord
    BY <1>1, <1>3, <1>4 DEF Last
  <2>. QED
    BY <2>1 DEF HistoryRecord, Versions
<1>. QED
  BY <1>2, <1>3, <1>5 DEF LatestVersion, LastIsHighest

LEMMA OwedTypes ==
    ASSUME NEW st, NEW v
    PROVE  Owed(st, v) \in {0, 1} /\ CopyOwes \in {0, 1}
  BY DEF Owed, CopyOwes

\* No state of creation is one of the others.
LEMMA CreationNames ==
    /\ "Empty" \notin CreateStates /\ "NewMSRSpec" \notin CreateStates
    /\ "MSRRulesFulfillment" \notin CreateStates /\ "Deletion" \notin CreateStates
    /\ {"GitPushMSR", "GovernorQubmangoSignature", "UpdateAfterGitPush", "InitSetFinalizer"}
           \subseteq CreateStates
  BY DEF CreateStates

-----------------------------------------------------------------------------
(***************************************************************************)
(* Kinds of steps                                                          *)
(***************************************************************************)

\* A step on the copy that leaves its records and its phase.
LEMMA CopyKept ==
    ASSUME TypeOK, HistoryKept, pc # "idle", pc' \notin {"idle", "save"},
           UNCHANGED <<status, spec, memSpec, life, fresh>>,
           faults' \in Nat, faults <= faults', finalizer => finalizer',
           mem'.history = mem.history, mem'.phase = mem.phase,
           mem'.action \in CreateStates => mem.action \in CreateStates,
           (life = "live" /\ ~finalizer') => mem'.action \in CreateStates,
           fresh => Duplicates(mem.history) + CopyOwes' <= faults'
    PROVE  HistoryKept'
<1>1. PhaseKept'
  BY DEF HistoryKept, PhaseKept, PhaseOf, ApprovedRecords, NotYetApproved, Initialising
<1>2. LastIsHighest(status)' /\ LastIsHighest(mem)'
  BY DEF HistoryKept, LastIsHighest
<1>3. DuplicatesPaid'
  <2>1. /\ Duplicates(status.history) \in Int /\ faults \in Nat
        /\ Owed(status, spec) \in {0, 1}
    BY NumberTypes, RecordedTypes, OwedTypes
  <2>2. Duplicates(status.history)' <= faults'
    BY <2>1 DEF HistoryKept, DuplicatesPaid
  <2>3. (life = "live" /\ ~fresh) => Duplicates(status.history) + Owed(status, spec) <= faults'
    BY <2>1 DEF HistoryKept, DuplicatesPaid
  <2>. QED
    BY <2>2, <2>3 DEF DuplicatesPaid, Owed
<1>w. WhatIsSaved'
  BY DEF WhatIsSaved
<1>. QED
  BY <1>w, <1>1, <1>2, <1>3 DEF HistoryKept

\* The copy is stored, and the worker goes on with a copy that owes nothing more.
LEMMA StoreKept ==
    ASSUME TypeOK, HistoryKept, pc # "idle", pc' \notin {"idle", "save"}, fresh, status' = mem,
           UNCHANGED <<spec, memSpec, life, fresh, finalizer, faults>>,
           mem'.history = mem.history, mem'.phase = mem.phase,
           mem'.action \in CreateStates <=> mem.action \in CreateStates,
           Duplicates(mem.history) + CopyOwes' <= faults
    PROVE  HistoryKept'
<1>1. PhaseKept'
  BY CreationNames
     DEF HistoryKept, PhaseKept, PhaseOf, ApprovedRecords, NotYetApproved, Initialising
<1>2. LastIsHighest(status)' /\ LastIsHighest(mem)'
  BY DEF HistoryKept, LastIsHighest
<1>3. DuplicatesPaid'
  <2>1. Duplicates(mem.history) \in Int /\ faults \in Nat /\ CopyOwes \in {0, 1}
    BY NumberTypes, RecordedTypes, OwedTypes
  <2>2. Duplicates(mem.history) <= faults
    BY <2>1 DEF HistoryKept, DuplicatesPaid
  <2>. QED
    BY <2>2 DEF DuplicatesPaid
<1>w. WhatIsSaved'
  BY DEF WhatIsSaved
<1>. QED
  BY <1>w, <1>1, <1>2, <1>3 DEF HistoryKept

\* The worker returns, after its last write, a refused one or a crash.
LEMMA ReturnKept ==
    ASSUME TypeOK, HistoryKept, CopyIsBehind, pc # "idle", Return,
           UNCHANGED <<spec, life, finalizer>>,
           \/ fresh /\ pc = "release" /\ status' = mem /\ faults' = faults
           \/ ~fresh /\ status' = status /\ faults' = faults
           \/ status' = status /\ faults' = faults + 1
    PROVE  HistoryKept'
<1>1. /\ mem' = NewStatus /\ pc' = "idle" /\ NewStatus.action = "Empty" /\ NewStatus.phase = ""
      /\ NewStatus.history = <<>> /\ DOMAIN NewStatus.history = {}
  BY NewStatusFields DEF Return, NewStatus
<1>2. PhaseKept'
  <2>1. PhaseOf(mem)' /\ NotYetApproved(mem)'
    BY <1>1, CreationNames DEF PhaseOf, ApprovedRecords, NotYetApproved
  <2>2. PhaseOf(status)' /\ NotYetApproved(status)'
    BY DEF HistoryKept, PhaseKept, PhaseOf, ApprovedRecords, NotYetApproved
  <2>3. Initialising'
    BY <1>1, CreationNames DEF HistoryKept, PhaseKept, Initialising, NotYetApproved
  <2>. QED
    BY <2>1, <2>2, <2>3 DEF PhaseKept
<1>3. LastIsHighest(status)' /\ LastIsHighest(mem)'
  BY <1>1 DEF HistoryKept, LastIsHighest
<1>4. DuplicatesPaid'
  <2>1. /\ Duplicates(mem.history) \in Int /\ Duplicates(status.history) \in Int /\ faults \in Nat
        /\ CopyOwes \in {0, 1}
        /\ \A st, v : Owed(st, v) \in {0, 1}
    BY NumberTypes, RecordedTypes, OwedTypes
  <2>2. CASE fresh /\ pc = "release" /\ status' = mem /\ faults' = faults
    <3>1. CopyOwes = Owed(mem, spec)
      BY <2>2 DEF CopyOwes, CopyIsBehind
    <3>2. Duplicates(mem.history) + Owed(mem, spec) <= faults
      BY <2>2, <3>1 DEF HistoryKept, DuplicatesPaid
    <3>3. Owed(mem, spec) \in {0, 1}
      BY <2>1
    <3>4. Duplicates(mem.history) <= faults
      BY <2>1, <3>2, <3>3
    <3>. QED
      BY <1>1, <2>2, <3>2, <3>4 DEF DuplicatesPaid, Owed
  <2>3. CASE ~fresh /\ status' = status /\ faults' = faults
    BY <1>1, <2>3 DEF HistoryKept, DuplicatesPaid, Owed
  <2>4. CASE status' = status /\ faults' = faults + 1
    <3>1. Owed(status, spec) \in {0, 1} /\ Duplicates(status.history) <= faults
      BY <2>1 DEF HistoryKept, DuplicatesPaid
    <3>2. /\ Duplicates(status.history) <= faults + 1
          /\ Duplicates(status.history) + Owed(status, spec) <= faults + 1
      BY <2>1, <3>1
    <3>. QED
      BY <1>1, <2>4, <3>2 DEF DuplicatesPaid, Owed
  <2>. QED
    BY <2>2, <2>3, <2>4
<1>w. WhatIsSaved'
  BY DEF WhatIsSaved, Return
<1>. QED
  BY <1>w, <1>2, <1>3, <1>4 DEF HistoryKept

\* A single write between two Reconciles.
LEMMA WriteKept ==
    ASSUME TypeOK, HistoryKept, pc = "idle", faults' \in Nat, faults <= faults',
           UNCHANGED <<spec, life, finalizer, pc, mem, memSpec, fresh>>,
           status'.history = status.history, status'.phase = status.phase,
           status'.reconcile = status.reconcile,
           \/ status'.action = status.action
           \/ (finalizer \/ life # "live") /\ status'.action \notin CreateStates \cup {"NewMSRSpec"}
           \/ finalizer /\ status'.action = "NewMSRSpec" /\ spec > LatestVersion(status)
    PROVE  HistoryKept'
<1>1. PhaseKept'
  BY CreationNames
     DEF HistoryKept, PhaseKept, PhaseOf, ApprovedRecords, NotYetApproved, Initialising
<1>2. LastIsHighest(status)' /\ LastIsHighest(mem)'
  BY DEF HistoryKept, LastIsHighest
<1>3. DuplicatesPaid'
  <2>1. Duplicates(status.history) \in Int /\ faults \in Nat /\ \A st, v : Owed(st, v) \in {0, 1}
    BY NumberTypes, RecordedTypes, OwedTypes
  <2>2. spec > LatestVersion(status) => spec \notin RecordedIn(status.history)
    BY NumberTypes, HigherIsNew DEF HistoryKept
  <2>3. Owed(status', spec) = Owed(status, spec) \/ Owed(status', spec) = 0
    BY <2>2, CreationNames DEF Owed, LeadsToRecord, CreateStates
  <2>4. Owed(status', spec) <= Owed(status, spec)
    <3>1. Owed(status, spec) \in {0, 1}
      BY <2>1
    <3>. QED
      BY <2>3, <3>1
  <2>5. life = "live" => Duplicates(status.history) + Owed(status, spec) <= faults
    BY DEF HistoryKept, DuplicatesPaid
  <2>6. life = "live" => Duplicates(status.history) + Owed(status', spec) <= faults'
    <3>1. Owed(status, spec) \in {0, 1} /\ Owed(status', spec) \in {0, 1}
      BY <2>1
    <3>. QED
      BY <2>1, <2>4, <2>5, <3>1
  <2>7. Duplicates(status.history) <= faults'
    BY <2>1 DEF HistoryKept, DuplicatesPaid
  <2>. QED
    BY <2>6, <2>7 DEF DuplicatesPaid, Owed
<1>w. WhatIsSaved'
  BY DEF WhatIsSaved
<1>. QED
  BY <1>w, <1>1, <1>2, <1>3 DEF HistoryKept

\* The lock is taken for the action of the status, or for the first one of creation.
LEMMA AcquireKept ==
    ASSUME TypeOK, HistoryKept, NEW a \in ActionStates, AcquireLock(a),
           \/ a = status.action
           \/ a = "GitPushMSR" /\ status.action = "Empty" /\ ~finalizer,
           ~finalizer => a \in CreateStates
    PROVE  HistoryKept'
<1>1. /\ status'.action = a /\ mem' = status' /\ memSpec' = spec /\ fresh'
      /\ status'.history = status.history /\ status'.phase = status.phase
      /\ status'.reconcile = status.reconcile
      /\ pc = "idle" /\ pc' = "handler" /\ life = "live"
      /\ UNCHANGED <<spec, life, finalizer, faults>>
  BY DEF AcquireLock, TypeOK, MSRStatus
<1>2. PhaseKept'
  BY <1>1, CreationNames
     DEF HistoryKept, PhaseKept, PhaseOf, ApprovedRecords, NotYetApproved, Initialising
<1>3. LastIsHighest(status)' /\ LastIsHighest(mem)'
  BY <1>1 DEF HistoryKept, LastIsHighest
<1>4. DuplicatesPaid'
  <2>1. Duplicates(status.history) + Owed(status, spec) <= faults /\ Duplicates(status.history) <= faults
    BY <1>1 DEF HistoryKept, DuplicatesPaid
  <2>2. Duplicates(mem'.history) + Owed(mem', spec) <= faults
    <3>1. CASE a = status.action
      BY <1>1, <2>1, <3>1 DEF Owed, LeadsToRecord
    <3>2. CASE a = "GitPushMSR" /\ status.action = "Empty" /\ ~finalizer
      <4>1. status.history = <<>>
        BY <1>1, <3>2 DEF HistoryKept, PhaseKept, Initialising
      <4>2. spec \notin RecordedIn(mem'.history)
        BY <1>1, <4>1 DEF RecordedIn
      <4>3. Owed(mem', spec) = 0 /\ Duplicates(status.history) \in Int
        BY <4>2, NumberTypes, RecordedTypes DEF Owed
      <4>. QED
        BY <1>1, <2>1, <4>3
    <3>. QED
      BY <3>1, <3>2
  <2>. QED
    BY <1>1, <2>1, <2>2 DEF DuplicatesPaid, CopyOwes
<1>w. WhatIsSaved'
  BY <1>1 DEF WhatIsSaved
<1>. QED
  BY <1>w, <1>2, <1>3, <1>4 DEF HistoryKept

\* A record is added to the copy; if its version has one, the copy owed it.
LEMMA RecordKept ==
    ASSUME TypeOK, HistoryKept, RecordedVersions, pc = "handler", pc' = "save",
           UNCHANGED <<status, spec, memSpec, life, fresh, finalizer, faults>>,
           mem'.history = Append(mem.history, NewRecord), mem'.action = mem.action,
           mem'.phase # "Approved", LeadsToRecord(mem),
           mem.action \in {"UpdateAfterGitPush", "NewMSRSpec"}
    PROVE  HistoryKept'
<1>1. mem.history \in Seq(HistoryRecord) /\ NewRecord \in HistoryRecord
      /\ NewRecord.version = memSpec /\ NewRecord.signers = {} /\ memSpec \in Nat
  BY NumberTypes DEF NewRecord
<1>. DEFINE h == mem.history
            k == mem'.history
<1>2. /\ DOMAIN k = DOMAIN h \cup {Len(h) + 1} /\ \A i \in DOMAIN h : k[i] = h[i]
      /\ k[Len(h) + 1] = NewRecord /\ Len(k) = Len(h) + 1 /\ Last(k) = NewRecord
  BY <1>1, AppendRecord
<1>3. PhaseKept'
  <2>1. PhaseOf(mem)'
    BY <1>1, <1>2 DEF PhaseOf, ApprovedRecords
  <2>. QED
    BY <2>1 DEF HistoryKept, PhaseKept, PhaseOf, ApprovedRecords, NotYetApproved, Initialising
<1>4. LastIsHighest(status)'
  BY DEF HistoryKept, LastIsHighest
<1>5. LastIsHighest(mem)'
  <2>1. \A i \in DOMAIN h : h[i].version <= memSpec
    BY DEF RecordedVersions
  <2>. QED
    BY <1>1, <1>2, <2>1 DEF LastIsHighest
<1>6. DuplicatesPaid'
  <2>1. fresh => Duplicates(h) + Owed(mem, memSpec) <= faults
    BY DEF HistoryKept, DuplicatesPaid, CopyOwes
  <2>2. Duplicates(k) = Duplicates(h) + Owed(mem, memSpec) /\ Duplicates(h) \in Int
    BY <1>1, DuplicatesOfAppend, RecordedTypes DEF Owed
  <2>3. CopyOwes' = 0
    BY DEF CopyOwes
  <2>4. Owed(mem, memSpec) \in Int /\ faults \in Nat
    BY OwedTypes, NumberTypes
  <2>5. fresh => Duplicates(k) + CopyOwes' <= faults
    BY <2>1, <2>2, <2>3, <2>4
  <2>. QED
    BY <2>5 DEF HistoryKept, DuplicatesPaid, Owed
<1>w. WhatIsSaved'
  BY DEF WhatIsSaved
<1>. QED
  BY <1>w, <1>3, <1>4, <1>5, <1>6 DEF HistoryKept

\* The last record is signed, and the phase says so.
LEMMA ApproveKept ==
    ASSUME IInv, HistoryKept, CheckSignaturesApprove
    PROVE  HistoryKept'
<1>. DEFINE S == signed[memSpec] \cap Governors
            h == mem.history
            k == mem'.history
<1>1. /\ pc = "handler" /\ pc' = "save" /\ mem.action = "MSRRulesFulfillment"
      /\ Fulfilled(signed[memSpec])
      /\ UNCHANGED <<spec, status, life, finalizer, memSpec, fresh, faults>>
  BY DEF CheckSignaturesApprove, InHandler, ToSaveStatus, cluster
<1>2. h \in Seq(HistoryRecord) /\ S \in SUBSET Governors
  BY StatusFields DEF IInv, TypeOK
<1>3. h # <<>>
  BY <1>1 DEF IInv, LatestIsRecorded
<1>4. mem'.action = mem.action /\ mem'.phase = "Approved" /\ k = SignLast(h, S)
  BY <1>3 DEF CheckSignaturesApprove, ToSaveStatus, IInv, TypeOK, MSRStatus, SignLast
<1>5. S # {}
  BY <1>1, NoFreeQuorum DEF NoFreeQuorum, Fulfilled
<1>. HIDE DEF S, h, k
<1>6. /\ DOMAIN k = DOMAIN h /\ Len(h) \in DOMAIN h /\ Len(k) = Len(h)
      /\ \A i \in DOMAIN h : k[i].version = h[i].version
      /\ k[Len(h)].signers = S /\ Last(k).version = Last(h).version
      /\ Duplicates(k) = Duplicates(h)
  <2>1. k \in Seq(HistoryRecord) /\ DOMAIN k = DOMAIN h
    BY <1>2, <1>3, <1>4, SignLastRecord
  <2>2. Len(k) = Len(h)
    BY <1>2, <2>1
  <2>3. Duplicates(k) = Duplicates(h)
    BY <1>2, <1>3, <1>4, DuplicatesOfSignLast
  <2>. QED
    BY <1>2, <1>3, <1>4, <2>1, <2>2, <2>3, SignLastRecord
<1>7. PhaseKept'
  <2>1. PhaseOf(mem)'
    BY <1>4, <1>5, <1>6 DEF PhaseOf, ApprovedRecords, k
  <2>2. NotYetApproved(mem)'
    BY <1>1, <1>4, CreationNames DEF NotYetApproved
  <2>. QED
    BY <1>1, <1>4, <2>1, <2>2
       DEF HistoryKept, PhaseKept, PhaseOf, ApprovedRecords, NotYetApproved, Initialising
<1>8. LastIsHighest(status)'
  BY <1>1 DEF HistoryKept, LastIsHighest
<1>9. LastIsHighest(mem)'
  BY <1>6 DEF HistoryKept, LastIsHighest, h, k
<1>10. DuplicatesPaid'
  <2>1. fresh => Duplicates(h) + Owed(mem, memSpec) <= faults
    BY <1>1 DEF HistoryKept, DuplicatesPaid, CopyOwes, h
  <2>2. Owed(mem, memSpec) \in {0, 1} /\ faults \in Nat /\ Duplicates(h) \in Int /\ CopyOwes' = 0
    BY <1>1, <1>2, OwedTypes, NumberTypes, RecordedTypes DEF IInv, CopyOwes
  <2>3. fresh => Duplicates(k) + CopyOwes' <= faults
    BY <1>6, <2>1, <2>2
  <2>. QED
    BY <1>1, <2>3 DEF HistoryKept, DuplicatesPaid, Owed, k
<1>w. WhatIsSaved'
  BY <1>1, <1>4 DEF WhatIsSaved
<1>. QED
  BY <1>w, <1>7, <1>8, <1>9, <1>10 DEF HistoryKept

-----------------------------------------------------------------------------
(***************************************************************************)
(* The invariant                                                           *)
(***************************************************************************)

LEMMA HInvInit == Init => HInv
<1>. SUFFICES ASSUME Init PROVE HInv
  OBVIOUS
<1>1. status = NewStatus /\ mem = NewStatus /\ pc = "idle" /\ faults = 0
  BY DEF Init
<1>2. NewStatus.action = "Empty" /\ NewStatus.phase = "" /\ NewStatus.history = <<>>
      /\ DOMAIN NewStatus.history = {}
  BY NewStatusFields DEF NewStatus
<1>3. PhaseKept /\ WhatIsSaved
  BY <1>1, <1>2, CreationNames
     DEF PhaseKept, WhatIsSaved, PhaseOf, ApprovedRecords, NotYetApproved, Initialising
<1>4. LastIsHighest(status) /\ LastIsHighest(mem)
  BY <1>1, <1>2 DEF LastIsHighest
<1>5. DuplicatesPaid
  <2>1. RecordedIn(NewStatus.history) = {}
    BY <1>2 DEF RecordedIn
  <2>2. Duplicates(NewStatus.history) = 0
    <3>1. Cardinality(RecordedIn(NewStatus.history)) = 0
      BY <2>1, FS_EmptySet
    <3>2. Len(NewStatus.history) = 0
      <4>1. Len(<<>>) = 0
        OBVIOUS
      <4>. QED
        BY <1>2, <4>1
    <3>. QED
      BY <3>1, <3>2 DEF Duplicates
  <2>3. Owed(NewStatus, spec) = 0
    BY <2>1 DEF Owed
  <2>. QED
    BY <1>1, <2>2, <2>3 DEF DuplicatesPaid
<1>. QED
  BY <1>3, <1>4, <1>5, InvInit DEF HInv, HistoryKept

\* A step elsewhere.
LEMMA HistoryStutter ==
    ASSUME HistoryKept,
           UNCHANGED <<spec, status, life, finalizer, pc, mem, memSpec, fresh, faults>>
    PROVE  HistoryKept'
<1>1. PhaseKept' /\ WhatIsSaved' /\ LastIsHighest(status)' /\ LastIsHighest(mem)'
  BY DEF HistoryKept, PhaseKept, PhaseOf, ApprovedRecords, NotYetApproved, Initialising,
     WhatIsSaved, LastIsHighest
<1>2. DuplicatesPaid'
  BY DEF HistoryKept, DuplicatesPaid, CopyOwes, Owed
<1>. QED
  BY <1>1, <1>2 DEF HistoryKept

\* Each step is of one of these kinds.
LEMMA HistoryStep ==
    ASSUME IInv, HistoryKept, Next
    PROVE  HistoryKept'
<1>t. TypeOK /\ CopyIsBehind /\ RecordedVersions
  BY DEF IInv
<1>s. /\ status \in MSRStatus /\ mem \in MSRStatus /\ faults \in Nat
      /\ Duplicates(mem.history) \in Int /\ Duplicates(status.history) \in Int
      /\ \A st, v : Owed(st, v) \in {0, 1}
  BY <1>t, NumberTypes, RecordedTypes, OwedTypes
<1>d. /\ (pc # "idle" /\ fresh) => Duplicates(mem.history) + CopyOwes <= faults
      /\ (pc # "idle" /\ fresh) => Duplicates(mem.history) <= faults
  <2>1. CopyOwes \in {0, 1}
    BY OwedTypes
  <2>. QED
    BY <1>s, <2>1 DEF HistoryKept, DuplicatesPaid
<1>i. /\ NotYetApproved(mem) /\ NotYetApproved(status)
      /\ (life = "live" /\ ~finalizer) =>
             (status.action \in CreateStates \cup {"Empty"} /\ (pc # "idle" => mem.action \in CreateStates))
  BY DEF HistoryKept, PhaseKept, Initialising
<1>1. CASE LockTimeout
  <2>1. status' = [status EXCEPT !.progressing = FALSE] /\ pc = "idle"
        /\ UNCHANGED <<spec, life, finalizer, pc, mem, memSpec, fresh, faults>>
    BY <1>1 DEF LockTimeout, WriteStatus, worker
  <2>2. status'.history = status.history /\ status'.phase = status.phase
        /\ status'.reconcile = status.reconcile /\ status'.action = status.action
    BY <1>s, <2>1 DEF MSRStatus
  <2>. QED
    BY <1>t, <1>s, <2>1, <2>2, WriteKept
<1>2. CASE DetectNewVersion \/ DetectInProgress \/ ResetAction
  <2>1. PICK a \in {"NewMSRSpec", "MSRRulesFulfillment", "Empty"} :
            /\ status' = [status EXCEPT !.action = a]
            /\ a = "NewMSRSpec" => spec > LatestVersion(status)
    BY <1>2 DEF DetectNewVersion, DetectInProgress, ResetAction, WriteStatus
  <2>2. pc = "idle" /\ finalizer /\ UNCHANGED <<spec, life, finalizer, pc, mem, memSpec, fresh, faults>>
    BY <1>2 DEF DetectNewVersion, DetectInProgress, ResetAction, WriteStatus, worker
  <2>3. status'.history = status.history /\ status'.phase = status.phase
        /\ status'.reconcile = status.reconcile /\ status'.action = a
    BY <1>s, <2>1 DEF MSRStatus
  <2>. QED
    BY <1>t, <1>s, <2>1, <2>2, <2>3, WriteKept, CreationNames
<1>3. CASE ReconcileDeleteFails
  <2>1. status' = [status EXCEPT !.action = "Deletion", !.progressing = FALSE] /\ pc = "idle"
        /\ life # "live" /\ faults' = faults + 1
        /\ UNCHANGED <<spec, life, finalizer, pc, mem, memSpec, fresh>>
    BY <1>3 DEF ReconcileDeleteFails, worker
  <2>2. status'.history = status.history /\ status'.phase = status.phase
        /\ status'.reconcile = status.reconcile /\ status'.action = "Deletion"
    BY <1>s, <2>1 DEF MSRStatus
  <2>3. faults' \in Nat /\ faults <= faults'
    BY <1>s, <2>1
  <2>. QED
    BY <1>t, <2>1, <2>2, <2>3, WriteKept, CreationNames
<1>4. CASE ReconcileCreate \/ ReconcileNewMSRSpec \/ ReconcileMSRRulesFulfillment
  <2>1. PICK a \in ActionStates :
            /\ AcquireLock(a)
            /\ \/ a = status.action
               \/ a = "GitPushMSR" /\ status.action = "Empty" /\ ~finalizer
            /\ ~finalizer => a \in CreateStates
    BY <1>s, <1>4, StateNames, CreationNames, StatusFields
       DEF ReconcileCreate, ReconcileNewMSRSpec, ReconcileMSRRulesFulfillment
  <2>. QED
    BY <1>t, <2>1, AcquireKept
<1>5. CASE UpdateAfterGitPush \/ ReconcileUpdateAfterGitPush
  <2>1. /\ pc = "handler" /\ pc' = "save"
        /\ UNCHANGED <<status, spec, memSpec, life, fresh, finalizer, faults>>
    BY <1>5 DEF UpdateAfterGitPush, ReconcileUpdateAfterGitPush, InHandler, ToSaveStatus, cluster
  <2>2. mem'.history = Append(mem.history, NewRecord) /\ mem'.action = mem.action
    BY <1>s, <1>5 DEF UpdateAfterGitPush, ReconcileUpdateAfterGitPush, ToSaveStatus, MSRStatus
  <2>3. LeadsToRecord(mem) /\ mem.action \in {"UpdateAfterGitPush", "NewMSRSpec"}
    BY <1>5, CreationNames
       DEF UpdateAfterGitPush, ReconcileUpdateAfterGitPush, InHandler, LeadsToRecord
  <2>4. CASE UpdateAfterGitPush
    <3>1. mem.phase # "Approved"
      BY <1>i, <2>4, CreationNames DEF UpdateAfterGitPush, InHandler, NotYetApproved
    <3>2. mem'.phase = mem.phase
      BY <1>s, <2>4 DEF UpdateAfterGitPush, ToSaveStatus, MSRStatus
    <3>. QED
      BY <1>t, <2>1, <2>2, <2>3, <3>1, <3>2, RecordKept
  <2>5. CASE ReconcileUpdateAfterGitPush
    <3>1. mem'.phase = "InProgress"
      BY <1>s, <2>5 DEF ReconcileUpdateAfterGitPush, ToSaveStatus, MSRStatus
    <3>. QED
      BY <1>t, <2>1, <2>2, <2>3, <3>1, RecordKept
  <2>. QED
    BY <1>5, <2>4, <2>5
<1>6. CASE CheckSignaturesApprove
  BY <1>6, ApproveKept
<1>7. CASE \/ GitCommit \/ GovernorQubmangoSignature \/ InitSetFinalizer
           \/ CheckSignaturesNotFound \/ AbortRules
           \/ UpdateMCASpec /\ ~MCAUpdateAllowed
  <2>1. /\ pc = "handler" /\ pc' = "release"
        /\ UNCHANGED <<status, spec, memSpec, life, fresh, faults>>
        /\ finalizer' = finalizer \/ finalizer'
    BY <1>7
       DEF GitCommit, GovernorQubmangoSignature, InitSetFinalizer, CheckSignaturesNotFound, AbortRules,
           UpdateMCASpec, InHandler, PushMSR, ToRelease, cluster
  <2>2. /\ mem'.history = mem.history /\ mem'.phase = mem.phase /\ mem'.reconcile = mem.reconcile
        /\ \/ mem'.action = mem.action
           \/ GitCommit /\ mem.action = "GitPushMSR" /\ mem'.action = "GovernorQubmangoSignature"
           \/ GovernorQubmangoSignature /\ mem.action = "GovernorQubmangoSignature"
                  /\ mem'.action = "UpdateAfterGitPush"
           \/ (finalizer' \/ mem.action \notin CreateStates) /\ mem'.action = "Empty"
    BY <1>s, <1>7, CreationNames
       DEF GitCommit, GovernorQubmangoSignature, InitSetFinalizer, CheckSignaturesNotFound, AbortRules,
           UpdateMCASpec, InHandler, ToRelease, MSRStatus
  <2>3. /\ mem'.action \in CreateStates => mem.action \in CreateStates
        /\ mem.action \in CreateStates => (mem'.action \in CreateStates \/ finalizer')
        /\ LeadsToRecord(mem') => LeadsToRecord(mem)
    BY <2>2 DEF LeadsToRecord, CreateStates
  <2>4. CopyOwes' <= CopyOwes
    BY <1>s, <2>1, <2>2, <2>3 DEF CopyOwes, Owed
  <2>5. fresh => Duplicates(mem.history) + CopyOwes' <= faults
    <3>1. CopyOwes \in {0, 1} /\ CopyOwes' \in {0, 1}
      BY OwedTypes DEF CopyOwes, Owed
    <3>. QED
      BY <1>s, <1>d, <2>1, <2>4, <3>1
  <2>. QED
    BY <1>t, <1>s, <1>i, <2>1, <2>2, <2>3, <2>5, CopyKept
<1>8. CASE \/ ReconcileGitCommit \/ ReconcileNotifyGovernors \/ CheckSignaturesAbort
           \/ UpdateMCASpec /\ MCAUpdateAllowed
  <2>1. /\ pc = "handler" /\ pc' = "substate"
        /\ UNCHANGED <<status, spec, memSpec, life, fresh, faults, finalizer>>
        /\ mem.action \in {"NewMSRSpec", "MSRRulesFulfillment"}
    BY <1>8
       DEF ReconcileGitCommit, ReconcileNotifyGovernors, CheckSignaturesAbort, UpdateMCASpec, InHandler,
           PushMSR, ToSubstate, cluster
  <2>2. /\ mem'.history = mem.history /\ mem'.phase = mem.phase /\ mem'.action = mem.action
        /\ \/ mem'.reconcile = mem.reconcile
           \/ mem.reconcile = "Empty"
           \/ mem'.reconcile = "Empty"
    BY <1>s, <1>8
       DEF ReconcileGitCommit, ReconcileNotifyGovernors, CheckSignaturesAbort, UpdateMCASpec, InHandler,
           ToSubstate, MSRStatus
  <2>3. fresh => Duplicates(mem.history) + CopyOwes' <= faults
    <3>1. CASE mem'.action = "NewMSRSpec" /\ mem'.reconcile = "Empty"
      <4>1. CopyOwes' = 0
        BY <2>1, <3>1 DEF CopyOwes
      <4>. QED
        BY <1>s, <1>d, <2>1, <4>1
    <3>2. CASE ~(mem'.action = "NewMSRSpec" /\ mem'.reconcile = "Empty")
      <4>1. LeadsToRecord(mem') => LeadsToRecord(mem)
        BY <2>1, <2>2, <3>2, CreationNames DEF LeadsToRecord
      <4>2. CopyOwes' <= CopyOwes
        BY <2>1, <2>2, <4>1 DEF CopyOwes, Owed
      <4>3. CopyOwes \in {0, 1} /\ CopyOwes' \in {0, 1}
        BY OwedTypes DEF CopyOwes, Owed
      <4>. QED
        BY <1>s, <1>d, <2>1, <4>2, <4>3
    <3>. QED
      BY <3>1, <3>2
  <2>. QED
    BY <1>t, <1>s, <1>i, <2>1, <2>2, <2>3, CopyKept
<1>9. CASE CallFails
  <2>1. /\ pc # "idle" /\ pc' = "release" /\ faults' = faults + 1
        /\ UNCHANGED <<status, spec, memSpec, life, fresh, finalizer>>
        /\ mem'.history = mem.history /\ mem'.phase = mem.phase /\ mem'.action = mem.action
    BY <1>s, <1>9 DEF CallFails, ToRelease, cluster, MSRStatus
  <2>2. CopyOwes' \in {0, 1}
    BY DEF CopyOwes, Owed
  <2>3. fresh => Duplicates(mem.history) + CopyOwes' <= faults'
    BY <1>s, <1>d, <2>1, <2>2
  <2>4. faults' \in Nat /\ faults <= faults'
    BY <1>s, <2>1
  <2>. QED
    BY <1>t, <1>i, <2>1, <2>3, <2>4, CopyKept
<1>10. CASE SaveStatus /\ fresh
  <2>1. /\ pc = "save" /\ pc' \in {"release", "substate"} /\ status' = mem
        /\ UNCHANGED <<spec, memSpec, life, fresh, finalizer, faults>>
    BY <1>10 DEF SaveStatus, ToRelease, ToSubstate
  <2>2. mem.action \in {"UpdateAfterGitPush", "NewMSRSpec", "MSRRulesFulfillment"}
    BY <2>1 DEF HistoryKept, WhatIsSaved
  <2>3. /\ mem'.history = mem.history /\ mem'.phase = mem.phase
        /\ \/ mem.action = "UpdateAfterGitPush" /\ mem'.action = "InitSetFinalizer"
           \/ mem.action = "NewMSRSpec" /\ mem'.action = "NewMSRSpec" /\ mem'.reconcile = "NotifyGovernors"
           \/ mem.action = "MSRRulesFulfillment" /\ mem'.action = "MSRRulesFulfillment"
    BY <1>s, <1>10, <2>2 DEF SaveStatus, ToRelease, ToSubstate, MSRStatus
  <2>4. CopyOwes' = 0
    BY <2>3, CreationNames DEF CopyOwes, Owed, LeadsToRecord
  <2>5. Duplicates(mem.history) + CopyOwes' <= faults
    BY <1>s, <1>d, <1>10, <2>1, <2>4
  <2>. QED
    BY <1>t, <1>10, <2>1, <2>3, <2>5, StoreKept, CreationNames
<1>11. CASE (SaveStatus \/ SaveSubstate) /\ ~fresh
  <2>1. /\ pc # "idle" /\ pc' = "release"
        /\ UNCHANGED <<status, spec, memSpec, life, fresh, finalizer, faults>>
        /\ mem'.history = mem.history /\ mem'.phase = mem.phase /\ mem'.action = mem.action
    BY <1>s, <1>11 DEF SaveStatus, SaveSubstate, ToRelease, MSRStatus
  <2>. QED
    BY <1>t, <1>s, <1>i, <1>11, <2>1, CopyKept
<1>12. CASE SaveSubstate /\ fresh
  <2>1. /\ pc = "substate" /\ pc' = "release" /\ status' = mem
        /\ UNCHANGED <<spec, memSpec, life, fresh, finalizer, faults>>
        /\ mem'.history = mem.history /\ mem'.phase = mem.phase /\ mem'.reconcile = mem.reconcile
        /\ mem'.action = NextAction(mem)
    BY <1>s, <1>12, CreationNames DEF SaveSubstate, ToRelease, MSRStatus, NextAction
  <2>2. mem'.action \in CreateStates <=> mem.action \in CreateStates
    BY <2>1, CreationNames DEF NextAction
  <2>3. CopyOwes' = CopyOwes \/ CopyOwes' = 0
    <3>1. CASE mem.action = "NewMSRSpec" /\ mem.reconcile = "Empty"
      BY <2>1, <3>1, CreationNames DEF NextAction, CopyOwes, Owed, LeadsToRecord
    <3>2. CASE ~(mem.action = "NewMSRSpec" /\ mem.reconcile = "Empty")
      <4>1. mem'.action = mem.action \/ mem'.action = "Empty"
        BY <2>1 DEF NextAction
      <4>. QED
        BY <2>1, <3>2, <4>1, CreationNames DEF CopyOwes, Owed, LeadsToRecord
    <3>. QED
      BY <3>1, <3>2
  <2>4. Duplicates(mem.history) + CopyOwes' <= faults
    BY <1>s, <1>d, <1>12, <2>1, <2>3
  <2>. QED
    BY <1>t, <1>12, <2>1, <2>2, <2>4, StoreKept
<1>13. CASE ReleaseLock \/ Crash
  <2>1. /\ pc # "idle" /\ Return /\ UNCHANGED <<spec, life, finalizer>>
        /\ \/ fresh /\ pc = "release" /\ status' = mem /\ faults' = faults
           \/ ~fresh /\ status' = status /\ faults' = faults
           \/ status' = status /\ faults' = faults + 1
    BY <1>13 DEF ReleaseLock, Crash, cluster
  <2>. QED
    BY <1>t, <2>1, ReturnKept
<1>14. CASE ReconcileDelete
  <2>1. /\ pc = "idle" /\ life' = "gone"
        /\ UNCHANGED <<spec, status, pc, mem, memSpec, fresh, faults>>
    BY <1>14 DEF ReconcileDelete, worker
  <2>. QED
    BY <2>1 DEF HistoryKept, PhaseKept, PhaseOf, ApprovedRecords, NotYetApproved, Initialising,
       WhatIsSaved, LastIsHighest, DuplicatesPaid, Owed
<1>15. CASE UpdateMSRSpec
  <2>1. /\ spec' = spec + 1 /\ ~fresh'
        /\ UNCHANGED <<status, life, finalizer, pc, mem, memSpec, faults>>
    BY <1>15 DEF UpdateMSRSpec
  <2>2. spec + 1 \notin RecordedIn(status.history)
    <3>1. \A i \in DOMAIN status.history : status.history[i].version <= spec
      BY <1>t DEF RecordedVersions
    <3>. QED
      BY <1>t, <3>1, NumberTypes DEF RecordedIn
  <2>3. Owed(status, spec)' = 0
    BY <2>1, <2>2 DEF Owed
  <2>4. DuplicatesPaid'
    BY <1>s, <2>1, <2>3 DEF HistoryKept, DuplicatesPaid
  <2>. QED
    BY <2>1, <2>4 DEF HistoryKept, PhaseKept, PhaseOf, ApprovedRecords, NotYetApproved,
       Initialising, WhatIsSaved, LastIsHighest
<1>16. CASE DeleteMSR
  <2>1. /\ life' # "live" /\ ~fresh'
        /\ UNCHANGED <<spec, status, finalizer, pc, mem, memSpec, faults>>
    BY <1>16 DEF DeleteMSR
  <2>. QED
    BY <2>1 DEF HistoryKept, PhaseKept, PhaseOf, ApprovedRecords, NotYetApproved, Initialising,
       WhatIsSaved, LastIsHighest, DuplicatesPaid
<1>17. CASE \/ ReconcileNotFound \/ OtherCommit
            \/ \E g \in Governors, v \in Versions : GovernorSigns(g, v)
  <2>1. UNCHANGED <<spec, status, life, finalizer, pc, mem, memSpec, fresh, faults>>
    BY <1>17 DEF ReconcileNotFound, OtherCommit, GovernorSigns, vars, cluster, worker
  <2>. QED
    BY <2>1, HistoryStutter
<1>. QED
  BY <1>1, <1>2, <1>3, <1>4, <1>5, <1>6, <1>7, <1>8, <1>9, <1>10, <1>11, <1>12, <1>13, <1>14,
     <1>15, <1>16, <1>17 DEF Next, Reconcile, Handler, Environment

LEMMA HInvNext == HInv /\ [Next]_vars => HInv'
<1>1. HInv /\ Next => HInv'
  BY InvNext, HistoryStep DEF HInv
<1>2. HInv /\ UNCHANGED vars => HInv'
  BY InvNext, HistoryStutter DEF HInv, vars, cluster, worker
<1>. QED
  BY <1>1, <1>2

\* The inductive invariant of the records holds in every reachable state.
THEOREM HistoryInvariant == Spec => []HInv
<1>. QED
  BY HInvInit, HInvNext, PTL DEF Spec

\* What the phase says it says of the last record, which is of the highest version
\* recorded: a new request is never taken for approved, and an approved one never
\* for open (CheckSignatures and ReconcileUpdateAfterGitPush set both in one write).
THEOREM PhaseCorrect == Spec => []PhaseOfLatestRecord
<1>1. HInv => PhaseOfLatestRecord
  BY DEF HInv, HistoryKept, PhaseKept, PhaseOf, PhaseOfLatestRecord
<1>. QED
  BY <1>1, HistoryInvariant, PTL

\* However many faults there are, no more records repeat a version than calls failed
\* or crashed: without a fault every version is recorded once.
THEOREM DuplicatesCorrect == Spec => []DuplicatesNeedFaults
<1>1. HInv => DuplicatesNeedFaults
  BY DEF HInv, HistoryKept, DuplicatesPaid, Duplicates, RecordedIn, DuplicatesNeedFaults
<1>. QED
  BY <1>1, HistoryInvariant, PTL
=============================================================================
