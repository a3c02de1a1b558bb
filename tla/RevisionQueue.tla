---------------------------- MODULE RevisionQueue ----------------------------
(***************************************************************************)
(* The revision queue: the normal path of the ManifestRequestTemplate      *)
(* (MRT) controller and the GovernanceQueue controller,                    *)
(* kubernetes/internal/controller/manifestrequesttemplate_controller.go    *)
(* and governancequeue_controller.go.                                      *)
(*                                                                         *)
(* An initialised MRT polls its git repository.  For a HEAD it has not     *)
(* observed it creates a GovernanceEvent; the queue controller copies the  *)
(* events, sorted by creation second, into the queue's status; the MRT     *)
(* controller takes the head of that queue through Preflight, UpdateMSR    *)
(* and Finish, one Reconcile each.  The queue is patched asynchronously,   *)
(* so its head may name an event that is deleted already.                  *)
(*                                                                         *)
(* Commits of the one monitored branch are numbered in order; a commit is  *)
(* the content of the governed files at that commit.                       *)
(***************************************************************************)
EXTENDS Integers, FiniteSets, SequencesExt

CONSTANTS
    Trees,          \* what a commit may hold: the governed manifest "app", and
                    \* "mrt", the manifest of the MRT itself
    FirstTree,      \* the files at the commit that created the MRT
    Rejected,       \* MRT manifests with an old version or a changed immutable field
    SameSecond,     \* whether two events may be created within one second
    MaxCommits,     \* bound: commits by developers
    MaxMishaps      \* bound: crashes, failed calls, edits of the MRT, equal seconds

Files == {"app", "mrt"}

ASSUME ContentAssumption ==
    /\ \A tree \in Trees : DOMAIN tree = Files
    /\ FirstTree \in Trees
    /\ FirstTree.mrt \notin Rejected
ASSUME SecondAssumption == SameSecond \in BOOLEAN
ASSUME BoundAssumption == MaxCommits \in Nat /\ MaxMishaps \in Nat

VARIABLES
    log,        \* the monitored branch: the tree of every commit
    events,     \* creation second of every GovernanceEvent, by revision
    queue,      \* GovernanceQueue.status.queue: revisions of its events
    status,     \* mrt.status as stored by the API server
    pc,         \* next call of the worker, "idle" outside Reconcile
    mem,        \* status of the worker's copy of the MRT
    fresh,      \* the copy still has the stored resourceVersion
    revision,   \* revision read from the head of the queue
    base,       \* mca.spec.commitSha read by UpdateMSR
    msr,        \* version, commit, previous commit and changes of msr.spec
    published,  \* last MSR version the MSR controller pushed
    mca,        \* mca.spec.commitSha
    approved,   \* commits of mca.status.approvalHistory
    commits,    \* commits by developers so far
    mishaps     \* mishaps so far

worker == <<pc, mem, fresh, revision, base>>
requests == <<msr, published, mca, approved>>
vars == <<log, events, queue, status, worker, requests, commits, mishaps>>

-----------------------------------------------------------------------------

Revisions == 1 .. Len(log)

\* Mutant: one commit too far.
RemoteHeadAndOne == Len(log) + 1

RemoteHead == Len(log)

\* GetChangedFiles over the filtered paths: the files that differ, as they are at to.
ChangedFiles(from, to) ==
    {<<f, log[to][f]>> : f \in {g \in Files : log[from][g] # log[to][g]}}

ActionStates == {"Empty", "NewRevision", "InitSetFinalizer"}
RevisionStates == {"Empty", "UpdateMSRSpec", "AfterMSRUpdate", "Abort"}

MRTStatus == [action : ActionStates, progressing : BOOLEAN,
              revState : RevisionStates, observed : Nat]

NewStatus == [action |-> "Empty", progressing |-> FALSE,
              revState |-> "Empty", observed |-> 0]

\* Every order sort.Slice may leave the listed events in: the list comes from a
\* map, and creation timestamps have a resolution of one second.
SortedEvents ==
    {q \in SetToSeqs(DOMAIN events) :
        \A i, j \in DOMAIN q : i < j => events[q[i]] <= events[q[j]]}

\* The initialised MRT; a crash may have left the last state of the creation.
Init ==
    /\ log = <<FirstTree>>
    /\ events = <<>>
    /\ queue = <<>>
    /\ \/ status = NewStatus
       \/ status = [NewStatus EXCEPT !.action = "InitSetFinalizer",
                                     !.progressing = TRUE]
    /\ pc = "idle" /\ mem = NewStatus /\ fresh = FALSE /\ revision = 0 /\ base = 0
    /\ msr = [version |-> 0, commit |-> 1, previous |-> 0,
              changes |-> {<<f, FirstTree[f]>> : f \in Files}]
    /\ published = 0
    /\ mca = 1
    /\ approved = {1}
    /\ commits = 0
    /\ mishaps = 0

Mishap == mishaps < MaxMishaps /\ mishaps' = mishaps + 1

Return ==
    /\ pc' = "idle" /\ mem' = NewStatus /\ fresh' = FALSE
    /\ revision' = 0 /\ base' = 0

\* A single Status().Update on the object just read.
WriteStatus(st) ==
    /\ pc = "idle"
    /\ status' = st
    /\ UNCHANGED <<log, events, queue, worker, requests, commits, mishaps>>

\* The worker goes on with its copy changed to st.
Continue(next, st) ==
    /\ pc' = next /\ mem' = st
    /\ UNCHANGED fresh

ToRelease(st, nextAction) ==
    Continue("release", [st EXCEPT !.action = nextAction, !.progressing = FALSE])

(***************************************************************************)
(* reconcileNormal                                                         *)
(***************************************************************************)

\* isLockForMoreThan(30s): the lock outlived the Reconcile that took it.
LockTimeout ==
    /\ status.progressing
    /\ WriteStatus([status EXCEPT !.progressing = FALSE])

\* anyRevisionEvents: the queue is not empty.
StartNewRevision ==
    /\ ~status.progressing /\ status.action = "Empty"
    /\ queue # <<>>
    /\ WriteStatus([status EXCEPT !.action = "NewRevision"])

\* The second of a new event: later than that of all others, or equal to the last.
Latest(second) == \A r \in DOMAIN events : events[r] <= second
NewSecond ==
    IF events = <<>> THEN 0
    ELSE 1 + (CHOOSE s \in {events[r] : r \in DOMAIN events} : Latest(s))

CreateNewRevisionEvent(second) ==
    events' = [r \in DOMAIN events \cup {RemoteHead} |->
                  IF r = RemoteHead THEN second ELSE events[r]]

CheckForNewCommits ==
    /\ pc = "idle"
    /\ ~status.progressing /\ status.action = "Empty"
    /\ queue = <<>>
    /\ RemoteHead # status.observed /\ RemoteHead \notin DOMAIN events
    /\ \/ CreateNewRevisionEvent(NewSecond) /\ UNCHANGED mishaps
       \/ SameSecond /\ events # <<>> /\ CreateNewRevisionEvent(NewSecond - 1) /\ Mishap
    /\ mem' = [status EXCEPT !.action = "NewRevision"]
    /\ pc' = "release" /\ fresh' = TRUE
    /\ UNCHANGED <<log, queue, status, revision, base, requests, commits>>

\* Nothing to do before the next poll.
NoNewCommits ==
    /\ pc = "idle"
    /\ ~status.progressing /\ status.action = "Empty"
    /\ queue = <<>>
    /\ RemoteHead = status.observed \/ RemoteHead \in DOMAIN events
    /\ UNCHANGED vars

\* A state left over by initialisation.
ResetAction ==
    /\ ~status.progressing
    /\ status.action \notin {"Empty", "NewRevision"}
    /\ WriteStatus([status EXCEPT !.action = "Empty"])

AcquireLock ==
    /\ pc = "idle"
    /\ ~status.progressing /\ status.action = "NewRevision"
    /\ status' = [status EXCEPT !.progressing = TRUE]
    /\ pc' = "dispatch" /\ mem' = status' /\ fresh' = TRUE
    /\ UNCHANGED <<log, events, queue, revision, base, requests, commits, mishaps>>

(***************************************************************************)
(* handleStateProcessingRevision                                           *)
(***************************************************************************)

QueueIsEmpty ==
    /\ pc = "dispatch" /\ queue = <<>>
    /\ ToRelease(mem, "Empty")
    /\ UNCHANGED <<log, events, queue, status, revision, base, requests, commits,
                   mishaps>>

\* RevisionsQueueHead fails: Reconcile returns with the lock held.
HeadIsDeleted ==
    /\ pc = "dispatch" /\ queue # <<>>
    /\ Head(queue) \notin DOMAIN events
    /\ Return
    /\ UNCHANGED <<log, events, queue, status, requests, commits, mishaps>>

DispatchRevision ==
    /\ pc = "dispatch" /\ queue # <<>>
    /\ Head(queue) \in DOMAIN events
    /\ mem.revState # "Abort"
    /\ revision' = Head(queue)
    /\ Continue(CASE mem.revState = "Empty" -> "preflight"
                  [] mem.revState = "UpdateMSRSpec" -> "update"
                  [] mem.revState = "AfterMSRUpdate" -> "finish", mem)
    /\ UNCHANGED <<log, events, queue, status, base, requests, commits, mishaps>>

\* Mutant: the sub-state is not reset.
DispatchAbortForGood ==
    /\ pc = "dispatch" /\ queue # <<>>
    /\ Head(queue) \in DOMAIN events
    /\ mem.revState = "Abort"
    /\ ToRelease(mem, "Empty")
    /\ UNCHANGED <<log, events, queue, status, revision, base, requests, commits,
                   mishaps>>

DispatchAbort ==
    /\ pc = "dispatch" /\ queue # <<>>
    /\ Head(queue) \in DOMAIN events
    /\ mem.revState = "Abort"
    /\ ToRelease([mem EXCEPT !.revState = "Empty"], "Empty")
    /\ UNCHANGED <<log, events, queue, status, revision, base, requests, commits,
                   mishaps>>

\* Mutant: the revision is not compared with that of the MSR.
SkipWithoutOrder == revision \in approved \/ revision = mem.observed

\* shouldSkipRevision; every revision of the branch is in the repository.
ShouldSkipRevision ==
    \/ revision \in approved
    \/ revision = mem.observed
    \/ revision <= msr.commit

PreflightCheck ==
    /\ pc = "preflight"
    /\ IF ShouldSkipRevision
       THEN Continue("remove", mem)
       ELSE Continue("save", [mem EXCEPT !.revState = "UpdateMSRSpec"])
    /\ UNCHANGED <<log, events, queue, status, revision, base, requests, commits,
                   mishaps>>

\* Mutant: the base is what was proposed last, not what was approved.
ReadMSR ==
    /\ pc = "update"
    /\ base' = msr.commit
    /\ Continue("diff", mem)
    /\ UNCHANGED <<log, events, queue, status, revision, requests, commits, mishaps>>

\* performMSRUpdate reads the MCA, then the MSR, each from a cache that lags on its
\* own: an approval may show in the second and not yet in the first.
ReadMCA ==
    /\ pc = "update"
    /\ base' = mca
    /\ Continue("diff", mem)
    /\ UNCHANGED <<log, events, queue, status, revision, requests, commits, mishaps>>

\* Mutant: changes are compared by their number.
NothingToGovernByCount ==
    LET changes == ChangedFiles(base, revision)
    IN \/ changes = {}
       \/ Cardinality(changes) = Cardinality(msr.changes)
       \/ \E c \in Rejected : <<"mrt", c>> \in changes

\* No changed file, no new update, or an MRT manifest that is not accepted.
NothingToGovern ==
    LET changes == ChangedFiles(base, revision)
    IN \/ changes = {}
       \/ changes = msr.changes
       \/ \E c \in Rejected : <<"mrt", c>> \in changes

SkipMSRUpdate ==
    /\ pc = "diff" /\ NothingToGovern
    /\ Continue("remove", [mem EXCEPT !.observed = revision])
    /\ UNCHANGED <<log, events, queue, status, revision, base, requests, commits,
                   mishaps>>

PerformMSRUpdate ==
    /\ pc = "diff" /\ ~NothingToGovern
    /\ msr' = [version |-> msr.version + 1, commit |-> revision, previous |-> base,
               changes |-> ChangedFiles(base, revision)]
    /\ Continue("save", [mem EXCEPT !.revState = "AfterMSRUpdate"])
    /\ UNCHANGED <<log, events, queue, status, revision, base, published, mca,
                   approved, commits, mishaps>>

Finish ==
    /\ pc = "finish"
    /\ Continue("remove", [mem EXCEPT !.observed = revision])
    /\ UNCHANGED <<log, events, queue, status, revision, base, requests, commits,
                   mishaps>>

\* Mutant: Finish leaves its sub-state behind.
FinishForever ==
    /\ pc = "remove"
    /\ IF queue # <<>> /\ Head(queue) \in DOMAIN events
       THEN /\ events' = Restrict(events, DOMAIN events \ {Head(queue)})
            /\ Continue("save", [mem EXCEPT !.revState =
                   IF @ = "AfterMSRUpdate" THEN @ ELSE "Abort"])
       ELSE /\ UNCHANGED events
            /\ ToRelease(mem, mem.action)
    /\ UNCHANGED <<log, queue, status, revision, base, requests, commits, mishaps>>

\* RemoveRevisionsQueueHead reads the head again: it need not be this revision.
RemoveQueueHead ==
    /\ pc = "remove"
    /\ IF queue # <<>> /\ Head(queue) \in DOMAIN events
       THEN /\ events' = Restrict(events, DOMAIN events \ {Head(queue)})
            /\ Continue("save", [mem EXCEPT !.revState =
                   IF @ = "AfterMSRUpdate" THEN "Empty" ELSE "Abort"])
       ELSE /\ UNCHANGED events
            /\ ToRelease(mem, mem.action)
    /\ UNCHANGED <<log, queue, status, revision, base, requests, commits, mishaps>>

\* withRevisionLock saves the new sub-state; only Finish ends the action.
SaveRevisionState ==
    /\ pc = "save"
    /\ status' = IF fresh THEN mem ELSE status
    /\ ToRelease(mem, IF fresh /\ mem.revState = "Empty" THEN "Empty"
                                                        ELSE "NewRevision")
    /\ UNCHANGED <<log, events, queue, revision, base, requests, commits, mishaps>>

\* The write of a copy that is no longer fresh is refused, and the lock stays.
ReleaseLock ==
    /\ pc = "release"
    /\ status' = IF fresh THEN mem ELSE status
    /\ Return
    /\ UNCHANGED <<log, events, queue, requests, commits, mishaps>>

\* A call fails: the lock is released with failure, what the copy holds is written.
CallFails ==
    /\ pc \in {"dispatch", "preflight", "update", "diff", "remove", "save"}
    /\ Mishap
    /\ ToRelease(mem, "NewRevision")
    /\ UNCHANGED <<log, events, queue, status, revision, base, requests, commits>>

Crash ==
    /\ pc # "idle"
    /\ Mishap
    /\ Return
    /\ UNCHANGED <<log, events, queue, status, requests, commits>>

(***************************************************************************)
(* The GovernanceQueue controller                                          *)
(***************************************************************************)

SyncQueue ==
    /\ \E q \in SortedEvents : q # queue /\ queue' = q
    /\ UNCHANGED <<log, events, status, worker, requests, commits, mishaps>>

(***************************************************************************)
(* The rest of the system                                                  *)
(***************************************************************************)

\* A developer pushes to the monitored branch.
DeveloperCommits(tree) ==
    /\ commits < MaxCommits
    /\ commits' = commits + 1
    /\ log' = Append(log, tree)
    /\ UNCHANGED <<events, queue, status, worker, requests, mishaps>>

\* The MRT is edited, or applied by ArgoCD: the copy's resourceVersion is old.
EditMRT ==
    /\ fresh /\ fresh' = FALSE
    /\ Mishap
    /\ UNCHANGED <<log, events, queue, status, pc, mem, revision, base, requests,
                   commits>>

\* The operator's own commits leave the governed files as they are.
PushGovernanceFiles == log' = Append(log, Last(log))

\* The MSR controller pushes the version.
PublishMSR ==
    /\ published < msr.version
    /\ published' = msr.version
    /\ PushGovernanceFiles
    /\ UNCHANGED <<events, queue, status, worker, msr, mca, approved, commits, mishaps>>

\* Governors push their signatures, the MSR controller writes the MCA, the MCA
\* controller records and pushes the approval.
ApproveMSR ==
    /\ published = msr.version
    /\ mca # msr.commit
    /\ mca' = msr.commit
    /\ approved' = approved \cup {mca'}
    /\ PushGovernanceFiles
    /\ UNCHANGED <<events, queue, status, worker, msr, published, commits, mishaps>>

-----------------------------------------------------------------------------

Reconcile ==
    \/ LockTimeout \/ StartNewRevision \/ CheckForNewCommits
    \/ NoNewCommits \/ ResetAction
    \/ AcquireLock \/ QueueIsEmpty \/ HeadIsDeleted
    \/ DispatchRevision \/ DispatchAbort \/ PreflightCheck
    \/ ReadMCA \/ SkipMSRUpdate \/ PerformMSRUpdate \/ Finish
    \/ RemoveQueueHead \/ SaveRevisionState \/ ReleaseLock

Environment ==
    \/ \E tree \in Trees : DeveloperCommits(tree)
    \/ EditMRT
    \/ PublishMSR \/ ApproveMSR

Next == Reconcile \/ SyncQueue \/ CallFails \/ Crash \/ Environment

Spec == Init /\ [][Next]_vars

\* Both controllers keep reconciling, and the MSR controller pushes the version it
\* owes; governors and developers owe nothing.
Fairness ==
    /\ WF_vars(Reconcile)
    /\ WF_vars(SyncQueue)
    /\ WF_vars(PublishMSR)
FairSpec == Spec /\ Fairness

-----------------------------------------------------------------------------
(***************************************************************************)
(* Properties                                                              *)
(***************************************************************************)

\* Every variable has its type; revisions are commits of the branch.
TypeOK ==
    /\ log \in Seq(Trees) /\ log # <<>>
    /\ DOMAIN events \subseteq Revisions /\ \A r \in DOMAIN events : events[r] \in Nat
    /\ queue \in Seq(Revisions)
    /\ status \in MRTStatus /\ mem \in MRTStatus
    /\ pc \in {"idle", "dispatch", "preflight", "update", "diff", "finish",
               "remove", "save", "release"}
    /\ fresh \in BOOLEAN
    /\ revision \in Revisions \cup {0} /\ base \in Revisions \cup {0}
    /\ msr.version \in Nat /\ msr.commit \in Revisions
    /\ msr.previous \in Revisions \cup {0}
    /\ msr.changes \subseteq UNION {{<<f, tree[f]>> : f \in Files} : tree \in Trees}
    /\ published \in 0 .. msr.version
    /\ mca \in Revisions /\ approved \subseteq Revisions
    /\ commits \in 0 .. MaxCommits /\ mishaps \in 0 .. MaxMishaps

\* Unless a mishap came in between, Finish observes and takes off the queue the
\* very revision that UpdateMSR proposed in an earlier Reconcile, although each
\* Reconcile reads the head of the queue anew.
FinishesWhatItProposed ==
    (mishaps = 0 /\ pc = "finish") => (revision = msr.commit /\ revision = Head(queue))

\* Proposals only advance along the branch: no version proposes an older commit
\* than the one before it, and none the same commit again unless a mishap made the
\* MRT controller retry while the MCA changed.  That one crash, failed call, edit
\* of the MRT or pair of events of one second takes no proposal back.
ProposalsAdvance ==
    [][msr'.version > msr.version =>
          /\ msr'.commit >= msr.commit
          /\ mishaps = 0 => msr'.commit > msr.commit]_msr

\* What the CLI tells a governor: a request lists what changed since the previous
\* approved commit, so that nothing else is approved with it.  It does unless an
\* approval falls between the reads of UpdateMSR, and then by that one approval only:
\* its base is approved, and at most one approval came after.
ListsChangesSinceApproval ==
    [][mca' # mca =>
          /\ msr.previous \in approved
          /\ Cardinality({r \in approved : r > msr.previous}) <= 1]_mca

\* Every event (a developer's commit brings at most two of the operator's) is taken
\* off the queue, through stale queue heads, crashes, failed calls and locks left
\* held.
EventsAreConsumed == \A r \in 1 .. 3 * MaxCommits + 1 :
    (r \in DOMAIN events) ~> (r \notin DOMAIN events)

\* The MSR proposes what changed on the branch since the last approval, if
\* anything did and an accepted MRT manifest is part of it.
BranchIsProposed ==
    LET changes == ChangedFiles(mca, RemoteHead)
    IN \/ changes = {}
       \/ changes = msr.changes
       \/ \E c \in Rejected : <<"mrt", c>> \in changes

\* Once developers and governors pause, the branch is proposed for good.
ChangesAreProposed == <>[]BranchIsProposed

\* The same of behaviours without a mishap, which is what the code achieves.
ChangesAreProposedCalmly == [](mishaps = 0) => ChangesAreProposed
=============================================================================
