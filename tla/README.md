# Qubmango in TLA+

Specifications, model-checking configurations and proofs for Qubmango, the
operator of this repository: a Kubernetes operator that lets ArgoCD apply a
commit of a repository only after a quorum of governors has signed it.

Paths below are relative to the repository; `C` is
`kubernetes/internal/controller/manifestsigningrequest_controller.go`, `R`
`manifestrequesttemplate_controller.go`, `A`
`manifestchangeapproval_controller.go` and `Q` `governancequeue_controller.go`
in the same directory; `B` is `kubernetes/internal/repository/base.go`.

## 1. The system

### Parts, state and interaction

A **ManifestRequestTemplate** (MRT) names an ArgoCD Application, a repository,
the governors and an approval rule. From it the operator creates one
**ManifestSigningRequest** (MSR), one **ManifestChangeApproval** (MCA) and one
**GovernanceQueue**. Everything below runs in one process (`kubernetes/cmd/main.go`),
one worker per controller, on one cached API client.

| part | keeps | does | talks to |
|---|---|---|---|
| MRT controller (`R`) | action, sub-state, lock and observed commit in `mrt.status` | saves the Application's revision, checks the folder, creates the defaults; polls HEAD; makes an event of a new commit; takes the head of the queue through Preflight, UpdateMSR, Finish; on deletion restores the Application and removes the folder | git, queue, writes `msr.spec`, reads `mca.spec` |
| Queue controller (`Q`) | order of events in `queue.status` | copies the events sorted by creation second | events |
| MSR controller (`C`) | action, sub-states, lock, phase, `requestHistory`, collected signatures, observed HEAD in `msr.status` | publishes a version in folder `v_N`, records it, notifies; checks signatures; writes `mca.spec` | git, notifier, MCA |
| MCA controller (`A`) | action, sub-state, lock, `approvalHistory` in `mca.status` | publishes an approval and its summary files, records it, points the Application at the commit, notifies | git, notifier, ArgoCD |
| Admission webhook of ArgoCD | nothing that is ever written | lets ArgoCD apply a resource when the commit is recorded in the MCA and is its current one | cache of MRT, MCA and Application |
| Webhooks of MRT, MSR and MCA | - | a spec changes only with a higher version; a rule is well formed | - |
| Rules and signatures (`pkg/validation`) | - | which governors signed; whether the rule holds of them | called by `C` and the CLI |
| Git provider and manager | a clone per repository, a mutex, secrets with a time to live | sync, diff, commit and push, fetch a request | the remote |
| CLI | local settings | a governor verifies and signs a request | the remote |
| Notifier | - | Slack messages | Slack |

### What is hard about it

* *Reconcile is a sequence of separate calls on a copy.* Each handler takes a lock
  that is itself a status condition, acts, saves a sub-state and releases the lock:
  up to four writes, each of which is refused when the object changed since it was
  read. A restart between any two leaves the lock held and whatever was saved so far.
* *Specs are written by other controllers at any time*, also between two sub-states
  of the processing of the version before.
* *Several objects are read one after the other*, from caches that lag.
* *The operator's own pushes are commits* that it observes itself.
* *All controllers share one clone* of the repository, which is pulled under a mutex,
  let go, and locked again for the work; it stays on disk when the process stops, with
  whatever was written or committed in it. Governors push from clones of their own.
* *A governance begins and ends in steps*, each of which may be repeated, while what it
  created is already, or still, at work on the same folder and Application.
* *ArgoCD syncs when it likes*, a denied sync is repeated, and people roll back.

What makes the parts correct, in one line each: an approval rests on a quorum of
signatures of that very version; records are never lost; the lock is never left
held; every change is proposed, published and, once signed, delivered; the
cluster only takes recorded, approved commits and never goes back; the shared clone
never shows or publishes what a call did not finish; a governance has its folder to
itself and leaves neither files nor a revision behind.
`PROJECT.json` lists the single hazards at their lines, with the properties that
watch them.

## 2. The modules

| module | models | composed with |
|---|---|---|
| `SigningRequest` | MSR controller, its git folders, webhook of the MCA, governors with the CLI | environment writes `spec` as `R` does |
| `SigningRequestProofs`, `SigningHistoryProofs` | theorems of it; the second of what is recorded | |
| `RevisionQueue` | MRT controller after initialisation, queue controller, events | environment publishes and approves as `C` and `A` do |
| `RevisionQueueProofs` | theorems of it | |
| `ChangeApproval` | MCA controller, ArgoCD webhook, ArgoCD | environment approves as `C` does |
| `GovernedDelivery` | abstract: what the cluster is promised | implemented by `ChangeApproval` |
| `ChangeApprovalProofs` | theorems of `ChangeApproval` | |
| `SignedDelivery` | the request and the approval of a change together, from signatures to the cluster | `SigningRequest` and `ChangeApproval`, each the environment of the other |
| `QuorumDelivery` | abstract: `GovernedDelivery` with the signatures behind each version | implemented by `SignedDelivery` |
| `SignedDeliveryProofs` | theorems of `SignedDelivery` | |
| `GitProvider` | the provider's clones: pull, reads, stage, commit, push, rollback, restarts; calls of the three controllers and of `sign msr` | developers push as the environment |
| `PublishedBranch` | abstract: what a call on the shared branch promises its caller | implemented by `GitProvider` |
| `GitProviderProofs` | theorems of `GitProvider` | |
| `TemplateLifecycle` | creation and deletion of the MRT, and what its MSR and MCA do to the folder and the Application meanwhile | users, Argo CD and the garbage collector as the environment |
| `TemplateLifecycleProofs` | theorems of it | |
| `SignatureVerification` | which governors signed a request (`GetVerifiedSigners`) | |
| `ApprovalRules` | evaluation and admission of rules | extends `SignatureVerification`; its results are the constant `Quorums` of `SigningRequest` |
| `ApprovalRulesProofs` | theorems of both | |
| `MC*` | model values and bounds for the runs | |

### How a Reconcile is modelled

All three controllers have the same frame, and so have the modules.
`pc` is the next call of the worker: `"idle"`, then `"handler"` once the lock is
taken, `"save"` for a handler's own `Status().Update`, `"substate"` for the save of
the next sub-state, `"release"` for the release of the lock. `status` is what the API
server holds, `mem` the worker's copy, `memSpec` the spec in that copy, and `fresh`
says that the copy still has the stored resourceVersion: every write by somebody
else clears it and makes the following writes of the worker fail.

* `AcquireLock` / `ReconcileCreate` / `Reconcile...`: re-read the object, set
  the condition `Progressing`, write.
* one action per handler (`GitCommit`, `UpdateAfterGitPush`, `UpdateMCASpec`, ...)
  for its call to git, to another object or to the notifier.
* `SaveStatus`, `SaveSubstate`, `ReleaseLock`: the writes that follow.
* `CallFails`: the handler's call fails, `releaseLockWithFailure` is next and
  writes what the copy holds by then. `Crash`: the process stops, or the release
  fails; the lock stays. A call that succeeded but whose answer was lost is a crash
  after it: nothing the handler would save is saved.
* `LockTimeout`: a lock that is found held at the start of a Reconcile. With one
  worker it always belongs to a Reconcile that is over, so the 30 seconds only
  delay it and are not counted.

### The clone

A call of the provider (`B`, and `cli/internal/repository/base.go`, which is the same
code for the CLI) is `Pull` under the mutex, then either `Reads`, under the mutex
again, or `Stage`, `Commit` and `Push` in one holding of it. `Abandon` is the error path:
the rollback, the unlock, and the caller told. `holder` is the mutex, `base` the HEAD that
the rollback returns to, `local` the clone's branch and `left` what lies in the
worktree in no commit. `Crash` frees the mutex and leaves `local` and `left`; a clone that
was being written to is `hurt` from then on. `goal` is the call a caller makes next:
each makes those of one version, in the order of its controller or command.

`PublishedBranch` knows neither clones nor mutexes. A caller there appends one commit with
its file, or fails and has published nothing, or the commit is there and the caller is not told; a
reader learns what holds of the branch. Only a hurt clone may promise less: its next
push may bring along what the stopped process had left, and its readers may see that. It speaks
of whole commits: which files a commit has besides the caller's own is left open, so that a
part of a summary whose call failed (`B`:466 does not roll it back) may be in the next one.
The mapping is the identity on `remote` (the branch), `goal`, `hurt` and the budget of faults.

### The life of an MRT

In `TemplateLifecycle` `pc` walks through the calls of one Reconcile of the MRT: the four
handlers of `reconcileCreate` under their lock, `createLinkedDefaultResources` one create
at a time, and `reconcileDelete`. A child (the MSR or the MCA) has the stages that matter to
others: it pushes to the folder, the MCA sets the Application, the finalizer is set. Reads
of the Application and the patch that follows are two steps, of both controllers. Each MRT
has a generation, so that what an earlier one left can be told apart; the children find
theirs by its name, as the code does.

The folder may hold files before any governance (`FoundFiles`), of two kinds, because the code
looks at it through `GetChangedFiles`, which passes over what it cannot unmarshal as the YAML of
an object (`B`:406): `AlienFile` is listed and `AlienText` is not (`ChangedFiles`). Only the
first makes `CheckGovernancePathEmpty` fail. Deletion removes the folder with both.

The code lets an MRT be deleted at any moment, also when it is half created or a version is
half delivered, and be created again under its name while the last one's children are
still there. In such behaviours much can be left behind (below). `smooth` says that
nothing of the kind happened: every deletion found the MRT and its children initialised and at
rest, every creation found nothing left, no approval came during a deletion, and the folder
could be removed. It does not exclude restarts, failed calls and lost locks at any step.

### From signatures to the cluster

`SignedDelivery` has the variables of `SigningRequest` and of `ChangeApproval`, prefixed
where both have one of the name, and two instances. What they share is the spec of the MCA
(`mca`, with its version in `mcaSpec`). `WritesMCA` is `UpdateMCASpec` of the MSR controller
and, in the same step, what `ChangeApproval` says of the MCA when it is written
(`SpecWritten`): the guards that `ChangeApproval` has for its environment, versions that rise and
a governance that began, are not repeated but follow from what the MSR controller does.
`SigningStep` is any other step of `SigningRequest`, where the MRT controller proposes a
version only after its initialisation; `ApprovalStep` any step of `ChangeApproval` but that
of its environment.

`QuorumDelivery` is `GovernedDelivery` in which governors sign at any time, and a version may
only be approved, and applied to a governed resource, when a quorum has signed it (or, if
versions do not wait, one before it: the finding of `signing_unsigned_mca`). It knows nothing
of objects, histories, caches and copies.

### Abstractions

* A spec is its version. The webhooks only let a spec change with a higher version,
  so a version stands for the commit, changes, governors and rule of one request.
  In `ChangeApproval` the version also stands for the approved commit; each
  approval has a commit of its own.
* Signatures are the set of aliases that verify (`ApprovalRules` is about how that
  set comes about). Conditions, texts, times and file contents are left out.
* The order of `GetLatestRevision` and `FetchMSRByVersion` within one handler of
  `C` is one step; so are polling and the creation of the event in `R`, and the two
  pushes of summary files in `A`.
* A controller that reads its own object from a cache that lags can only do what
  it would have done earlier, with writes that are refused; the re-read in
  `acquireLock` followed by a successful write shows the copy was current. Reads of
  *other* objects do lag where it matters: `ReadMCA` and `PerformMSRUpdate` are
  two steps, the queue lags behind the events, the webhook's MCA (`seenMCA`) and MRT
  behind the stored ones.
* In `RevisionQueue` the branch is linear (no force push, `HasRevision` holds), and
  the approval of a request is recorded in the MCA at once.
* In `ChangeApproval` nobody edits the Application's `targetRevision` by hand, ArgoCD
  repeats denied syncs (`selfHeal`, kubernetes/README.md:114), the running sync is
  read as it is, and the initialisation of the MRT is seen by the MRT controller and
  the webhook through the same cache, so that no version is proposed before.
* In `SignedDelivery` the pushes of the MCA controller are, to the MSR controller, commits of
  others (`MaxCommits`), the write of an MCA that is deleted is a call that fails, and a
  restart of the operator is a `Crash` of either worker, in any order.
* In `GitProvider` a commit is the files it adds; who wins a race is left open, that is, a
  mutex is granted in any order. What a fast-forward does to files in no commit, and which of
  the files left behind the next commit takes along, depends on the version of go-git and on
  what was added to the index: both are left open. `DeleteFolder` has the frame of the
  other pushes and is not a call of its own there. Key material and its refresh are left out.
* In `TemplateLifecycle` a push is one step (what `GitProvider` shows of it), pushes of
  summary files and signatures go with the push of their object, and the stages between two
  effects on others (history record, notification) are passed with the step before.

## 3. The runs

| run | configuration | result |
|---|---|---|
| `signing_request` | two governors, both needed, versions 0 to 2 that arrive at any time, one fault, one foreign commit, deletion | types, `ApprovalsAreEarned`, `PhaseOfLatestRecord`, `MCAFollowsAnApproval`, `DuplicatesNeedFaults`, the inductive invariant `IInv`, `HistoryOnlyGrows` hold; the lock is always released again; without a fault a recorded request whose quorum signed reaches the MCA |
| `signing_unsigned_mca` | no fault | violated: the MCA can carry a version nobody signed |
| `signing_lost_change` | no fault, revisions arrive after creation | violated: a version can be recorded without being published |
| `signing_lost_approval` | one fault | violated: a restart can strand an approval |
| `revision_queue` | two developer commits over four contents, one mishap | order, consumption of events, `FinishesWhatItProposed`, the base of a request is at most one approval behind; without mishaps the branch ends up proposed |
| `revision_lost` | one mishap | violated: a restart in Finish can drop the next revision |
| `change_approval` | one resource, versions 0 to 2, one mishap, hand syncs | refinement of `GovernedDelivery`, `DeliveredIsRecorded`, the inductive invariant `IInv`, versions are recorded in order (`HistoryAdvances`) and after their publication (`RecordsArePublished`), every approval is delivered and the governors are told |
| `signed_delivery` | two governors, both needed, versions 0 to 2 that wait for the request before, one resource, no fault | refinement of `QuorumDelivery`: a governed resource only takes what a quorum has signed |
| `approval_rules` | every accepted rule of a family, three governors and keys, up to three signatures | evaluation means the rule's quorums, is monotone, signatures count once, a rule needs some signer and not more than the board |
| `git_provider` | three controllers, one governor, either a restart, a failed call or a developer's push | refinement of `PublishedBranch`; a clone at rest has no commit of its own; who was told so is published; nobody acts on the unpublished; writes land |
| `template_lifecycle` | one restart, failed call, approval, second MRT or deletion of the Application; MRT deleted at any time; folder with nothing, an object, a file that is none, or both | the saved revision is the initial one, an initialised MRT is complete, governance shares its folder with no other and with no file the check can read, stopping cleans up; creation, beside files that are no objects too (a finding), and deletion end |
| `lifecycle_rollback` | an approval and one failed call, deletion by Argo CD on the approved commit | violated: the MCA's update of the Application can come after the rollback |

One finding is of a run that passes. kubernetes/README.md:331 says "If there are any existing
files in it, Qubmango will fail to initialize". `template_lifecycle` starts from a folder with
a file that is no object, too, and `CreationCompletes`, which makes no exception for it, shows that
an MRT is initialised there (were every file counted, as the sentence says, it would be
violated). `FolderIsItsOwn` therefore promises a folder of its own only with regard to files
the check can read.

The violated properties say what the repository says (quoted in `findings`); each
passing run has the property that does hold next to it: the MCA always carries a
quorum that was collected for *some* approved record (`MCAFollowsAnApproval`),
the quorum of the request on record reaches the MCA when nothing fails
(`QuorumReachesMCA`), an MRT whose children are at rest cleans up after itself, revisions
are all proposed without mishaps.

Four things TLC shows that are described here and not runs: a nested `atLeast` of less than one is accepted
and fulfilled before anybody signed, though the schema says a minimum of one
(`Fulfillable` excepts it); a request lists changes since the approval before the last when
an approval falls between the two reads of UpdateMSR (`R`:1106;
`ListsChangesSinceApproval` allows that one and no more); a version of the MCA that arrives between
the pushes and the record of the one before is recorded without its files (`A`:477;
`RecordsArePublished` and `GovernorsAreTold` only speak of versions that wait, `calm`); and, without `smooth`, an MRT that
is deleted while its children push leaves their files in the folder, so that no
governance can begin there, and one created too early adopts children that the garbage
collector then takes away.

Noticed on the way, without a run of its own: the example for "owner OR 2 out of 3
voters" in kubernetes/README.md says `all: true`, which the evaluation reads as AND;
`all: false` is accepted by the webhook and can never be satisfied; the comment on
`hasNoNewUpdates` (`R`) says the opposite of what it returns; the webhook's
`initRevision` is read and never written.

### Bounds, and why they are enough

* *Versions 0, 1, 2* (`MaxVersion`): the interesting steps are a version that
  replaces another while that one is processed (two), and what was saved for one
  being applied to the next.
* *Faults or mishaps, 1 or 2*: a fault matters by the place it interrupts, and the
  model checker tries all. The single fault of the violated runs is part of the
  counterexample. With two mishaps a pair of events of one second and a failed save
  together can propose an older revision again, since a sub-state UpdateMSR left
  over skips Preflight. The one mishap of `revision_queue` is therefore a condition of
  `ProposalsAdvance` and `ListsChangesSinceApproval`, not only a bound; the other condition
  under which they hold is that no two events are of one second (`SameSecond = FALSE`),
  with any number of mishaps. Section 4 has the theorems.
* *Two governors*, rule "both": the controller sees a rule only through
  the family of quorums, and its safety is proved for all of them; "either" was checked, too
  (1 million states with symmetry). Shapes of rules are the business of `ApprovalRules`, whose
  family has leaves, a signer twice, groups of two and three and groups in groups,
  under every count from 0 to 3 and both values of `all`; that no other shape behaves
  differently is proved (section 4). Its rules are not closed
  under a permutation of governors, so only keys are symmetric.
* *Two approvals, no faults* (`signed_delivery`): what can go wrong between the controllers
  needs two requests, one signed and one not, and a webhook that has seen one of them (1 million
  states with the symmetry of the governors). Faults of each controller are in the runs
  of its own module; with one approval, a fault and a mishap together were checked too (2.7 million states), and the
  theorem is for any number. Versions wait in the run because the promise is the sharper one
  then; the theorem is for versions that arrive at any time as well.
* *Two developer commits, four contents*: a change, its revert, an acceptable and a
  rejected change of the MRT's own manifest. Each commit brings up to two commits
  of the operator.
* *One of three* (`git_provider`): a restart, a failed call or a developer's push at any
  step, each against every interleaving of four callers and two clones; a fault and a push
  together only meet in the check of the remote's head, which any of the other clone's
  pushes exercises too. One governor: two governors have clones of their own and meet in
  the remote only, as the governor and the operator do. One version: a file is never
  rewritten, and a version only changes names.
* *One turn* (`template_lifecycle`): of a restart, a failed call, an approval, a second MRT and
  a deleted Application. The safety properties also hold with two turns (2.4 million states);
  liveness with two takes too long for a run. `lifecycle_rollback` needs two, an approval and
  a failure. An MRT is deleted at any step in all of them.
* *One resource*: the webhook decides on each resource alone; a partial sync is
  several syncs of one resource.
* `MaxCommits` of `SigningRequest` bounds commits of others, which only move HEAD.

Governors are symmetric where the run checks safety only. `CHECK_DEADLOCK FALSE`
is used only by the run of `ApprovalRules`, which ends when the signatures are
verified, and by those of `TemplateLifecycle`, which may end without an MRT.

### Fairness

Weak fairness of the controllers' `Reconcile` as a whole (not of single actions):
`handleResult` requeues every object after `ScheduledInterval` or with the
back-off of an error, watches re-deliver every object after a restart, and the
deployment restarts the single replica. Nothing is assumed of faults, of governors,
developers and deletions. `RevisionQueue` adds the queue controller and the MSR
controller's publication, `ChangeApproval` adds ArgoCD (it repeats denied syncs)
and the delivery of watch events to the cache. `GitProvider` assumes that each controller's calls
go on (weak fairness per caller: each controller has a goroutine of its own, and a mutex
that keeps being released is granted in the end), nothing of governors.
`TemplateLifecycle` assumes it of the MRT's worker, of each child's and of the garbage collector. A crash is never obliged to stop
happening except by its bound.

## 4. The proofs

Eight modules, `*Proofs`, hold the theorems; TLAPS checks them for every value of the
constants under the assumptions of the modules: `BoardAssumption` (quorums are sets of
governors, the operator is none; in `SignatureVerification`, the board is finite),
`NoFreeQuorum` (no rule is fulfilled by nobody), `BoundAssumption` and `BudgetsAssumption` (the
bounds are natural numbers), `NamesAssumption` (governors are finitely many and have
names of their own), `KeyAssumption` (what cannot be parsed is no key), `AliasAssumption` (no
governor's alias is empty), `RulesAssumption` (rules are finite trees whose fields have the types of the API), `ContentAssumption`
(every commit has both files, and the first an accepted MRT) and `SecondAssumption` (`SameSecond` is a Boolean).
`SigningAssumption` and `ApprovalAssumption` of `SignedDelivery` are those of its two parts.
`NoFreeQuorum` is an assumption on the rules people write: the webhook of the MRT does not
enforce it for nested rules.

| theorem | says |
|---|---|
| `SigningRequestProofs!TypeCorrect` | `Spec => []TypeOK` |
| `SigningRequestProofs!InvCorrect` | `Spec => []IInv` |
| `ApprovalsCorrect` | an approved record carries a quorum, read from the folder of its own version |
| `MCACorrect` | the MCA's signers fulfil the rule and come from an approved record that is not newer |
| `HistoryCorrect` | no write of the status drops a record or a signer |
| `CarriesCorrect` | `ASSUME Arrivals = "resting"`: the MCA carries a quorum that signed the very version it approves |
| `SigningHistoryProofs!HistoryInvariant` | the inductive invariant of the records |
| `PhaseCorrect` | the phase says Approved exactly when the last record carries signatures |
| `DuplicatesCorrect` | a version is recorded again at most once per fault |
| `RevisionQueueProofs!InvariantHolds` | the inductive invariant |
| `RevisionQueueProofs!TypeCorrect` | `Spec => []TypeOK` |
| `FinishesCorrect` | without mishaps, the event that Finish consumes is the one that was proposed |
| `AdvanceCorrect` | `ASSUME ~SameSecond \/ MaxMishaps <= 1`: no request is for an older commit than the one before |
| `ListsCorrect` | under the same assumption, a request is at most one approval behind |
| `ChangeApprovalProofs!TypeCorrect` | `Spec => []TypeOK` |
| `ChangeApprovalProofs!InvCorrect` | `Spec => []IInv` |
| `DeliveredIsRecordedCorrect` | a governed resource only takes a commit of `approvalHistory` |
| `DeliveryCorrect` | `ChangeApproval` implements `GovernedDelivery` |
| `ChangeApprovalProofs!HistoryInvariant` | the inductive invariant of the records |
| `ChangeApprovalProofs!AdvanceCorrect` | `approvalHistory` is in order, and repeats a version at most once per mishap |
| `PublishedCorrect` | a recorded version has its MCA and summary files in the repository, if versions wait for the one before |
| `SigningHolds`, `ApprovalHolds` | each part of `SignedDelivery` behaves as its module says |
| `SignedDeliveryCorrect` | `SignedDelivery` implements `QuorumDelivery` |
| `ApprovalRulesProofs!InvCorrect` | `Spec => []IInv` |
| `CountsOnceCorrect` | as many holders of a key are verified as it made signatures, up to all of them |
| `QuorumCorrect` | the evaluation of an accepted rule says yes exactly when a quorum it names has signed |
| `FulfillableCorrect` | the board fulfils it unless it says `all: false`, nobody does unless a count is less than one |
| `FulfilledCorrect` | a further signature never takes a fulfilment back |
| `GitProviderProofs!TypeCorrect` | `Spec => []TypeOK` |
| `RestingCloneCorrect` | a clone at rest has no commit of its own |
| `AcknowledgedCorrect` | what a caller was told is published, is |
| `ReadersCorrect` | nobody acts on what is not published |
| `BranchCorrect` | `GitProvider` implements `PublishedBranch` |
| `TemplateLifecycleProofs!InvariantHolds` | the inductive invariant |
| `TemplateLifecycleProofs!TypeCorrect` | `Spec => []TypeOK` |
| `SavedRevisionCorrect` | if `smooth`, the revision saved for the rollback is the one from before the governance |
| `InitialisedCorrect` | if `smooth`, an MRT with its finalizer has its MSR, MCA and queue |
| `FolderCorrect` | nothing is written beside a file that the check of the folder can read, whatever else happens; and, if `smooth`, no MRT writes beside the files of another |
| `StopCorrect` | if `smooth`, an MRT that is gone left neither files of its own nor a governed revision behind |

Every proof has the same outline. The initial states satisfy the inductive invariant;
a step for every action shows that it preserves it, and the actions of one frame share a
lemma; the property then follows from the invariant, or, when it is of a step, from the
invariant and that step.

*The signing request.* `ApprovalsAreEarned` is not inductive: it speaks of what is
stored, and the next write stores the worker's copy; and signatures are read for one
version and written into a record of possibly another. `IInv` therefore says the same
of the copy (`Earned(mem)`), that the copy, while its resourceVersion is current, has
every stored record (`CopyIsBehind`), that versions in the history do not run ahead of
the spec (`RecordedVersions`), and, the heart of it, that while rules are checked the
last record is the latest version published (`LatestIsRecorded`): the folder that is
read and the record that is signed are of one version. `CollectedForARecord` and
`CollectedBeforeMCA` carry the quorum from the approved record through the saved
signatures to the MCA. The preservation proof has a step for every action; the writes
share `StoreInv` and the steps on the copy `CopyStepInv`.

*How often a version is recorded.* A fault between the write of a record and the write
of the sub-state after it makes the next Reconcile append the record again, so a bound
on duplicates is not inductive: the fault is counted when it happens and the duplicate
written later, possibly by a Reconcile of a later version. The invariants of
`SigningHistoryProofs` and the second half of `ChangeApprovalProofs` therefore count what a status *owes*:
one more duplicate when it still leads to the handler that appends and its version is
in the history already. `DuplicatesPaid` says that duplicates and debts together are no more
than the faults so far. The stored status answers for it while no write will follow (the
worker is idle or its copy outdated), and else the copy, which is about to be stored;
a save that succeeds moves the worker past the debt before it falls due. `LastIsHighest`,
or `RecordsInOrder`, makes the last record that of the version at hand.
`PhaseOfLatestRecord` is kept of the stored status and of the copy, and needs only what
creation may leave behind (`NotYetApproved`, `Initialising`). For `RecordsArePublished`,
`PublishedFirst` says which push a saved sub-state stands for, and `WorkerFits` that a
version does not take over the sub-state of another while versions wait (`calm`).

*The revisions.* With seconds that increase along the branch (`Distinct`), the head of the
queue, however old the copy of it, is never after an event (`HeadIsFirst`), nothing that
waits is older than the MSR (`NoneBehind`), and approvals follow the branch (`Approvals`).
None of this speaks of the saved sub-state, so it survives any number of restarts and failed
calls. `FinishesWhatItProposed` does need the sub-state: `Undisturbed` says that without mishaps
one that says UpdateMSR finds only events newer than the MSR, and one that says Finish finds the
proposed revision waiting first. With one pair of events of one second, the queue may have
either at its head, in turn, and UpdateMSR may propose the younger while the older waits; the
older is then skipped, because nobody has passed Preflight while an event older than the MSR
waits, and a saved UpdateMSR that is taken up again would break just this. `Tied` follows the
pair, as long as it was the only mishap. The assumption of `AdvanceCorrect` and `ListsCorrect`
is what this needs and no more: TLC finds a counterexample to `ProposalsAdvance` with such a
pair and a second mishap. The run `revision_queue` is an instance of it.

*The change approval.* Two caches and a running sync lag behind the MCA.
`KnownIsApproved` bounds all of them by the approved version, `AppliedIsKnown` says the
webhook's copy is not older than what any resource has, and `SeenIsRecorded` that a
record it saw is still stored, which again needs the worker's copy to hold every stored
record while it is current. The steps of the worker change neither the approved version
nor the resources (`WorkingStep`), so refinement is a matter of the other actions:
writing the MCA is `Approve`, initialising the MRT `StartGovernance`, and an
admitted resource `Apply`, since the webhook admits the current approval of the MCA it
sees, and that is at least what the resource has (`AdmittedIsKnown`). The `TargetRevision`
the MCA controller sets plays no part in the safety argument, only in delivery.

*A request that rests.* TLC violates `MCACarriesItsQuorum` when a version arrives between the
check of the signatures and the update of the MCA. `CarriesCorrect` says that nothing else
breaks it: `RestInv` adds to `IInv` that, while versions wait, the copy a Reconcile works on
is of the stored version (`WorksUndisturbed`), and that what was collected is of the folder of
that version as long as a sub-state may still take it to the MCA (`CollectedForThis`), also
after a restart or a refused write.

*From signatures to the cluster.* The theorems about the parts are used, not proved again.
Every step of `SignedDelivery` is a step of `SigningRequest` or changes nothing there, so its
invariants hold of the whole (`SigningHolds`). They say that a version in the MCA is above 0 only if
a quorum signed it (`MCAIsBacked`), that a write of the MCA raises its version and takes it
from a request (`MCAMovesOn`), and that signatures stay (`SignaturesStay`). `Between` is what only
the two together know: both see one MCA, there was no request before the governance began,
and a version in the webhook's cache is one a quorum has signed. From this a write of the MCA is
what `ChangeApproval` lets its environment do, hence `ApprovalHolds`, and its invariants hold of the
whole, too. Then `WritesMCA` is `Approve` of a version that is `Backed`; a resource of
a governed application takes the version in the webhook's cache (`AdmittedIsKnown`), which is `Backed`
by `Between`; a signature is `Sign`; and nothing else shows.

*The signatures.* `EverySignatureCountsOnce` is inductive once the loop's position is
known (`WhatIsLeft`: the signatures left are the last ones of those given) and nobody with
a key that can be parsed is out (`OnlyMalformedAreOut`): a signature either finds a pending
holder of its key, and one more has signed, or every holder has, and none may. It makes no
difference whom the map of aliases yields, nor that two aliases share a key.

*The rules.* A rule is a tree of any shape, and what `Evaluate`, `Parts` and `QuorumsOf` are is
said by recursion over it. The proofs know of trees only that the children of a rule are
less deep (`Depth`, in `RulesAssumption`). `RuleInduction` says that a set of rules that has
a rule whenever it has its children has all of them: otherwise a rule of least depth were
missing, which is a fact about the natural numbers. `RecursionOverRules` says that an equation
which determines the value of a rule from those of its children has a solution: solutions up to
every depth exist and agree. With it, `PartsDef`, `EvaluateDef` and `QuorumsDef` turn the
recursive definitions into equations, and the rest is induction with them. The heart is
`GroupIsEnough`: the two optional fields of a valid group, read by the code as a required count,
mean what the type says of them. A quorum of a group is a union of quorums of enough
children, so somebody has to be picked for each child that holds (`QuorumsAreEnough`), and more
children than enough do no harm (`EnoughIsMonotonic`). Validity is needed: a group with neither
field would be evaluated to no, though every child set is enough for it.

*The clones.* A clone may be ahead of the branch, behind it, or both, so
`RestingCloneIsPublished` says too little while a call runs. `CInv` adds who may be
writing (`HoldersWrite`: a call past staging holds the mutex of its clone, and only such
a call does), what a write has done to its clone so far (`WriteInProgress`: one commit,
its own, on top of what it found), and that below this, or all of it when nobody writes,
the clone agrees with the branch (`Unscarred`, by `Agrees`); for a clone whose
process was stopped in a write, only `Origins` is left: what is not shared was committed
there. A step touches one clone, so the others keep their shape while the branch grows
(`ShapeKept`), and each action is a matter of its own clone. The file of a call is in the
commit it pushes, which is `AcknowledgedCorrect`; a reader finds in its worktree
what is published and at most the summary of a call that failed, which is no
signature, and quorums only grow, which is `ReadersCorrect`. The refinement needs one more
fact, that a push always adds something: `Fresh` numbers the commits of each caller, and
the one in progress is on no branch yet, because nobody pushes from another's clone
(`FreshPublish`). A push is then `Publish`, one whose answer was lost
`PublishUnanswered`, an answer to a reader `Learn`.

*The life of an MRT.* Each of the four properties is about the end of a stage and needs to
know what every stage before it left. The invariant has one part per stage. Without `smooth`
little is left: numbering, that what does not exist is nothing (`Existence`), and
that nothing is created beside a file found in the folder that the check can read (`Foreign`). With it, `Ordered`
goes along: without an MRT everything is clean and at rest (`Gone`), up to the check of the
folder it still is (`Beginning`), then the children appear one after the other, those the
worker has passed already (`Creation`), with the finalizer all of them are there and the
folder is the MRT's own but for files that are no objects (`Created`), and in deletion nobody but the worker touches the
Application and the folder (`Deletion`). Restarts and failed calls only change `pc`, and
each part says what `pc` may be, for a copy read again finds the stage by what is stored.

*Checked by TLC before they were proved.* The inductive invariants of `SigningRequest` and
`ChangeApproval` (`IInv`) are also invariants of runs (`signing_request`, `change_approval`).
The others were checked on the models of the runs and a little beyond: `CInv` and
`Fresh` on that of `git_provider`; the one of `TemplateLifecycle` with one and two turns (0.2 and 2.4
million states); of `RevisionQueue` with pairs and one mishap, with none and two, and with both (0.4, 0.8 and
2.5 million states); `RestInv` with versions 0 to 2 and two faults (2.1 million
states); of the records with one and two faults (1.0 and 4.5 million states of
`SigningRequest`, 0.2 and 0.8 million of `ChangeApproval`); of `SignatureVerification` with
three governors, three signatures and two keys they may share (4530 states).

*Only model-checked.* Everything of liveness, `WritesLand` included: it needs fairness, which
is out of the prover's reach. With this exception, every property of a passing run is a theorem.

## 5. Not modelled, and the plan

Not modelled: rendering and delivery of notifications, PGP and file comparison
(`pkg/validation/msr/msr.go`), the CLI's settings and display, wiring in `main.go`,
conversions between API types. They are data or I/O without a protocol.

Of the repository manager only the sharing of a provider is modelled. It refreshes the secrets
of a provider every ten minutes, from the references of the MRT it was made for: one that is
created again with other references is served with the old ones until a restart
(`manager.go:160`). To the models a wrong key is a call that fails.

To come:

1. `RevisionQueue` in the composition of `SignedDelivery`, against an abstract pipeline from
   commit to delivery.
2. A lagging Application in the webhook.
