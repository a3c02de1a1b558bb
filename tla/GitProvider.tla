----------------------------- MODULE GitProvider -----------------------------
(***************************************************************************)
(* The git provider of the operator and of the CLI:                        *)
(* BaseGitProvider in kubernetes/internal/repository/base.go and in        *)
(* cli/internal/repository/base.go.                                        *)
(*                                                                         *)
(* The repository manager gives all controllers one provider, hence one    *)
(* clone and one mutex, for each repository; a governor's command works on *)
(* a clone of its own.  A call first takes the mutex to pull (Sync), lets  *)
(* it go, and takes it again to read, or to stage, commit and push.  Other *)
(* calls run in between.  A push that fails resets the clone to the commit *)
(* it found.  A clone stays on disk when its process stops.                *)
(*                                                                         *)
(* A commit is its files, its author and a number that stands for its      *)
(* hash; a file is <<what, who>>.  PublishedBranch holds the goals of the  *)
(* callers: one version of one request, each caller with its calls in the  *)
(* order its controller or command makes them.                             *)
(***************************************************************************)
EXTENDS Naturals, FiniteSets, SequencesExt

CONSTANTS
    Governors,  \* each signs with a clone of its own
    Quorum,     \* signatures that fulfil the approval rule
    Budgets     \* bounds: processes stopped, calls failed, developers' pushes

VARIABLES
    remote,     \* commits of the shared branch
    local,      \* commits of each clone's branch
    left,       \* files of each clone that are written but in no commit
    holder,     \* the call that holds the mutex of a clone's provider
    base,       \* length of the clone's branch when that call took it
    pc,         \* how far each caller's call has come
    goal,       \* the next call of each caller
    tries,      \* commits each caller made
    polled,     \* last commit the MRT controller was given as the latest
    hurt,       \* clones whose process stopped with the mutex taken
    budget      \* what may still go wrong

clones == <<local, left, holder, base>>
callers == <<pc, goal, tries, polled>>
vars == <<remote, clones, callers, hurt, budget>>

Shared == INSTANCE PublishedBranch WITH
    branch <- remote, scarred <- hurt, faults <- budget.faults

Controllers == Shared!Controllers
Callers == Shared!Callers
Clones == Shared!Clones
CloneOf(c) == Shared!CloneOf(c)
Writes == Shared!Writes
FilesIn(b) == Shared!FilesIn(b)
Requested(files) == Shared!Requested(files)
Fulfilled(files) == Shared!Fulfilled(files)

NoOne == "none"

\* Governors have names of their own, and the bounds are numbers.
ASSUME NamesAssumption ==
    /\ Governors \intersect (Controllers \union {"operator", "developer", NoOne}) = {}
    /\ IsFiniteSet(Governors)
ASSUME BudgetsAssumption ==
    /\ Quorum \in Nat
    /\ Budgets \subseteq [crashes : Nat, faults : Nat, pushes : Nat]

NoCommit == [files |-> {}, by |-> NoOne, try |-> 0]
PushedBy(developer, n) == [files |-> {}, by |-> developer, try |-> n]

File(c) == <<goal[c], c>>

\* What a reader finds in the worktree of a clone.
Worktree(k) == FilesIn(local[k]) \union left[k]

\* FetchMSRByVersion, readGovernorSignatures: the signatures in the worktree are
\* evaluated against the rule.
HasQuorum(k) == Fulfilled(Worktree(k))

Init ==
    /\ budget \in Budgets
    /\ remote = <<PushedBy("developer", 1)>>
    /\ local = [k \in Clones |-> <<>>]
    /\ left = [k \in Clones |-> {}]
    /\ holder = [k \in Clones |-> NoOne]
    /\ base = [k \in Clones |-> 0]
    /\ pc = [c \in Callers |-> "idle"]
    /\ goal = [c \in Callers |-> Shared!FirstGoal(c)]
    /\ tries = [c \in Callers |-> 0]
    /\ polled = NoCommit
    /\ hurt = {}

Fault ==
    /\ budget.faults > 0
    /\ budget' = [budget EXCEPT !.faults = @ - 1]

Returns(c) == pc' = [pc EXCEPT ![c] = "idle"]
Succeeds(c) == goal' = [goal EXCEPT ![c] = Shared!Then[@]]

\* What failed is still to be done.
GiveUp(c) == goal' = [goal EXCEPT ![c] = Shared!Again(c, @)]

\* Mutant: the mutex is not let go.
StayLocked(k) == base' = [base EXCEPT ![k] = 0] /\ UNCHANGED holder

Unlock(k) ==
    /\ holder' = [holder EXCEPT ![k] = NoOne]
    /\ base' = [base EXCEPT ![k] = 0]

(***************************************************************************)
(* Sync                                                                    *)
(***************************************************************************)

MaySync(c) ==
    /\ pc[c] = "idle"
    /\ goal[c] \notin {"done", "refused"}
    /\ holder[CloneOf(c)] = NoOne

\* A fast-forward resets the worktree; whether that takes files away which no
\* commit holds depends on the version of go-git.
Pull(c) ==
    LET k == CloneOf(c) IN
    /\ MaySync(c)
    /\ \/ IsPrefix(remote, local[k]) /\ UNCHANGED <<local, left>>
       \/ /\ IsStrictPrefix(local[k], remote)
          /\ local' = [local EXCEPT ![k] = remote]
          /\ \E kept \in {left[k], {}} : left' = [left EXCEPT ![k] = kept]
    /\ pc' = [pc EXCEPT ![c] = "synced"]
    /\ UNCHANGED <<remote, holder, base, goal, tries, polled, hurt, budget>>

\* The remote does not answer, or the two branches have diverged.
PullFails(c) ==
    LET k == CloneOf(c) IN
    /\ MaySync(c)
    /\ \/ Fault
       \/ /\ ~IsPrefix(remote, local[k]) /\ ~IsPrefix(local[k], remote)
          /\ UNCHANGED budget
    /\ GiveUp(c)
    /\ UNCHANGED <<remote, clones, pc, tries, polled, hurt>>

(***************************************************************************)
(* The calls that read                                                     *)
(***************************************************************************)

\* Mutant: the mutex is not taken to read.
ReadsUnlocked(c) ==
    /\ pc[c] = "synced"
    /\ Returns(c)
    /\ UNCHANGED <<remote, clones, tries, hurt, budget>>

Reads(c) ==
    /\ pc[c] = "synced"
    /\ holder[CloneOf(c)] = NoOne
    /\ Returns(c)
    /\ UNCHANGED <<remote, clones, tries, hurt, budget>>

GetLatestRevision(c) ==
    /\ goal[c] = "head"
    /\ Reads(c)
    /\ polled' = Last(local[CloneOf(c)])
    /\ UNCHANGED goal

\* The MSR controller asks again until the rule is fulfilled.
FetchMSRByVersion(c) ==
    /\ goal[c] = "collect"
    /\ Reads(c)
    /\ \/ Requested(Worktree(CloneOf(c))) /\ HasQuorum(CloneOf(c)) /\ Succeeds(c)
       \/ ~HasQuorum(CloneOf(c)) /\ UNCHANGED goal
    /\ UNCHANGED polled

\* "sign msr": without a request the command ends with an error, and a request
\* whose rule is fulfilled is not to be signed any more.
GetLatestMSR(c) ==
    LET k == CloneOf(c) IN
    /\ goal[c] = "latest"
    /\ Reads(c)
    /\ \/ ~Requested(Worktree(k)) /\ GiveUp(c)
       \/ HasQuorum(k) /\ goal' = [goal EXCEPT ![c] = "refused"]
       \/ Requested(Worktree(k)) /\ ~HasQuorum(k) /\ Succeeds(c)
    /\ UNCHANGED polled

GetChangedFilesRaw(c) ==
    /\ goal[c] = "diff"
    /\ Reads(c)
    /\ Succeeds(c)
    /\ UNCHANGED polled

(***************************************************************************)
(* The calls that push                                                     *)
(***************************************************************************)

\* syncAndLock, its second half, and the files of the call.
Stage(c) ==
    LET k == CloneOf(c) IN
    /\ goal[c] \in Writes
    /\ pc[c] = "synced"
    /\ holder[k] = NoOne
    /\ holder' = [holder EXCEPT ![k] = c]
    /\ base' = [base EXCEPT ![k] = Len(local[k])]
    /\ left' = [left EXCEPT ![k] = @ \union {File(c)}]
    /\ pc' = [pc EXCEPT ![c] = "staged"]
    /\ UNCHANGED <<remote, local, goal, tries, polled, hurt, budget>>

\* Mutant: the commits stay.
ForgetFiles(k) ==
    /\ left' = [left EXCEPT ![k] = {}]
    /\ UNCHANGED local

\* A hard reset to the commit syncAndLock found.
Rollback(k) ==
    /\ local' = [local EXCEPT ![k] = SubSeq(@, 1, base[k])]
    /\ left' = [left EXCEPT ![k] = {}]

Abandon(c) ==
    /\ Rollback(CloneOf(c))
    /\ Unlock(CloneOf(c))
    /\ Returns(c)
    /\ GiveUp(c)
    /\ UNCHANGED <<tries, polled, hurt>>

\* A file that cannot be written or added ends the call.  All calls roll back but
\* PushSummaryFile, which leaves its files where they are.
StageFails(c) ==
    LET k == CloneOf(c) IN
    /\ pc[c] = "staged"
    /\ Fault
    /\ UNCHANGED remote
    /\ \/ goal[c] # "summary" /\ Abandon(c)
       \/ /\ goal[c] = "summary"
          /\ Unlock(k) /\ Returns(c)
          /\ UNCHANGED <<local, left, goal, tries, polled, hurt>>

\* The commit takes along what else is staged: nothing says which of the files
\* that were left are.
Commit(c) ==
    LET k == CloneOf(c) IN
    /\ pc[c] = "staged"
    /\ \E files \in SUBSET left[k] :
           /\ File(c) \in files
           /\ local' = [local EXCEPT ![k] =
                           Append(@, [files |-> files, by |-> c, try |-> tries[c] + 1])]
           /\ left' = [left EXCEPT ![k] = @ \ files]
    /\ tries' = [tries EXCEPT ![c] = @ + 1]
    /\ pc' = [pc EXCEPT ![c] = "committed"]
    /\ UNCHANGED <<remote, holder, base, goal, polled, hurt, budget>>

CommitFails(c) ==
    /\ pc[c] = "staged"
    /\ Fault
    /\ Abandon(c)
    /\ UNCHANGED remote

\* Mutant: a push that replaces the branch.
AnyPush(k) == TRUE

\* The server accepts a push that appends.
Appends(k) == IsPrefix(remote, local[k])

Push(c) ==
    LET k == CloneOf(c) IN
    /\ pc[c] = "committed"
    /\ Appends(k)
    /\ remote' = local[k]
    /\ Unlock(k) /\ Returns(c) /\ Succeeds(c)
    /\ UNCHANGED <<local, left, tries, polled, hurt, budget>>

\* Someone else pushed since the pull.
PushRefused(c) ==
    /\ pc[c] = "committed"
    /\ ~Appends(CloneOf(c))
    /\ Abandon(c)
    /\ UNCHANGED <<remote, budget>>

\* The network fails, or the 30 seconds of a call are over, before the server has
\* the commit or after.
PushFails(c) ==
    /\ pc[c] = "committed"
    /\ Fault
    /\ \/ UNCHANGED remote
       \/ Appends(CloneOf(c)) /\ remote' = local[CloneOf(c)]
    /\ Abandon(c)

(***************************************************************************)
(* The environment                                                         *)
(***************************************************************************)

\* The operator is restarted or a command interrupted; the clone's files stay.
Crash(k) ==
    /\ budget.crashes > 0
    /\ budget' = [budget EXCEPT !.crashes = @ - 1]
    /\ hurt' = IF holder[k] = NoOne THEN hurt ELSE hurt \union {k}
    /\ Unlock(k)
    /\ pc' = [c \in Callers |-> IF CloneOf(c) = k THEN "idle" ELSE pc[c]]
    /\ goal' = [c \in Callers |->
                   IF CloneOf(c) = k /\ goal[c] \notin {"done", "refused"}
                   THEN Shared!Again(c, goal[c]) ELSE goal[c]]
    /\ UNCHANGED <<remote, local, left, tries, polled>>

Develop ==
    /\ budget.pushes > 0
    /\ budget' = [budget EXCEPT !.pushes = @ - 1]
    /\ remote' = Append(remote, PushedBy("developer", 1 + budget.pushes))
    /\ UNCHANGED <<clones, callers, hurt>>

\* What a call does when nothing goes wrong but the remote moving on.
Step(c) ==
    \/ Pull(c)
    \/ GetLatestRevision(c) \/ FetchMSRByVersion(c) \/ GetLatestMSR(c)
    \/ GetChangedFilesRaw(c)
    \/ Stage(c) \/ Commit(c) \/ Push(c) \/ PushRefused(c)

Next ==
    \/ \E c \in Callers :
           \/ Step(c)
           \/ PullFails(c) \/ StageFails(c) \/ CommitFails(c) \/ PushFails(c)
    \/ \E k \in Clones : Crash(k)
    \/ Develop

Spec == Init /\ [][Next]_vars

\* Controllers requeue; governors owe nothing.
FairSpec == Spec /\ \A c \in Controllers : WF_vars(Step(c))

-----------------------------------------------------------------------------
(***************************************************************************)
(* Properties                                                              *)
(***************************************************************************)

\* Every variable has its type, and who holds a mutex is in the middle of a write.
TypeOK ==
    /\ DOMAIN local = Clones /\ DOMAIN goal = Callers
    /\ goal \in [Callers -> Shared!Goals]
    /\ pc \in [Callers -> {"idle", "synced", "staged", "committed"}]
    /\ \A k \in Clones :
           /\ left[k] \subseteq Writes \X Callers
           /\ base[k] \in 0 .. Len(local[k])
           /\ \/ holder[k] = NoOne
              \/ CloneOf(holder[k]) = k /\ pc[holder[k]] \in {"staged", "committed"}
    /\ \A c \in Callers : pc[c] \in {"staged", "committed"} => holder[CloneOf(c)] = c
    /\ hurt \subseteq Clones

\* A clone nobody writes to holds no commit that is not published, however the
\* calls on it and on the other clones interleaved and whichever of them failed.
\* Only a process stopped in the middle of a write leaves one behind.
RestingCloneIsPublished == \A k \in Clones \ hurt :
    holder[k] = NoOne => IsPrefix(local[k], remote)

\* A caller that was told its push succeeded finds its file on the shared branch,
\* whatever failed or stopped before and after.
AcknowledgedIsPublished == \A c \in Callers, w \in Writes :
    LET n == Shared!Then IN
    \/ <<w, c>> \in FilesIn(remote)
    \/ ~ \/ c = "msr" /\ w = "request" /\ goal[c] \in {"collect", "done"}
         \/ c = "mca" /\ w = "approval" /\ goal[c] \in {"summary", "done"}
         \/ c = "mca" /\ w = "summary" /\ goal[c] = "done"
         \/ c \in Governors /\ w = "signature" /\ goal[c] = "done"

\* Unless its own process was stopped in the middle of a write, nobody acts on what
\* is not published: neither on a revision, nor on a signature, nor on a request.
ReadersSeeThePublished ==
    /\ "operator" \notin hurt =>
           /\ polled \in Range(remote) \union {NoCommit}
           /\ goal["msr"] = "done" => Fulfilled(FilesIn(remote))
    /\ \A g \in Governors \ hurt :
           /\ goal[g] \in {"diff", "signature"} => Requested(FilesIn(remote))
           /\ goal[g] = "refused" => Fulfilled(FilesIn(remote))

\* The calls on the clones behave as if each had the shared branch to itself.
BranchIsShared == Shared!Spec

\* Every write of a controller reaches the branch in the end, and a quorum on the
\* branch reaches the MSR controller, whatever was refused or failed on the way;
\* a clone hurt by a restart may be beyond that.
WritesLand ==
    /\ \A c \in {"msr", "mca"} : <>(goal[c] \notin Writes \/ "operator" \in hurt)
    /\ Fulfilled(FilesIn(remote)) ~> (goal["msr"] = "done" \/ "operator" \in hurt)
=============================================================================
