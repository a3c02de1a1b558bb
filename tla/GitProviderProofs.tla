-------------------------- MODULE GitProviderProofs --------------------------
(***************************************************************************)
(* What GitProvider guarantees for every set of governors, every quorum    *)
(* and any number of restarts, failed calls and developers' pushes:        *)
(* proofs checked by TLAPS.                                                *)
(***************************************************************************)
EXTENDS GitProvider, SequenceTheorems, FiniteSetTheorems, TLAPS

Busy == {"staged", "committed"}
Commits == [files : SUBSET (Writes \X Callers), by : Callers \union {"developer"}, try : Nat]

-----------------------------------------------------------------------------
(***************************************************************************)
(* The inductive invariant                                                 *)
(***************************************************************************)

Types ==
    /\ remote \in Seq(Commits) /\ Len(remote) >= 1
    /\ local \in [Clones -> Seq(Commits)]
    /\ left \in [Clones -> SUBSET (Writes \X Callers)]
    /\ holder \in [Clones -> Callers \union {NoOne}]
    /\ base \in [Clones -> Nat]
    /\ pc \in [Callers -> {"idle", "synced", "staged", "committed"}]
    /\ goal \in [Callers -> Shared!Goals]
    /\ tries \in [Callers -> Nat]
    /\ hurt \in SUBSET Clones
    /\ budget \in [crashes : Nat, faults : Nat, pushes : Nat]

\* A caller in the middle of a write holds the mutex of its clone, and nobody else does.
HoldersWrite ==
    /\ \A c \in Callers : pc[c] \in Busy => holder[CloneOf(c)] = c /\ goal[c] \in Writes
    /\ \A k \in Clones : holder[k] # NoOne =>
           CloneOf(holder[k]) = k /\ pc[holder[k]] \in Busy

\* Each caller keeps to the calls of its controller or command.
GoalsFit ==
    /\ goal["mrt"] = "head"
    /\ goal["msr"] \in {"request", "collect", "done"}
    /\ goal["mca"] \in {"approval", "summary", "done"}
    /\ \A g \in Governors : goal[g] \in {"latest", "diff", "signature", "done", "refused"}

\* The first n commits of a clone are those of the shared branch.
Agrees(k, n) ==
    /\ n <= Len(local[k]) /\ n <= Len(remote)
    /\ \A i \in 1 .. n : local[k][i] = remote[i]

\* A write adds one commit, its own, to what the clone held when it began.
WriteInProgress(k) ==
    /\ base[k] >= 1
    /\ pc[holder[k]] = "staged" => /\ Len(local[k]) = base[k]
                                   /\ File(holder[k]) \in left[k]
    /\ pc[holder[k]] = "committed" => /\ Len(local[k]) = base[k] + 1
                                      /\ Last(local[k]).by = holder[k]
                                      /\ File(holder[k]) \in Last(local[k]).files

\* What an unscarred clone may hold beyond the shared branch: the commit of the
\* write in progress, its file, and the summary that a failed call left.
Unscarred(k) ==
    /\ holder[k] = NoOne => Agrees(k, Len(local[k]))
    /\ holder[k] # NoOne => Agrees(k, base[k])
    /\ \A f \in left[k] : \/ f = <<"summary", "mca">>
                          \/ /\ holder[k] # NoOne /\ pc[holder[k]] = "staged"
                             /\ f = File(holder[k])

Shape(k) ==
    /\ holder[k] = NoOne => base[k] = 0
    /\ holder[k] # NoOne => WriteInProgress(k)
    /\ k \notin hurt => Unscarred(k)

\* Commits that are not shared were made on this clone.
Origin(k) == \A i \in 1 .. Len(local[k]) :
    \/ i <= Len(remote) /\ local[k][i] = remote[i]
    \/ CloneOf(local[k][i].by) = k

CloneShape == \A k \in Clones : Shape(k)
Origins == \A k \in Clones : Origin(k)

SyncedHasCommits == \A c \in Callers :
    pc[c] = "synced" => Len(local[CloneOf(c)]) >= 1

\* The state of the clones, which is inductive by itself.
CInv == Types /\ HoldersWrite /\ GoalsFit /\ CloneShape /\ Origins /\ SyncedHasCommits

-----------------------------------------------------------------------------
(***************************************************************************)
(* Names and sequences                                                     *)
(***************************************************************************)

LEMMA CallerNames ==
    /\ Callers = {"mrt", "msr", "mca"} \union Governors
    /\ Clones = {"operator"} \union Governors
    /\ Writes = {"request", "approval", "summary", "signature"}
    /\ NoOne \notin Callers
    /\ "developer" \notin Callers
    /\ \A g \in Governors : g \notin {"mrt", "msr", "mca", "operator"}
  BY NamesAssumption DEF Callers, Shared!Callers, Controllers, Shared!Controllers, Clones,
     Shared!Clones, Writes, Shared!Writes, NoOne

LEMMA CloneNames ==
    /\ \A c \in Callers : CloneOf(c) \in Clones
    /\ \A c \in Governors : CloneOf(c) = c
    /\ \A c : c \notin Governors => CloneOf(c) = "operator"
  BY CallerNames DEF CloneOf, Shared!CloneOf

LEMMA GoalNames ==
    /\ Shared!Goals = {"head", "request", "collect", "approval", "summary", "latest",
                       "diff", "signature", "done", "refused"}
    /\ Shared!Then["head"] = "head"
    /\ Shared!Then["request"] = "collect"
    /\ Shared!Then["collect"] = "done"
    /\ Shared!Then["approval"] = "summary"
    /\ Shared!Then["summary"] = "done"
    /\ Shared!Then["latest"] = "diff"
    /\ Shared!Then["diff"] = "signature"
    /\ Shared!Then["signature"] = "done"
  BY DEF Shared!Goals, Shared!Then

LEMMA PrefixAt ==
    ASSUME NEW S, NEW s \in Seq(S), NEW t \in Seq(S)
    PROVE  IsPrefix(s, t) <=> /\ Len(s) <= Len(t)
                              /\ \A i \in 1 .. Len(s) : s[i] = t[i]
<1>1. Len(s) <= Len(t) =>
          /\ Len(SubSeq(s, 1, Len(s))) = Len(s)
          /\ Len(SubSeq(t, 1, Len(s))) = Len(s)
          /\ \A i \in 1 .. Len(s) : SubSeq(s, 1, Len(s))[i] = s[i]
          /\ \A i \in 1 .. Len(s) : SubSeq(t, 1, Len(s))[i] = t[i]
  OBVIOUS
<1>2. Len(s) <= Len(t) => /\ SubSeq(s, 1, Len(s)) \in Seq(S)
                          /\ SubSeq(t, 1, Len(s)) \in Seq(S)
  OBVIOUS
<1>3. ASSUME Len(s) <= Len(t), \A i \in 1 .. Len(s) : s[i] = t[i]
      PROVE  SubSeq(s, 1, Len(s)) = SubSeq(t, 1, Len(s))
  BY <1>1, <1>2, <1>3, SeqEqual
<1>. QED
  BY <1>1, <1>3 DEF IsPrefix

-----------------------------------------------------------------------------
(***************************************************************************)
(* Types                                                                   *)
(***************************************************************************)

\* Where a failed or a finished call leads is a goal.
LEMMA GoalTypes ==
    /\ \A c \in Callers, w \in Shared!Goals : Shared!Again(c, w) \in Shared!Goals
    /\ \A w \in Shared!Goals \ {"done", "refused"} : Shared!Then[w] \in Shared!Goals
    /\ \A c \in Callers : Shared!FirstGoal(c) \in Shared!Goals
    /\ Writes \subseteq Shared!Goals \ {"done", "refused"}
  BY GoalNames, CallerNames DEF Shared!Again, Shared!FirstGoal

LEMMA TypesInit == Init => Types
<1>. SUFFICES ASSUME Init PROVE Types
  OBVIOUS
<1>1. PushedBy("developer", 1) \in Commits
  BY DEF PushedBy, Commits
<1>2. /\ remote \in Seq(Commits) /\ Len(remote) >= 1
      /\ local \in [Clones -> Seq(Commits)]
  BY <1>1 DEF Init
<1>3. budget \in [crashes : Nat, faults : Nat, pushes : Nat]
  BY BudgetsAssumption DEF BudgetsAssumption, Init
<1>. QED
  BY <1>2, <1>3, GoalTypes DEF Init, Types

LEMMA GiveUpType ==
    ASSUME Types, NEW c \in Callers, GiveUp(c)
    PROVE  goal' \in [Callers -> Shared!Goals]
  BY GoalTypes DEF Types, GiveUp

LEMMA SucceedsType ==
    ASSUME Types, NEW c \in Callers, Succeeds(c), goal[c] \notin {"done", "refused"}
    PROVE  goal' \in [Callers -> Shared!Goals]
  BY GoalTypes DEF Types, Succeeds

LEMMA ReturnsType ==
    ASSUME Types, NEW c \in Callers, Returns(c)
    PROVE  pc' \in [Callers -> {"idle", "synced", "staged", "committed"}]
  BY DEF Types, Returns

LEMMA UnlockType ==
    ASSUME Types, NEW k \in Clones, Unlock(k)
    PROVE  /\ holder' \in [Clones -> Callers \union {NoOne}]
           /\ base' \in [Clones -> Nat]
  BY DEF Types, Unlock

LEMMA FaultType ==
    ASSUME Types, Fault
    PROVE  budget' \in [crashes : Nat, faults : Nat, pushes : Nat]
<1>1. /\ budget \in [crashes : Nat, faults : Nat, pushes : Nat]
      /\ budget.faults \in Nat /\ budget.faults > 0
      /\ budget' = [budget EXCEPT !.faults = @ - 1]
  BY DEF Types, Fault
<1>2. budget.faults - 1 \in Nat
  BY <1>1
<1>. QED
  BY <1>1, <1>2

\* A reset leaves the first commits of the clone.
LEMMA PrefixFacts ==
    ASSUME NEW S, NEW s \in Seq(S), NEW n \in 0 .. Len(s)
    PROVE  /\ SubSeq(s, 1, n) \in Seq(S)
           /\ Len(SubSeq(s, 1, n)) = n
           /\ \A i \in 1 .. n : SubSeq(s, 1, n)[i] = s[i]
  OBVIOUS

\* What the clone of a caller that has written or committed its file looks like.
LEMMA Writing ==
    ASSUME CInv, NEW c \in Callers, pc[c] \in Busy
    PROVE  LET k == CloneOf(c) IN
           /\ k \in Clones /\ holder[k] = c /\ c # NoOne
           /\ goal[c] \in Writes
           /\ WriteInProgress(k)
           /\ local[k] \in Seq(Commits)
           /\ base[k] \in 1 .. Len(local[k])
           /\ k \notin hurt => Unscarred(k)
<1>1. /\ CloneOf(c) \in Clones /\ holder[CloneOf(c)] = c /\ c # NoOne
      /\ goal[c] \in Writes
  BY CallerNames, CloneNames DEF CInv, HoldersWrite
<1>2. WriteInProgress(CloneOf(c)) /\ (CloneOf(c) \notin hurt => Unscarred(CloneOf(c)))
  BY <1>1 DEF CInv, CloneShape, Shape
<1>3. local[CloneOf(c)] \in Seq(Commits) /\ base[CloneOf(c)] \in Nat
  BY <1>1 DEF CInv, Types
<1>4. Len(local[CloneOf(c)]) \in Nat
  BY <1>3
<1>5. base[CloneOf(c)] \in 1 .. Len(local[CloneOf(c)])
  BY <1>1, <1>2, <1>3, <1>4 DEF WriteInProgress, Busy
<1>. QED
  BY <1>1, <1>2, <1>3, <1>5

LEMMA AbandonTypes ==
    ASSUME CInv, NEW c \in Callers, pc[c] \in Busy, Abandon(c),
           remote' \in Seq(Commits), Len(remote') >= 1,
           budget' \in [crashes : Nat, faults : Nat, pushes : Nat]
    PROVE  Types'
<1>. DEFINE k == CloneOf(c)
<1>1. k \in Clones /\ base[k] \in 1 .. Len(local[k]) /\ local[k] \in Seq(Commits)
  BY Writing
<1>2. SubSeq(local[k], 1, base[k]) \in Seq(Commits)
  <2>1. base[k] \in 0 .. Len(local[k])
    BY <1>1
  <2>. HIDE DEF k
  <2>. QED
    BY <1>1, <2>1, PrefixFacts
<1>3. /\ local' \in [Clones -> Seq(Commits)]
      /\ left' \in [Clones -> SUBSET (Writes \X Callers)]
  BY <1>1, <1>2 DEF Abandon, Rollback, CInv, Types
<1>4. /\ holder' \in [Clones -> Callers \union {NoOne}]
      /\ base' \in [Clones -> Nat]
      /\ pc' \in [Callers -> {"idle", "synced", "staged", "committed"}]
      /\ goal' \in [Callers -> Shared!Goals]
  BY <1>1, UnlockType, ReturnsType, GiveUpType DEF Abandon, CInv
<1>. QED
  BY <1>3, <1>4 DEF Types, CInv, Abandon

LEMMA CommitTypes ==
    ASSUME CInv, NEW c \in Callers, Commit(c)
    PROVE  Types'
<1>. DEFINE k == CloneOf(c)
<1>1. k \in Clones /\ local[k] \in Seq(Commits)
  BY CloneNames DEF CInv, Types
<1>2. PICK files \in SUBSET left[k] :
          /\ local' = [local EXCEPT ![k] =
                          Append(@, [files |-> files, by |-> c, try |-> tries[c] + 1])]
          /\ left' = [left EXCEPT ![k] = @ \ files]
  BY DEF Commit
<1>3. [files |-> files, by |-> c, try |-> tries[c] + 1] \in Commits
  BY <1>1 DEF Commits, CInv, Types
<1>4. local' \in [Clones -> Seq(Commits)]
  BY <1>1, <1>2, <1>3 DEF CInv, Types
<1>5. left' \in [Clones -> SUBSET (Writes \X Callers)]
  BY <1>1, <1>2 DEF CInv, Types
<1>6. tries' \in [Callers -> Nat]
  BY DEF CInv, Types, Commit
<1>7. pc' \in [Callers -> {"idle", "synced", "staged", "committed"}]
  BY DEF CInv, Types, Commit
<1>. QED
  BY <1>4, <1>5, <1>6, <1>7 DEF CInv, Types, Commit

LEMMA PullTypes ==
    ASSUME CInv, NEW c \in Callers, Pull(c)
    PROVE  Types'
<1>. DEFINE k == CloneOf(c)
<1>1. k \in Clones
  BY CloneNames
<1>2. local' \in [Clones -> Seq(Commits)]
  BY <1>1 DEF CInv, Types, Pull
<1>3. left' \in [Clones -> SUBSET (Writes \X Callers)]
  <2>1. CASE UNCHANGED left
    BY <2>1 DEF CInv, Types
  <2>2. ASSUME NEW kept \in {left[k], {}}, left' = [left EXCEPT ![k] = kept]
        PROVE  left' \in [Clones -> SUBSET (Writes \X Callers)]
    BY <1>1, <2>2 DEF CInv, Types
  <2>. QED
    BY <2>1, <2>2 DEF Pull
<1>4. pc' \in [Callers -> {"idle", "synced", "staged", "committed"}]
  BY DEF CInv, Types, Pull
<1>. QED
  BY <1>2, <1>3, <1>4 DEF CInv, Types, Pull

LEMMA StageTypes ==
    ASSUME CInv, NEW c \in Callers, Stage(c)
    PROVE  Types'
<1>. DEFINE k == CloneOf(c)
<1>1. k \in Clones /\ local[k] \in Seq(Commits) /\ File(c) \in Writes \X Callers
  BY CloneNames DEF CInv, Types, Stage, File
<1>2. /\ holder' \in [Clones -> Callers \union {NoOne}]
      /\ base' \in [Clones -> Nat]
  BY <1>1 DEF CInv, Types, Stage
<1>3. left' \in [Clones -> SUBSET (Writes \X Callers)]
  BY <1>1 DEF CInv, Types, Stage
<1>4. pc' \in [Callers -> {"idle", "synced", "staged", "committed"}]
  BY DEF CInv, Types, Stage
<1>. QED
  BY <1>2, <1>3, <1>4 DEF CInv, Types, Stage

\* The calls that read change what their caller does next, and no clone.
Reading(c) ==
    \/ GetLatestRevision(c) \/ FetchMSRByVersion(c) \/ GetLatestMSR(c)
    \/ GetChangedFilesRaw(c)

LEMMA ReadingStep ==
    ASSUME CInv, NEW c \in Callers, Reading(c)
    PROVE  /\ pc[c] = "synced" /\ holder[CloneOf(c)] = NoOne
           /\ Returns(c)
           /\ UNCHANGED <<remote, clones, tries, hurt, budget>>
           /\ \/ UNCHANGED goal
              \/ Succeeds(c) /\ goal[c] \in {"collect", "latest", "diff"}
              \/ GiveUp(c) /\ goal[c] = "latest"
              \/ goal' = [goal EXCEPT ![c] = "refused"] /\ goal[c] = "latest"
  BY DEF Reading, Reads, GetLatestRevision, FetchMSRByVersion, GetLatestMSR,
     GetChangedFilesRaw

LEMMA ReadingTypes ==
    ASSUME CInv, NEW c \in Callers, Reading(c)
    PROVE  Types'
<1>1. pc' \in [Callers -> {"idle", "synced", "staged", "committed"}]
  BY ReadingStep, ReturnsType DEF CInv
<1>2. goal' \in [Callers -> Shared!Goals]
  <2>1. CASE UNCHANGED goal
    BY <2>1 DEF CInv, Types
  <2>2. CASE Succeeds(c) /\ goal[c] \in {"collect", "latest", "diff"}
    BY <2>2, SucceedsType DEF CInv
  <2>3. CASE GiveUp(c)
    BY <2>3, GiveUpType DEF CInv
  <2>4. CASE goal' = [goal EXCEPT ![c] = "refused"]
    BY <2>4, GoalNames DEF CInv, Types
  <2>. QED
    BY <2>1, <2>2, <2>3, <2>4, ReadingStep
<1>. QED
  BY <1>1, <1>2, ReadingStep DEF CInv, Types, clones

LEMMA PushTypes ==
    ASSUME CInv, NEW c \in Callers, Push(c)
    PROVE  Types'
<1>. DEFINE k == CloneOf(c)
<1>1. k \in Clones /\ local[k] \in Seq(Commits) /\ base[k] \in 1 .. Len(local[k])
      /\ goal[c] \in Writes
  BY Writing DEF Push, Busy
<1>2. remote' \in Seq(Commits) /\ Len(remote') >= 1
  BY <1>1 DEF Push
<1>3. /\ holder' \in [Clones -> Callers \union {NoOne}]
      /\ base' \in [Clones -> Nat]
      /\ pc' \in [Callers -> {"idle", "synced", "staged", "committed"}]
  BY <1>1, UnlockType, ReturnsType DEF Push, CInv
<1>4. goal' \in [Callers -> Shared!Goals]
  BY <1>1, SucceedsType, GoalTypes DEF Push, CInv
<1>. QED
  BY <1>2, <1>3, <1>4 DEF Push, CInv, Types

LEMMA FailureTypes ==
    ASSUME CInv, NEW c \in Callers,
           PullFails(c) \/ StageFails(c) \/ CommitFails(c) \/ PushRefused(c) \/ PushFails(c)
    PROVE  Types'
<1>. DEFINE k == CloneOf(c)
<1>0. remote \in Seq(Commits) /\ Len(remote) >= 1
      /\ budget \in [crashes : Nat, faults : Nat, pushes : Nat]
  BY DEF CInv, Types
<1>1. CASE PullFails(c)
  <2>1. budget' \in [crashes : Nat, faults : Nat, pushes : Nat]
    BY <1>0, <1>1, FaultType DEF PullFails, CInv
  <2>2. goal' \in [Callers -> Shared!Goals]
    BY <1>1, GiveUpType DEF PullFails, CInv
  <2>. QED
    BY <1>1, <2>1, <2>2 DEF PullFails, CInv, Types, clones
<1>2. CASE StageFails(c)
  <2>1. budget' \in [crashes : Nat, faults : Nat, pushes : Nat]
    BY <1>2, FaultType DEF StageFails, CInv
  <2>2. k \in Clones
    BY CloneNames
  <2>3. CASE Abandon(c)
    BY <1>0, <1>2, <2>1, <2>3, AbandonTypes DEF StageFails, Busy
  <2>4. CASE Unlock(k) /\ Returns(c) /\ UNCHANGED <<local, left, goal, tries, polled, hurt>>
    BY <1>0, <1>2, <2>1, <2>2, <2>4, UnlockType, ReturnsType DEF StageFails, CInv, Types
  <2>. QED
    BY <1>2, <2>3, <2>4 DEF StageFails
<1>3. CASE CommitFails(c)
  BY <1>0, <1>3, FaultType, AbandonTypes DEF CommitFails, CInv, Busy
<1>4. CASE PushRefused(c)
  BY <1>0, <1>4, AbandonTypes DEF PushRefused, Busy
<1>5. CASE PushFails(c)
  <2>1. local[k] \in Seq(Commits) /\ base[k] \in 1 .. Len(local[k]) /\ pc[c] \in Busy
    BY <1>5, Writing DEF PushFails, Busy
  <2>2. remote' \in Seq(Commits) /\ Len(remote') >= 1
    BY <1>0, <1>5, <2>1 DEF PushFails
  <2>3. budget' \in [crashes : Nat, faults : Nat, pushes : Nat] /\ Abandon(c)
    BY <1>5, FaultType DEF PushFails, CInv
  <2>. QED
    BY <2>1, <2>2, <2>3, AbandonTypes
<1>. QED
  BY <1>1, <1>2, <1>3, <1>4, <1>5

LEMMA EnvironmentTypes ==
    ASSUME CInv, Develop \/ \E k \in Clones : Crash(k)
    PROVE  Types'
<1>0. /\ budget \in [crashes : Nat, faults : Nat, pushes : Nat]
      /\ budget.crashes \in Nat /\ budget.pushes \in Nat
  BY DEF CInv, Types
<1>1. CASE Develop
  <2>1. PushedBy("developer", 1 + budget.pushes) \in Commits
    BY <1>0 DEF PushedBy, Commits
  <2>2. remote' \in Seq(Commits) /\ Len(remote') >= 1
    BY <1>1, <2>1 DEF Develop, CInv, Types
  <2>3. budget.pushes - 1 \in Nat
    BY <1>0, <1>1 DEF Develop
  <2>4. budget' \in [crashes : Nat, faults : Nat, pushes : Nat]
    BY <1>0, <1>1, <2>3 DEF Develop
  <2>. QED
    BY <1>1, <2>2, <2>4 DEF Develop, CInv, Types, clones, callers
<1>2. ASSUME NEW k \in Clones, Crash(k) PROVE Types'
  <2>1. budget.crashes - 1 \in Nat
    BY <1>0, <1>2 DEF Crash
  <2>2. budget' \in [crashes : Nat, faults : Nat, pushes : Nat]
    BY <1>0, <1>2, <2>1 DEF Crash
  <2>3. /\ holder' \in [Clones -> Callers \union {NoOne}]
        /\ base' \in [Clones -> Nat]
    BY <1>2, UnlockType DEF Crash, CInv
  <2>4. pc' \in [Callers -> {"idle", "synced", "staged", "committed"}]
    BY <1>2 DEF Crash, CInv, Types
  <2>5. goal' \in [Callers -> Shared!Goals]
    BY <1>2, GoalTypes DEF Crash, CInv, Types
  <2>6. hurt' \in SUBSET Clones
    BY <1>2 DEF Crash, CInv, Types
  <2>. QED
    BY <1>2, <2>2, <2>3, <2>4, <2>5, <2>6 DEF Crash, CInv, Types
<1>. QED
  BY <1>1, <1>2

-----------------------------------------------------------------------------
(***************************************************************************)
(* One call at a time                                                      *)
(***************************************************************************)

Grows ==
    /\ Len(remote) <= Len(remote')
    /\ \A i \in 1 .. Len(remote) : remote'[i] = remote[i]

Calls(c) ==
    \/ Pull(c) \/ Reading(c) \/ Stage(c) \/ Commit(c) \/ Push(c)
    \/ PullFails(c) \/ StageFails(c) \/ CommitFails(c) \/ PushRefused(c) \/ PushFails(c)

Failing(c) ==
    PullFails(c) \/ StageFails(c) \/ CommitFails(c) \/ PushRefused(c) \/ PushFails(c)

LEMMA Steps ==
    ASSUME Next
    PROVE  \/ \E c \in Callers : Calls(c)
           \/ \E k \in Clones : Crash(k)
           \/ Develop
  BY DEF Next, Step, Calls, Reading

\* A step of one caller leaves the other callers and the other clones alone.
CallerStep(c) ==
    /\ \A d \in Callers : d # c => pc'[d] = pc[d] /\ goal'[d] = goal[d]
    /\ \A k \in Clones : k # CloneOf(c) =>
           /\ local'[k] = local[k] /\ left'[k] = left[k]
           /\ holder'[k] = holder[k] /\ base'[k] = base[k]
    /\ hurt' = hurt
    /\ Types'
    /\ Grows

LEMMA AppendsGrows ==
    ASSUME CInv, NEW k \in Clones, Appends(k), remote' = local[k]
    PROVE  Grows
<1>1. remote \in Seq(Commits) /\ local[k] \in Seq(Commits)
  BY DEF CInv, Types
<1>. QED
  BY <1>1, PrefixAt DEF Appends, Grows

LEMMA CallTypes ==
    ASSUME CInv, NEW c \in Callers, Calls(c)
    PROVE  Types'
  BY PullTypes, ReadingTypes, StageTypes, CommitTypes, PushTypes, FailureTypes DEF Calls

LEMMA RemoteGrows ==
    ASSUME CInv, NEW c \in Callers, Calls(c)
    PROVE  Grows
<1>1. CloneOf(c) \in Clones
  BY CloneNames
<1>2. \/ remote' = remote
      \/ Appends(CloneOf(c)) /\ remote' = local[CloneOf(c)]
  <2>1. Reading(c) => remote' = remote
    BY ReadingStep
  <2>. QED
    BY <2>1 DEF Calls, Pull, Stage, Commit, Push, PullFails, StageFails, CommitFails,
       PushRefused, PushFails
<1>3. remote' = remote => Grows
  BY DEF CInv, Types, Grows
<1>. QED
  BY <1>1, <1>2, <1>3, AppendsGrows

LEMMA AbandonFrame ==
    ASSUME CInv, NEW c \in Callers, Abandon(c)
    PROVE  /\ \A d \in Callers : d # c => pc'[d] = pc[d] /\ goal'[d] = goal[d]
           /\ \A k \in Clones : k # CloneOf(c) =>
                  /\ local'[k] = local[k] /\ left'[k] = left[k]
                  /\ holder'[k] = holder[k] /\ base'[k] = base[k]
           /\ hurt' = hurt
<1>1. \A d \in Callers : d # c => pc'[d] = pc[d] /\ goal'[d] = goal[d]
  BY DEF CInv, Types, Abandon, Returns, GiveUp
<1>2. \A k \in Clones : k # CloneOf(c) =>
          /\ local'[k] = local[k] /\ left'[k] = left[k]
          /\ holder'[k] = holder[k] /\ base'[k] = base[k]
  BY DEF CInv, Types, Abandon, Rollback, Unlock
<1>. QED
  BY <1>1, <1>2 DEF Abandon

LEMMA CallFrame ==
    ASSUME CInv, NEW c \in Callers, Calls(c)
    PROVE  CallerStep(c)
<1>. DEFINE Others == \A d \in Callers : d # c => pc'[d] = pc[d] /\ goal'[d] = goal[d]
            Clear == \A k \in Clones : k # CloneOf(c) =>
                         /\ local'[k] = local[k] /\ left'[k] = left[k]
                         /\ holder'[k] = holder[k] /\ base'[k] = base[k]
<1>0. /\ local \in [Clones -> Seq(Commits)] /\ left \in [Clones -> SUBSET (Writes \X Callers)]
      /\ holder \in [Clones -> Callers \union {NoOne}] /\ base \in [Clones -> Nat]
      /\ pc \in [Callers -> {"idle", "synced", "staged", "committed"}]
      /\ goal \in [Callers -> Shared!Goals]
  BY DEF CInv, Types
<1>1. CASE Abandon(c) /\ Failing(c)
  BY <1>1, AbandonFrame, CallTypes, RemoteGrows DEF CallerStep
<1>2. CASE Pull(c)
  BY <1>0, <1>2, CallTypes, RemoteGrows DEF CallerStep, Pull
<1>3. CASE Reading(c)
  <2>1. Others
    BY <1>0, <1>3, ReadingStep DEF Returns, Succeeds, GiveUp
  <2>. QED
    BY <1>3, <2>1, ReadingStep, CallTypes, RemoteGrows DEF CallerStep, clones
<1>4. CASE Stage(c)
  BY <1>0, <1>4, CallTypes, RemoteGrows DEF CallerStep, Stage
<1>5. CASE Commit(c)
  <2>1. Others
    BY <1>0, <1>5 DEF Commit
  <2>2. Clear
    BY <1>0, <1>5 DEF Commit
  <2>. QED
    BY <1>5, <2>1, <2>2, CallTypes, RemoteGrows DEF CallerStep, Commit
<1>6. CASE Push(c)
  BY <1>0, <1>6, CallTypes, RemoteGrows DEF CallerStep, Push, Unlock, Returns, Succeeds
<1>7. CASE PullFails(c)
  BY <1>0, <1>7, CallTypes, RemoteGrows DEF CallerStep, PullFails, clones, GiveUp
<1>8. CASE StageFails(c) /\ ~Abandon(c)
  BY <1>0, <1>8, CallTypes, RemoteGrows DEF CallerStep, StageFails, Unlock, Returns
<1>9. Failing(c) => PullFails(c) \/ StageFails(c) \/ Abandon(c)
  BY DEF Failing, CommitFails, PushRefused, PushFails
<1>. QED
  BY <1>1, <1>2, <1>3, <1>4, <1>5, <1>6, <1>7, <1>8, <1>9 DEF Calls, Failing

-----------------------------------------------------------------------------
(***************************************************************************)
(* The other clones, and the conjuncts that name callers                   *)
(***************************************************************************)

\* A clone nothing was done to keeps its shape while the shared branch grows.
Untouched(k) ==
    /\ local'[k] = local[k] /\ left'[k] = left[k]
    /\ holder'[k] = holder[k] /\ base'[k] = base[k]
    /\ k \in hurt' <=> k \in hurt
    /\ holder[k] # NoOne => /\ pc'[holder[k]] = pc[holder[k]]
                            /\ goal'[holder[k]] = goal[holder[k]]

LEMMA ShapeKept ==
    ASSUME CInv, Grows, Types', NEW k \in Clones, Untouched(k)
    PROVE  Shape(k)' /\ Origin(k)'
<1>1. Shape(k) /\ Origin(k)
  BY DEF CInv, CloneShape, Origins
<1>2. /\ local[k] \in Seq(Commits) /\ Len(local[k]) \in Nat /\ base[k] \in Nat
      /\ remote \in Seq(Commits) /\ remote' \in Seq(Commits)
  BY DEF CInv, Types
<1>3. holder'[k] = NoOne => base'[k] = 0
  BY <1>1 DEF Untouched, Shape
<1>4. holder'[k] # NoOne => WriteInProgress(k)'
  BY <1>1 DEF Untouched, Shape, WriteInProgress, File
<1>5. k \notin hurt' => Unscarred(k)'
  <2>. SUFFICES ASSUME k \notin hurt' PROVE Unscarred(k)'
    OBVIOUS
  <2>1. Unscarred(k)
    BY <1>1 DEF Untouched, Shape
  <2>2. \A n \in Nat : Agrees(k, n) => Agrees(k, n)'
    BY <1>2 DEF Untouched, Agrees, Grows
  <2>3. holder'[k] = NoOne => Agrees(k, Len(local[k]))'
    BY <1>2, <2>1, <2>2 DEF Untouched, Unscarred
  <2>4. holder'[k] # NoOne => Agrees(k, base[k])'
    BY <1>2, <2>1, <2>2 DEF Untouched, Unscarred
  <2>5. \A f \in left'[k] : \/ f = <<"summary", "mca">>
                            \/ /\ holder'[k] # NoOne /\ pc'[holder'[k]] = "staged"
                               /\ f = File(holder[k])'
    BY <2>1 DEF Untouched, Unscarred, File
  <2>. QED
    BY <2>3, <2>4, <2>5 DEF Unscarred
<1>6. Origin(k)'
  <2>1. \A i \in 1 .. Len(local[k]) : i <= Len(remote) /\ local[k][i] = remote[i]
            => i <= Len(remote') /\ local[k][i] = remote'[i]
    BY <1>2 DEF Grows
  <2>. QED
    BY <1>1, <2>1 DEF Untouched, Origin
<1>. QED
  BY <1>3, <1>4, <1>5, <1>6 DEF Shape

LEMMA OthersKept ==
    ASSUME CInv, NEW c \in Callers, CallerStep(c), NEW k \in Clones, k # CloneOf(c)
    PROVE  Shape(k)' /\ Origin(k)'
<1>1. holder[k] # NoOne => holder[k] \in Callers /\ holder[k] # c
  BY DEF CInv, Types, HoldersWrite
<1>2. Untouched(k)
  BY <1>1 DEF CallerStep, Untouched
<1>. QED
  BY <1>2, ShapeKept DEF CallerStep

LEMMA OwnClone ==
    ASSUME CInv, NEW c \in Callers, CallerStep(c),
           Shape(CloneOf(c))', Origin(CloneOf(c))'
    PROVE  CloneShape' /\ Origins'
<1>1. \A k \in Clones : Shape(k)' /\ Origin(k)'
  <2>. TAKE k \in Clones
  <2>1. CASE k = CloneOf(c)
    BY <2>1
  <2>2. CASE k # CloneOf(c)
    BY <2>2, OthersKept
  <2>. QED
    BY <2>1, <2>2
<1>. QED
  BY <1>1 DEF CloneShape, Origins

\* The mutex of c's clone is its own or free, before and after the step.
LEMMA HoldersStep ==
    ASSUME CInv, NEW c \in Callers, CallerStep(c),
           holder[CloneOf(c)] \in {c, NoOne},
           \/ /\ pc'[c] \in Busy /\ holder'[CloneOf(c)] = c /\ goal'[c] \in Writes
           \/ /\ pc'[c] \notin Busy /\ holder'[CloneOf(c)] = NoOne
    PROVE  HoldersWrite'
<1>. DEFINE own == CloneOf(c)
<1>0. own \in Clones /\ c # NoOne
  BY CloneNames, CallerNames
<1>1. ASSUME NEW d \in Callers, pc'[d] \in Busy
      PROVE  holder'[CloneOf(d)] = d /\ goal'[d] \in Writes
  <2>1. CASE d = c
    BY <1>1, <2>1
  <2>2. CASE d # c
    <3>1. pc[d] \in Busy /\ goal'[d] = goal[d]
      BY <1>1, <2>2 DEF CallerStep
    <3>2. holder[CloneOf(d)] = d /\ goal[d] \in Writes
      BY <3>1 DEF CInv, HoldersWrite
    <3>3. CloneOf(d) # own /\ CloneOf(d) \in Clones
      BY <2>2, <3>2, CallerNames, CloneNames
    <3>. QED
      BY <3>1, <3>2, <3>3 DEF CallerStep
  <2>. QED
    BY <2>1, <2>2
<1>2. ASSUME NEW k \in Clones, holder'[k] # NoOne
      PROVE  CloneOf(holder'[k]) = k /\ pc'[holder'[k]] \in Busy
  <2>1. CASE k = own
    BY <1>0, <1>2, <2>1
  <2>2. CASE k # own
    <3>1. holder'[k] = holder[k] /\ CloneOf(holder[k]) = k /\ pc[holder[k]] \in Busy
          /\ holder[k] \in Callers
      BY <1>2, <2>2 DEF CallerStep, CInv, HoldersWrite, Types
    <3>2. pc'[holder[k]] = pc[holder[k]]
      BY <2>2, <3>1 DEF CallerStep
    <3>. QED
      BY <3>1, <3>2
  <2>. QED
    BY <2>1, <2>2
<1>. QED
  BY <1>1, <1>2 DEF HoldersWrite

LEMMA SyncedStep ==
    ASSUME CInv, NEW c \in Callers, CallerStep(c),
           \/ Len(local'[CloneOf(c)]) >= 1
           \/ local'[CloneOf(c)] = local[CloneOf(c)] /\ pc'[c] # "synced"
    PROVE  SyncedHasCommits'
<1>1. ASSUME NEW d \in Callers, pc'[d] = "synced"
      PROVE  Len(local'[CloneOf(d)]) >= 1
  <2>1. CASE Len(local'[CloneOf(c)]) >= 1 /\ CloneOf(d) = CloneOf(c)
    BY <2>1
  <2>2. CASE local'[CloneOf(d)] = local[CloneOf(d)] /\ d # c
    BY <1>1, <2>2 DEF CallerStep, CInv, SyncedHasCommits
  <2>3. CloneOf(d) \in Clones
    BY CloneNames
  <2>. QED
    BY <1>1, <2>1, <2>2, <2>3 DEF CallerStep
<1>. QED
  BY <1>1 DEF SyncedHasCommits

LEMMA GoalsStep ==
    ASSUME CInv, NEW c \in Callers,
           \/ UNCHANGED goal
           \/ Succeeds(c) /\ goal[c] \notin {"done", "refused"}
           \/ GiveUp(c)
           \/ goal' = [goal EXCEPT ![c] = "refused"] /\ goal[c] = "latest"
    PROVE  GoalsFit'
<1>0. goal \in [Callers -> Shared!Goals] /\ GoalsFit
  BY DEF CInv, Types
<1>1. CASE UNCHANGED goal
  BY <1>0, <1>1 DEF GoalsFit
<1>2. CASE Succeeds(c) /\ goal[c] \notin {"done", "refused"}
  BY <1>0, <1>2, CallerNames, GoalNames DEF GoalsFit, Succeeds
<1>3. CASE GiveUp(c)
  BY <1>0, <1>3, CallerNames DEF GoalsFit, GiveUp, Shared!Again
<1>4. CASE goal' = [goal EXCEPT ![c] = "refused"] /\ goal[c] = "latest"
  BY <1>0, <1>4, CallerNames DEF GoalsFit
<1>. QED
  BY <1>1, <1>2, <1>3, <1>4

-----------------------------------------------------------------------------
(***************************************************************************)
(* The inductive step, action by action                                    *)
(***************************************************************************)

\* Nobody writes to a clone whose mutex is free.
LEMMA RestingClone ==
    ASSUME CInv, NEW c \in Callers, holder[CloneOf(c)] = NoOne
    PROVE  /\ CloneOf(c) \in Clones /\ base[CloneOf(c)] = 0
           /\ pc[c] \notin Busy
           /\ local[CloneOf(c)] \in Seq(Commits)
           /\ Origin(CloneOf(c)) /\ Shape(CloneOf(c))
           /\ CloneOf(c) \notin hurt =>
                  /\ Agrees(CloneOf(c), Len(local[CloneOf(c)]))
                  /\ left[CloneOf(c)] \subseteq {<<"summary", "mca">>}
  BY CloneNames, CallerNames
     DEF CInv, Types, HoldersWrite, CloneShape, Origins, Shape, Unscarred

LEMMA PullInv ==
    ASSUME CInv, NEW c \in Callers, Pull(c)
    PROVE  CInv'
<1>. DEFINE k == CloneOf(c)
<1>1. CallerStep(c) /\ Types'
  BY CallFrame, CallTypes DEF Calls
<1>2. /\ k \in Clones /\ base[k] = 0 /\ holder[k] = NoOne /\ holder' = holder /\ base' = base
      /\ remote' = remote /\ hurt' = hurt /\ pc'[c] = "synced" /\ goal' = goal
      /\ Origin(k)
      /\ k \notin hurt => /\ Agrees(k, Len(local[k]))
                          /\ left[k] \subseteq {<<"summary", "mca">>}
  BY RestingClone DEF Pull, MaySync, CInv, Types
<1>3. /\ local[k] \in Seq(Commits) /\ remote \in Seq(Commits) /\ Len(remote) >= 1
      /\ left'[k] \subseteq left[k]
      /\ \/ local'[k] = local[k] /\ IsPrefix(remote, local[k])
         \/ local'[k] = remote
  BY <1>2 DEF Pull, CInv, Types
<1>4. Len(local'[k]) >= 1
  BY <1>3, PrefixAt
<1>5. HoldersWrite'
  BY <1>1, <1>2, HoldersStep DEF Busy
<1>6. SyncedHasCommits'
  BY <1>1, <1>4, SyncedStep
<1>7. GoalsFit'
  BY <1>2, GoalsStep
<1>8. Origin(k)'
  BY <1>2, <1>3 DEF Origin
<1>9. k \notin hurt => Agrees(k, Len(local[k]))'
  BY <1>2, <1>3 DEF Agrees
<1>10. Shape(k)'
  BY <1>2, <1>3, <1>9 DEF Shape, Unscarred
<1>. QED
  BY <1>1, <1>5, <1>6, <1>7, <1>8, <1>10, OwnClone DEF CInv

LEMMA ReadingInv ==
    ASSUME CInv, NEW c \in Callers, Reading(c) \/ PullFails(c)
    PROVE  CInv'
<1>. DEFINE k == CloneOf(c)
<1>1. CallerStep(c) /\ Types'
  BY CallFrame, CallTypes DEF Calls
<1>2. /\ holder[k] = NoOne /\ UNCHANGED <<remote, local, left, holder, base, hurt>>
      /\ pc'[c] = "idle"
  <2>1. CASE Reading(c)
    BY <2>1, ReadingStep DEF clones, Returns, CInv, Types
  <2>2. CASE PullFails(c)
    BY <2>2 DEF PullFails, MaySync, clones, CInv, Types
  <2>. QED
    BY <2>1, <2>2
<1>3. k \in Clones
  BY CloneNames
<1>4. Shape(k)' /\ Origin(k)'
  <2>1. Untouched(k)
    BY <1>2 DEF Untouched
  <2>. QED
    BY <1>1, <1>3, <2>1, ShapeKept DEF CallerStep
<1>5. HoldersWrite'
  BY <1>1, <1>2, HoldersStep DEF Busy
<1>6. SyncedHasCommits'
  BY <1>1, <1>2, SyncedStep
<1>7. GoalsFit'
  BY ReadingStep, GoalsStep DEF PullFails
<1>. QED
  BY <1>1, <1>4, <1>5, <1>6, <1>7, OwnClone DEF CInv

LEMMA StageInv ==
    ASSUME CInv, NEW c \in Callers, Stage(c)
    PROVE  CInv'
<1>. DEFINE k == CloneOf(c)
<1>1. CallerStep(c) /\ Types'
  BY CallFrame, CallTypes DEF Calls
<1>2. /\ k \in Clones /\ holder[k] = NoOne /\ goal[c] \in Writes /\ c # NoOne
      /\ holder'[k] = c /\ base'[k] = Len(local[k]) /\ left'[k] = left[k] \union {File(c)}
      /\ pc'[c] = "staged" /\ UNCHANGED <<remote, local, goal, hurt>>
      /\ Len(local[k]) >= 1
      /\ Origin(k)
      /\ k \notin hurt => /\ Agrees(k, Len(local[k]))
                          /\ left[k] \subseteq {<<"summary", "mca">>}
  BY RestingClone, CallerNames DEF Stage, CInv, Types, SyncedHasCommits
<1>3. HoldersWrite'
  BY <1>1, <1>2, HoldersStep DEF Busy
<1>4. SyncedHasCommits'
  BY <1>1, <1>2, SyncedStep
<1>5. GoalsFit'
  BY <1>2, GoalsStep
<1>6. Origin(k)'
  BY <1>2 DEF Origin
<1>7. WriteInProgress(k)'
  BY <1>2 DEF WriteInProgress, File
<1>8. k \notin hurt' => Unscarred(k)'
  BY <1>2 DEF Unscarred, Agrees, File
<1>9. Shape(k)'
  BY <1>2, <1>7, <1>8 DEF Shape
<1>. QED
  BY <1>1, <1>3, <1>4, <1>5, <1>6, <1>9, OwnClone DEF CInv

LEMMA CommitInv ==
    ASSUME CInv, NEW c \in Callers, Commit(c)
    PROVE  CInv'
<1>. DEFINE k == CloneOf(c)
<1>1. CallerStep(c) /\ Types'
  BY CallFrame, CallTypes DEF Calls
<1>2. /\ k \in Clones /\ holder[k] = c /\ c # NoOne /\ goal[c] \in Writes
      /\ local[k] \in Seq(Commits) /\ pc[c] = "staged"
      /\ WriteInProgress(k) /\ (k \notin hurt => Unscarred(k))
  BY Writing DEF Commit, Busy
<1>3. /\ pc'[c] = "committed" /\ holder'[k] = c
      /\ UNCHANGED <<remote, holder, base, goal, hurt>>
  BY <1>2 DEF Commit, CInv, Types
<1>4. PICK files \in SUBSET left[k] :
          /\ File(c) \in files
          /\ local' = [local EXCEPT ![k] =
                          Append(@, [files |-> files, by |-> c, try |-> tries[c] + 1])]
          /\ left' = [left EXCEPT ![k] = @ \ files]
  BY DEF Commit
<1>. DEFINE r == [files |-> files, by |-> c, try |-> tries[c] + 1]
<1>5. /\ local'[k] = Append(local[k], r) /\ left'[k] = left[k] \ files
      /\ r.files = files /\ r.by = c
  BY <1>2, <1>4 DEF CInv, Types
<1>6. r \in Commits
  BY <1>2 DEF Commits, CInv, Types
<1>. HIDE DEF r
<1>7. /\ local'[k] \in Seq(Commits)
      /\ Len(local'[k]) = Len(local[k]) + 1 /\ local'[k][Len(local'[k])] = r
      /\ \A i \in 1 .. Len(local[k]) : local'[k][i] = local[k][i]
      /\ Len(local[k]) \in Nat
  BY <1>2, <1>5, <1>6
<1>8. HoldersWrite'
  BY <1>1, <1>2, <1>3, HoldersStep DEF Busy
<1>9. SyncedHasCommits'
  BY <1>1, <1>7, SyncedStep
<1>10. GoalsFit'
  BY <1>3, GoalsStep
<1>11. Origin(k)'
  <2>1. Origin(k) /\ CloneOf(r.by) = k
    BY <1>2, <1>5 DEF CInv, Origins
  <2>2. ASSUME NEW i \in 1 .. Len(local'[k])
        PROVE  \/ i <= Len(remote) /\ local'[k][i] = remote[i]
               \/ CloneOf(local'[k][i].by) = k
    <3>1. CASE i = Len(local'[k])
      BY <1>7, <2>1, <3>1
    <3>2. CASE i \in 1 .. Len(local[k])
      BY <1>7, <2>1, <3>2 DEF Origin
    <3>. QED
      BY <1>7, <3>1, <3>2
  <2>. QED
    BY <1>3, <2>2 DEF Origin
<1>12. base[k] >= 1 /\ base[k] = Len(local[k]) /\ File(c) \in files
  BY <1>2, <1>4 DEF WriteInProgress
<1>13. WriteInProgress(k)'
  <2>1. Last(local'[k]) = r
    BY <1>7 DEF Last
  <2>. QED
    BY <1>3, <1>5, <1>7, <1>12, <2>1 DEF WriteInProgress, File
<1>14. k \notin hurt' => Unscarred(k)'
  <2>. SUFFICES ASSUME k \notin hurt' PROVE Unscarred(k)'
    OBVIOUS
  <2>1. Unscarred(k) /\ Agrees(k, base[k])
    BY <1>2, <1>3 DEF Unscarred
  <2>2. Agrees(k, base[k])'
    BY <1>3, <1>7, <1>12, <2>1 DEF Agrees
  <2>3. \A f \in left'[k] : f = <<"summary", "mca">>
    BY <1>2, <1>5, <1>12, <2>1 DEF Unscarred
  <2>. QED
    BY <1>2, <1>3, <2>2, <2>3 DEF Unscarred
<1>15. Shape(k)'
  BY <1>2, <1>3, <1>13, <1>14 DEF Shape
<1>. QED
  BY <1>1, <1>8, <1>9, <1>10, <1>11, <1>15, OwnClone DEF CInv

LEMMA PushInv ==
    ASSUME CInv, NEW c \in Callers, Push(c)
    PROVE  CInv'
<1>. DEFINE k == CloneOf(c)
<1>1. CallerStep(c) /\ Types'
  BY CallFrame, CallTypes DEF Calls
<1>2. /\ k \in Clones /\ holder[k] = c /\ c # NoOne /\ goal[c] \in Writes
      /\ local[k] \in Seq(Commits) /\ pc[c] = "committed"
      /\ base[k] \in 1 .. Len(local[k])
      /\ (k \notin hurt => Unscarred(k))
  BY Writing DEF Push, Busy
<1>3. /\ pc'[c] = "idle" /\ holder'[k] = NoOne /\ base'[k] = 0
      /\ remote' = local[k] /\ Succeeds(c)
      /\ UNCHANGED <<local, left, hurt>>
  BY <1>2 DEF Push, Unlock, Returns, CInv, Types
<1>4. HoldersWrite'
  BY <1>1, <1>2, <1>3, HoldersStep DEF Busy
<1>5. SyncedHasCommits'
  BY <1>1, <1>3, SyncedStep
<1>6. GoalsFit'
  BY <1>2, <1>3, GoalsStep, CallerNames
<1>7. Origin(k)' /\ Agrees(k, Len(local[k]))'
  BY <1>2, <1>3 DEF Origin, Agrees
<1>8. k \notin hurt' => Unscarred(k)'
  BY <1>2, <1>3, <1>7 DEF Unscarred
<1>9. Shape(k)'
  BY <1>3, <1>8 DEF Shape
<1>. QED
  BY <1>1, <1>4, <1>5, <1>6, <1>7, <1>9, OwnClone DEF CInv

LEMMA AbandonInv ==
    ASSUME CInv, NEW c \in Callers, Calls(c), Abandon(c), pc[c] \in Busy
    PROVE  CInv'
<1>. DEFINE k == CloneOf(c)
<1>1. CallerStep(c) /\ Types'
  BY CallFrame, CallTypes
<1>2. /\ k \in Clones /\ holder[k] = c /\ c # NoOne
      /\ local[k] \in Seq(Commits) /\ Len(local[k]) \in Nat
      /\ base[k] \in 1 .. Len(local[k])
      /\ (k \notin hurt => Agrees(k, base[k]))
  BY Writing DEF Unscarred
<1>3. /\ pc'[c] = "idle" /\ holder'[k] = NoOne /\ base'[k] = 0 /\ left'[k] = {}
      /\ local'[k] = SubSeq(local[k], 1, base[k]) /\ GiveUp(c) /\ hurt' = hurt
  BY <1>2 DEF Abandon, Rollback, Unlock, Returns, CInv, Types
<1>4. /\ Len(local'[k]) = base[k]
      /\ \A i \in 1 .. base[k] : local'[k][i] = local[k][i]
  <2>. HIDE DEF k
  <2>. QED
    BY <1>2, <1>3, PrefixFacts
<1>5. HoldersWrite'
  BY <1>1, <1>2, <1>3, HoldersStep DEF Busy
<1>6. SyncedHasCommits'
  BY <1>1, <1>2, <1>4, SyncedStep
<1>7. GoalsFit'
  BY <1>3, GoalsStep
<1>8. \A i \in 1 .. Len(remote) : i <= Len(remote') /\ remote'[i] = remote[i]
  BY <1>1 DEF CallerStep, Grows, CInv, Types
<1>9. Origin(k)'
  <2>1. Origin(k)
    BY <1>2 DEF CInv, Origins
  <2>2. ASSUME NEW i \in 1 .. base[k]
        PROVE  \/ i <= Len(remote') /\ local'[k][i] = remote'[i]
               \/ CloneOf(local'[k][i].by) = k
    <3>1. i \in 1 .. Len(local[k]) /\ local'[k][i] = local[k][i]
      BY <1>2, <1>4
    <3>2. CASE i <= Len(remote) /\ local[k][i] = remote[i]
      <4>1. i \in 1 .. Len(remote)
        BY <3>2 DEF CInv, Types
      <4>. QED
        BY <1>8, <3>1, <3>2, <4>1
    <3>. QED
      BY <2>1, <3>1, <3>2 DEF Origin
  <2>. QED
    BY <1>4, <2>2 DEF Origin
<1>10. k \notin hurt' => Unscarred(k)'
  <2>. SUFFICES ASSUME k \notin hurt' PROVE Unscarred(k)'
    OBVIOUS
  <2>1. Agrees(k, base[k])
    BY <1>2, <1>3
  <2>2. Len(remote) <= Len(remote') /\ Len(remote) \in Nat /\ Len(remote') \in Nat
    BY <1>1 DEF CallerStep, Grows, CInv, Types
  <2>3. base[k] <= Len(remote') /\ \A i \in 1 .. base[k] : local'[k][i] = remote'[i]
    BY <1>2, <1>4, <1>8, <2>1, <2>2 DEF Agrees
  <2>4. Agrees(k, Len(local[k]))'
    BY <1>2, <1>4, <2>3 DEF Agrees
  <2>. QED
    BY <1>3, <2>4 DEF Unscarred
<1>11. Shape(k)'
  BY <1>3, <1>10 DEF Shape
<1>. QED
  BY <1>1, <1>5, <1>6, <1>7, <1>9, <1>11, OwnClone DEF CInv

\* PushSummaryFile leaves its files where they are.
LEMMA StageFailsInv ==
    ASSUME CInv, NEW c \in Callers, StageFails(c)
    PROVE  CInv'
<1>. DEFINE k == CloneOf(c)
<1>1. CASE Abandon(c)
  BY <1>1, AbandonInv DEF StageFails, Busy, Calls
<1>2. CASE ~Abandon(c)
  <2>1. CallerStep(c) /\ Types'
    BY CallFrame, CallTypes DEF Calls
  <2>2. /\ k \in Clones /\ holder[k] = c /\ c # NoOne /\ pc[c] = "staged"
        /\ local[k] \in Seq(Commits)
        /\ WriteInProgress(k) /\ (k \notin hurt => Unscarred(k))
    BY Writing DEF StageFails, Busy
  <2>3. /\ goal[c] = "summary" /\ UNCHANGED <<remote, local, left, goal, hurt>>
        /\ pc'[c] = "idle" /\ holder'[k] = NoOne /\ base'[k] = 0
    BY <1>2, <2>2 DEF StageFails, Unlock, Returns, CInv, Types
  <2>4. HoldersWrite'
    BY <2>1, <2>2, <2>3, HoldersStep DEF Busy
  <2>5. SyncedHasCommits'
    BY <2>1, <2>3, SyncedStep
  <2>6. GoalsFit'
    BY <2>3, GoalsStep
  <2>7. Origin(k)'
    BY <2>2, <2>3 DEF CInv, Origins, Origin
  <2>8. c = "mca"
    BY <2>3, CallerNames DEF CInv, GoalsFit
  <2>9. k \notin hurt' => Unscarred(k)'
    BY <2>2, <2>3, <2>8 DEF Unscarred, Agrees, WriteInProgress, File
  <2>10. Shape(k)'
    BY <2>3, <2>9 DEF Shape
  <2>. QED
    BY <2>1, <2>4, <2>5, <2>6, <2>7, <2>10, OwnClone DEF CInv
<1>. QED
  BY <1>1, <1>2

LEMMA CrashInv ==
    ASSUME CInv, NEW k \in Clones, Crash(k)
    PROVE  CInv'
<1>. DEFINE mine(c) == CloneOf(c) = k
<1>0. Types'
  BY EnvironmentTypes
<1>1. /\ UNCHANGED <<remote, local, left>> /\ holder'[k] = NoOne /\ base'[k] = 0
      /\ hurt' = IF holder[k] = NoOne THEN hurt ELSE hurt \union {k}
      /\ \A j \in Clones : j # k => holder'[j] = holder[j] /\ base'[j] = base[j]
      /\ \A c \in Callers : mine(c) => pc'[c] = "idle"
      /\ \A c \in Callers : ~mine(c) => pc'[c] = pc[c] /\ goal'[c] = goal[c]
      /\ \A c \in Callers : goal'[c] \in {goal[c], Shared!Again(c, goal[c])}
  BY DEF Crash, Unlock, CInv, Types
<1>2. HoldersWrite'
  <2>1. ASSUME NEW c \in Callers, pc'[c] \in Busy
        PROVE  holder'[CloneOf(c)] = c /\ goal'[c] \in Writes
    BY <1>1, <2>1, CloneNames DEF Busy, CInv, HoldersWrite
  <2>2. ASSUME NEW j \in Clones, holder'[j] # NoOne
        PROVE  CloneOf(holder'[j]) = j /\ pc'[holder'[j]] \in Busy
    <3>1. j # k /\ holder'[j] = holder[j] /\ holder[j] \in Callers
      BY <1>1, <2>2 DEF CInv, Types
    <3>2. CloneOf(holder[j]) = j /\ pc[holder[j]] \in Busy
      BY <2>2, <3>1 DEF CInv, HoldersWrite
    <3>. QED
      BY <1>1, <3>1, <3>2
  <2>. QED
    BY <2>1, <2>2 DEF HoldersWrite
<1>3. SyncedHasCommits'
  BY <1>1 DEF CInv, SyncedHasCommits
<1>4. GoalsFit'
  BY <1>1, CallerNames DEF CInv, GoalsFit, Shared!Again
<1>5. Origins'
  BY <1>1 DEF CInv, Origins, Origin
<1>6. ASSUME NEW j \in Clones
      PROVE  Shape(j)'
  <2>1. CASE j = k
    <3>1. k \notin hurt' => holder[k] = NoOne /\ k \notin hurt
      BY <1>1
    <3>2. k \notin hurt' => Unscarred(k)'
      BY <1>1, <3>1 DEF CInv, CloneShape, Shape, Unscarred, Agrees
    <3>. QED
      BY <1>1, <2>1, <3>2 DEF Shape
  <2>2. CASE j # k
    <3>1. holder[j] # NoOne => holder[j] \in Callers /\ ~mine(holder[j])
      BY <2>2 DEF CInv, HoldersWrite, Types
    <3>2. Untouched(j)
      BY <1>1, <2>2, <3>1 DEF Untouched
    <3>3. Grows
      BY <1>1 DEF CInv, Types, Grows
    <3>. QED
      BY <1>0, <3>2, <3>3, ShapeKept
  <2>. QED
    BY <2>1, <2>2
<1>. QED
  BY <1>0, <1>2, <1>3, <1>4, <1>5, <1>6 DEF CInv, CloneShape

LEMMA DevelopInv ==
    ASSUME CInv, Develop
    PROVE  CInv'
<1>0. Types'
  BY EnvironmentTypes
<1>1. UNCHANGED <<local, left, holder, base, pc, goal, hurt>>
  BY DEF Develop, clones, callers
<1>2. Grows
  <2>1. remote \in Seq(Commits) /\ PushedBy("developer", 1 + budget.pushes) \in Commits
    BY DEF CInv, Types, PushedBy, Commits
  <2>. QED
    BY <2>1 DEF Develop, Grows
<1>3. HoldersWrite' /\ GoalsFit' /\ SyncedHasCommits'
  BY <1>1 DEF CInv, HoldersWrite, GoalsFit, SyncedHasCommits
<1>4. ASSUME NEW k \in Clones
      PROVE  Shape(k)' /\ Origin(k)'
  BY <1>0, <1>1, <1>2, ShapeKept DEF Untouched
<1>. QED
  BY <1>0, <1>3, <1>4 DEF CInv, CloneShape, Origins

LEMMA CInvInit == Init => CInv
<1>. SUFFICES ASSUME Init PROVE CInv
  OBVIOUS
<1>1. Types
  BY TypesInit
<1>2. HoldersWrite /\ SyncedHasCommits
  BY DEF Init, HoldersWrite, SyncedHasCommits, Busy
<1>3. GoalsFit
  BY CallerNames DEF Init, GoalsFit, Shared!FirstGoal
<1>4. CloneShape /\ Origins
  BY DEF Init, CloneShape, Origins, Shape, Origin, Unscarred, Agrees
<1>. QED
  BY <1>1, <1>2, <1>3, <1>4 DEF CInv

LEMMA CInvStep == CInv /\ [Next]_vars => CInv'
<1>. SUFFICES ASSUME CInv, [Next]_vars PROVE CInv'
  OBVIOUS
<1>1. ASSUME NEW c \in Callers, Calls(c) PROVE CInv'
  <2>1. CASE CommitFails(c) \/ PushRefused(c) \/ PushFails(c)
    BY <1>1, <2>1, AbandonInv DEF CommitFails, PushRefused, PushFails, Busy
  <2>. QED
    BY <1>1, <2>1, PullInv, ReadingInv, StageInv, CommitInv, PushInv, StageFailsInv
       DEF Calls
<1>2. CASE UNCHANGED vars
  <2>1. UNCHANGED <<remote, local, left, holder, base, pc, goal, tries, hurt, budget>>
    BY <1>2 DEF vars, clones, callers
  <2>2. Types'
    BY <2>1 DEF CInv, Types
  <2>3. HoldersWrite' /\ GoalsFit' /\ SyncedHasCommits'
    BY <2>1 DEF CInv, HoldersWrite, GoalsFit, SyncedHasCommits
  <2>4. Grows
    BY <2>1 DEF CInv, Types, Grows
  <2>5. ASSUME NEW k \in Clones PROVE Shape(k)' /\ Origin(k)'
    BY <2>1, <2>2, <2>4, ShapeKept DEF Untouched
  <2>. QED
    BY <2>2, <2>3, <2>5 DEF CInv, CloneShape, Origins
<1>. QED
  BY <1>1, <1>2, CrashInv, DevelopInv, Steps

\* The inductive invariant of the clones, their locks and their goals holds throughout.
THEOREM CloneInvariant == Spec => []CInv
  BY CInvInit, CInvStep, PTL DEF Spec

-----------------------------------------------------------------------------
(***************************************************************************)
(* The properties                                                          *)
(***************************************************************************)

\* A clone at rest holds nothing that is not published (syncAndLock's reset).
THEOREM RestingCloneCorrect == Spec => []RestingCloneIsPublished
<1>1. CInv => RestingCloneIsPublished
  <2>. SUFFICES ASSUME CInv, NEW k \in Clones \ hurt, holder[k] = NoOne
                PROVE  IsPrefix(local[k], remote)
    BY DEF RestingCloneIsPublished
  <2>1. Agrees(k, Len(local[k]))
    BY DEF CInv, CloneShape, Shape, Unscarred
  <2>. QED
    BY <2>1, PrefixAt DEF Agrees, CInv, Types
<1>. QED
  BY <1>1, CloneInvariant, PTL

\* Every variable has its type, and who holds a mutex is in the middle of a write.
THEOREM TypeCorrect == Spec => []TypeOK
<1>1. CInv => TypeOK
  <2>. SUFFICES ASSUME CInv PROVE TypeOK
    OBVIOUS
  <2>1. /\ DOMAIN local = Clones /\ DOMAIN goal = Callers
        /\ goal \in [Callers -> Shared!Goals]
        /\ pc \in [Callers -> {"idle", "synced", "staged", "committed"}]
        /\ hurt \subseteq Clones
    BY DEF CInv, Types
  <2>2. \A c \in Callers : pc[c] \in {"staged", "committed"} => holder[CloneOf(c)] = c
    BY DEF CInv, HoldersWrite, Busy
  <2>3. ASSUME NEW k \in Clones
        PROVE  /\ left[k] \subseteq Writes \X Callers
               /\ base[k] \in 0 .. Len(local[k])
               /\ \/ holder[k] = NoOne
                  \/ CloneOf(holder[k]) = k /\ pc[holder[k]] \in {"staged", "committed"}
    <3>1. local[k] \in Seq(Commits) /\ left[k] \subseteq Writes \X Callers
          /\ Len(local[k]) \in Nat /\ holder[k] \in Callers \union {NoOne}
      BY DEF CInv, Types
    <3>2. CASE holder[k] = NoOne
      BY <3>1, <3>2 DEF CInv, CloneShape, Shape
    <3>3. CASE holder[k] # NoOne
      <4>1. CloneOf(holder[k]) = k /\ pc[holder[k]] \in Busy /\ holder[k] \in Callers
        BY <3>1, <3>3 DEF CInv, HoldersWrite
      <4>2. base[k] \in 1 .. Len(local[k])
        BY <4>1, Writing
      <4>. QED
        BY <3>1, <4>1, <4>2 DEF Busy
    <3>. QED
      BY <3>2, <3>3
  <2>. QED
    BY <2>1, <2>2, <2>3 DEF TypeOK
<1>. QED
  BY <1>1, CloneInvariant, PTL

-----------------------------------------------------------------------------
(***************************************************************************)
(* What callers were told                                                  *)
(***************************************************************************)

LEMMA BranchGrows ==
    ASSUME CInv, [Next]_vars
    PROVE  Grows
<1>1. remote \in Seq(Commits)
  BY DEF CInv, Types
<1>2. CASE Develop
  <2>1. PushedBy("developer", 1 + budget.pushes) \in Commits
    BY DEF CInv, Types, PushedBy, Commits
  <2>. QED
    BY <1>1, <1>2, <2>1 DEF Develop, Grows
<1>3. CASE remote' = remote
  BY <1>1, <1>3 DEF Grows
<1>. QED
  BY <1>2, <1>3, RemoteGrows, Steps DEF Crash, vars

LEMMA InFiles ==
    ASSUME NEW s \in Seq(Commits), NEW f
    PROVE  f \in FilesIn(s) <=> \E i \in 1 .. Len(s) : f \in s[i].files
<1>1. DOMAIN s = 1 .. Len(s)
  OBVIOUS
<1>. QED
  BY <1>1 DEF FilesIn, Shared!FilesIn

LEMMA FilesGrow ==
    ASSUME NEW s \in Seq(Commits), NEW t \in Seq(Commits), Len(s) <= Len(t),
           \A i \in 1 .. Len(s) : t[i] = s[i]
    PROVE  FilesIn(s) \subseteq FilesIn(t)
<1>. SUFFICES ASSUME NEW f \in FilesIn(s) PROVE f \in FilesIn(t)
  OBVIOUS
<1>1. PICK i \in 1 .. Len(s) : f \in s[i].files
  BY InFiles
<1>2. i \in 1 .. Len(t) /\ f \in t[i].files
  BY <1>1
<1>. QED
  BY <1>2, InFiles

LEMMA PublishedStays ==
    ASSUME CInv, [Next]_vars
    PROVE  FilesIn(remote) \subseteq FilesIn(remote')
<1>1. remote \in Seq(Commits) /\ remote' \in Seq(Commits)
  BY CInvStep DEF CInv, Types
<1>. QED
  BY <1>1, BranchGrows, FilesGrow DEF Grows

\* A caller's goal moves on by reading or by a push, or goes back after a failure.
LEMMA GoalMoves ==
    ASSUME CInv, [Next]_vars, NEW c \in Callers
    PROVE  \/ goal'[c] = goal[c]
           \/ goal[c] \notin {"done", "refused"} /\ goal'[c] = Shared!Again(c, goal[c])
           \/ Reading(c) /\ goal[c] \in {"collect", "latest", "diff"}
              /\ \/ goal'[c] = Shared!Then[goal[c]]
                 \/ goal[c] = "latest" /\ goal'[c] = "refused"
           \/ Push(c) /\ goal'[c] = Shared!Then[goal[c]]
<1>0. goal \in [Callers -> Shared!Goals]
  BY DEF CInv, Types
<1>1. ASSUME NEW d \in Callers, Calls(d), d # c
      PROVE  goal'[c] = goal[c]
  BY <1>1, CallFrame DEF CallerStep
<1>2. CASE Reading(c)
  BY <1>0, <1>2, ReadingStep DEF Succeeds, GiveUp
<1>3. CASE Push(c)
  BY <1>0, <1>3 DEF Push, Succeeds
<1>4. CASE Failing(c)
  <2>1. goal[c] \notin {"done", "refused"}
    BY <1>4, Writing, CallerNames DEF Failing, PullFails, MaySync, StageFails, CommitFails,
       PushRefused, PushFails, Busy
  <2>2. UNCHANGED goal \/ GiveUp(c)
    BY <1>4 DEF Failing, PullFails, StageFails, CommitFails, PushRefused, PushFails, Abandon
  <2>. QED
    BY <1>0, <2>1, <2>2 DEF GiveUp
<1>5. CASE Pull(c) \/ Stage(c) \/ Commit(c)
  BY <1>5 DEF Pull, Stage, Commit
<1>6. ASSUME NEW k \in Clones, Crash(k)
      PROVE  \/ goal'[c] = goal[c]
             \/ goal[c] \notin {"done", "refused"} /\ goal'[c] = Shared!Again(c, goal[c])
  BY <1>6 DEF Crash
<1>7. CASE Develop \/ UNCHANGED vars
  BY <1>7 DEF Develop, vars, callers
<1>8. \A d \in Callers : Calls(d) => \/ d # c \/ Reading(c) \/ Push(c) \/ Failing(c)
                                       \/ Pull(c) \/ Stage(c) \/ Commit(c)
  BY DEF Calls, Failing
<1>. QED
  BY <1>1, <1>2, <1>3, <1>4, <1>5, <1>6, <1>7, <1>8, Steps

\* A push publishes the file of its call.
LEMMA PushPublishes ==
    ASSUME CInv, NEW c \in Callers, Push(c)
    PROVE  <<goal[c], c>> \in FilesIn(remote')
<1>. DEFINE k == CloneOf(c)
<1>1. /\ k \in Clones /\ holder[k] = c /\ local[k] \in Seq(Commits)
      /\ WriteInProgress(k) /\ pc[c] = "committed" /\ remote' = local[k]
      /\ Len(local[k]) \in Nat /\ Len(local[k]) >= 1
  BY Writing DEF Push, Busy
<1>2. File(c) \in local[k][Len(local[k])].files
  BY <1>1 DEF WriteInProgress, Last
<1>3. Len(local[k]) \in 1 .. Len(local[k])
  BY <1>1
<1>. HIDE DEF k
<1>. QED
  BY <1>1, <1>2, <1>3, InFiles DEF File

\* A caller that was told its push succeeded finds its file on the shared branch:
\* only a push moves the goal past a write, and the branch only grows.
THEOREM AcknowledgedCorrect == Spec => []AcknowledgedIsPublished
<1>1. Init => AcknowledgedIsPublished
  BY CallerNames DEF Init, AcknowledgedIsPublished, Shared!FirstGoal
<1>2. CInv /\ AcknowledgedIsPublished /\ [Next]_vars => AcknowledgedIsPublished'
  <2>. SUFFICES ASSUME CInv, AcknowledgedIsPublished, [Next]_vars,
                       NEW c \in Callers, NEW w \in Writes,
                       <<w, c>> \notin FilesIn(remote')
                PROVE  ~ \/ c = "msr" /\ w = "request" /\ goal'[c] \in {"collect", "done"}
                         \/ c = "mca" /\ w = "approval" /\ goal'[c] \in {"summary", "done"}
                         \/ c = "mca" /\ w = "summary" /\ goal'[c] = "done"
                         \/ c \in Governors /\ w = "signature" /\ goal'[c] = "done"
    BY DEF AcknowledgedIsPublished
  <2>1. <<w, c>> \notin FilesIn(remote)
    BY PublishedStays
  <2>2. ~ \/ c = "msr" /\ w = "request" /\ goal[c] \in {"collect", "done"}
          \/ c = "mca" /\ w = "approval" /\ goal[c] \in {"summary", "done"}
          \/ c = "mca" /\ w = "summary" /\ goal[c] = "done"
          \/ c \in Governors /\ w = "signature" /\ goal[c] = "done"
    BY <2>1 DEF AcknowledgedIsPublished
  <2>3. Push(c) => goal[c] # w
    BY PushPublishes
  <2>4. GoalsFit
    BY DEF CInv
  <2>5. CASE c = "msr" /\ w = "request"
    <3>1. goal[c] = "request"
      BY <2>2, <2>4, <2>5 DEF GoalsFit
    <3>2. goal'[c] = "request"
      BY <2>3, <2>5, <3>1, GoalMoves, CallerNames DEF Shared!Again
    <3>. QED
      BY <2>5, <3>2, CallerNames
  <2>6. CASE c = "mca" /\ w \in {"approval", "summary"}
    <3>1. goal[c] \in {"approval", "summary"} /\ (w = "approval" => goal[c] = "approval")
      BY <2>2, <2>4, <2>6, CallerNames DEF GoalsFit
    <3>2. \/ goal'[c] = goal[c]
          \/ goal[c] # w /\ goal[c] = "approval" /\ goal'[c] = "summary"
          \/ goal[c] # w /\ goal[c] = "summary" /\ goal'[c] = "done"
      BY <2>3, <2>6, <3>1, GoalMoves, GoalNames, CallerNames DEF Shared!Again
    <3>. QED
      BY <2>6, <3>1, <3>2, CallerNames
  <2>7. CASE c \in Governors /\ w = "signature"
    <3>1. goal[c] \in {"latest", "diff", "signature", "refused"}
      BY <2>2, <2>4, <2>7 DEF GoalsFit
    <3>2. ~Push(c)
      BY <2>3, <2>7, <3>1, Writing, CallerNames DEF Push, Busy
    <3>3. goal'[c] # "done"
      BY <2>7, <3>1, <3>2, GoalMoves, GoalNames DEF Shared!Again
    <3>. QED
      BY <2>7, <3>3, CallerNames
  <2>. QED
    BY <2>5, <2>6, <2>7
<1>. QED
  BY <1>1, <1>2, CloneInvariant, PTL DEF Spec

-----------------------------------------------------------------------------
(***************************************************************************)
(* What callers act on                                                     *)
(***************************************************************************)

\* PublishedBranch has the library's operators.
LEMMA SameOperators ==
    ASSUME NEW A, NEW B
    PROVE  /\ Shared!Cardinality(A) = Cardinality(A)
           /\ Shared!Last(A) = Last(A)
           /\ Shared!IsPrefix(A, B) = IsPrefix(A, B)
           /\ Shared!IsStrictPrefix(A, B) = IsStrictPrefix(A, B)
<1>1. Shared!Cardinality(A) = Cardinality(A)
  BY DEF Shared!Cardinality, Cardinality
<1>2. Shared!Last(A) = Last(A)
  BY DEF Shared!Last, Last
<1>3. Shared!IsPrefix(A, B) = IsPrefix(A, B)
  BY DEF Shared!IsPrefix, IsPrefix
<1>4. Shared!IsStrictPrefix(A, B) = IsStrictPrefix(A, B)
  BY DEF Shared!IsPrefix, IsPrefix, Shared!IsStrictPrefix, IsStrictPrefix
<1>. QED
  BY <1>1, <1>2, <1>3, <1>4

\* Signatures only add up.
LEMMA QuorumGrows ==
    ASSUME NEW A, NEW B, Fulfilled(A),
           <<"request", "msr">> \in A => <<"request", "msr">> \in B,
           \A g \in Governors : <<"signature", g>> \in A => <<"signature", g>> \in B
    PROVE  Fulfilled(B)
<1>1. /\ Shared!SignersIn(A) \subseteq Shared!SignersIn(B)
      /\ Shared!SignersIn(A) \subseteq Governors /\ Shared!SignersIn(B) \subseteq Governors
  BY DEF Shared!SignersIn
<1>2. IsFiniteSet(Shared!SignersIn(A)) /\ IsFiniteSet(Shared!SignersIn(B))
  BY <1>1, FS_Subset, NamesAssumption DEF NamesAssumption
<1>3. /\ Cardinality(Shared!SignersIn(A)) <= Cardinality(Shared!SignersIn(B))
      /\ Cardinality(Shared!SignersIn(A)) \in Nat /\ Cardinality(Shared!SignersIn(B)) \in Nat
  BY <1>1, <1>2, FS_Subset, FS_CardinalityType
<1>4. Cardinality(Shared!SignersIn(A)) >= Quorum /\ Shared!Requested(A)
  BY SameOperators DEF Fulfilled, Shared!Fulfilled
<1>5. Cardinality(Shared!SignersIn(B)) >= Quorum
  BY <1>3, <1>4, BudgetsAssumption DEF BudgetsAssumption
<1>6. Shared!Requested(A) => Shared!Requested(B)
  BY DEF Shared!Requested
<1>. QED
  BY <1>4, <1>5, <1>6, SameOperators DEF Fulfilled, Shared!Fulfilled

\* What a reader finds in an unscarred clone with a free mutex is published, but for
\* a summary that a failed call left.
LEMMA ReaderFinds ==
    ASSUME CInv, NEW c \in Callers, holder[CloneOf(c)] = NoOne, CloneOf(c) \notin hurt
    PROVE  /\ Worktree(CloneOf(c)) \subseteq FilesIn(remote) \union {<<"summary", "mca">>}
           /\ Range(local[CloneOf(c)]) \subseteq Range(remote)
           /\ Requested(Worktree(CloneOf(c))) => Requested(FilesIn(remote))
           /\ HasQuorum(CloneOf(c)) => Fulfilled(FilesIn(remote))
<1>. DEFINE k == CloneOf(c)
<1>1. /\ local[k] \in Seq(Commits) /\ remote \in Seq(Commits)
      /\ Agrees(k, Len(local[k])) /\ left[k] \subseteq {<<"summary", "mca">>}
  BY RestingClone DEF CInv, Types
<1>2. FilesIn(local[k]) \subseteq FilesIn(remote)
  <2>. HIDE DEF k
  <2>. QED
    BY <1>1, FilesGrow DEF Agrees
<1>3. Worktree(k) \subseteq FilesIn(remote) \union {<<"summary", "mca">>}
  BY <1>1, <1>2 DEF Worktree
<1>4. Range(local[k]) \subseteq Range(remote)
  BY <1>1 DEF Agrees, Range
<1>5. Requested(Worktree(k)) => Requested(FilesIn(remote))
  BY <1>3 DEF Requested, Shared!Requested
<1>6. HasQuorum(k) => Fulfilled(FilesIn(remote))
  BY <1>3, QuorumGrows DEF HasQuorum
<1>. QED
  BY <1>3, <1>4, <1>5, <1>6

LEMMA ReaderLearns ==
    ASSUME CInv, NEW c \in Callers, Reading(c), CloneOf(c) \notin hurt
    PROVE  /\ goal[c] = "collect" /\ goal'[c] = "done" => Fulfilled(FilesIn(remote))
           /\ goal[c] = "latest" /\ goal'[c] = "refused" => Fulfilled(FilesIn(remote))
           /\ goal[c] = "latest" /\ goal'[c] = "diff" => Requested(FilesIn(remote))
           /\ polled' = polled \/ polled' \in Range(remote)
<1>0. /\ goal \in [Callers -> Shared!Goals] /\ holder[CloneOf(c)] = NoOne
      /\ pc[c] = "synced" /\ CloneOf(c) \in Clones
  BY ReadingStep, CloneNames DEF CInv, Types
<1>1. CASE GetLatestRevision(c)
  <2>1. Len(local[CloneOf(c)]) >= 1 /\ local[CloneOf(c)] \in Seq(Commits)
    BY <1>0 DEF CInv, SyncedHasCommits, Types
  <2>2. Last(local[CloneOf(c)]) \in Range(local[CloneOf(c)])
    BY <2>1 DEF Last, Range
  <2>. QED
    BY <1>0, <1>1, <2>2, ReaderFinds DEF GetLatestRevision
<1>2. CASE FetchMSRByVersion(c)
  BY <1>0, <1>2, ReaderFinds DEF FetchMSRByVersion, HasQuorum
<1>3. CASE GetLatestMSR(c)
  <2>1. polled' = polled /\ goal[c] = "latest"
    BY <1>3 DEF GetLatestMSR
  <2>2. CASE GiveUp(c)
    BY <1>0, <2>1, <2>2, CallerNames DEF GiveUp, Shared!Again, CInv, GoalsFit
  <2>3. CASE HasQuorum(CloneOf(c)) /\ goal' = [goal EXCEPT ![c] = "refused"]
    BY <1>0, <2>1, <2>3, ReaderFinds
  <2>4. CASE Requested(Worktree(CloneOf(c))) /\ Succeeds(c)
    BY <1>0, <2>1, <2>4, ReaderFinds, GoalNames DEF Succeeds
  <2>. QED
    BY <1>3, <2>2, <2>3, <2>4 DEF GetLatestMSR
<1>4. CASE GetChangedFilesRaw(c)
  BY <1>4 DEF GetChangedFilesRaw
<1>. QED
  BY <1>1, <1>2, <1>3, <1>4 DEF Reading

LEMMA PolledMoves ==
    ASSUME CInv, [Next]_vars, polled' # polled
    PROVE  \E c \in Callers : Reading(c) /\ goal[c] = "head"
  BY Steps DEF Calls, Pull, Stage, Commit, Push, PullFails, StageFails, CommitFails,
     PushRefused, PushFails, Abandon, Crash, Develop, vars, callers, Reading,
     GetLatestRevision, FetchMSRByVersion, GetLatestMSR, GetChangedFilesRaw

LEMMA HurtStays ==
    ASSUME CInv, [Next]_vars
    PROVE  hurt \subseteq hurt'
  BY Steps, CallFrame DEF CallerStep, Crash, Develop, vars

\* Unless its own process was stopped in the middle of a write, nobody acts on what
\* is not published.
THEOREM ReadersCorrect == Spec => []ReadersSeeThePublished
<1>1. Init => ReadersSeeThePublished
  BY CallerNames DEF Init, ReadersSeeThePublished, Shared!FirstGoal
<1>2. CInv /\ ReadersSeeThePublished /\ [Next]_vars => ReadersSeeThePublished'
  <2>. SUFFICES ASSUME CInv, ReadersSeeThePublished, [Next]_vars
                PROVE  ReadersSeeThePublished'
    OBVIOUS
  <2>1. /\ FilesIn(remote) \subseteq FilesIn(remote') /\ hurt \subseteq hurt'
        /\ remote \in Seq(Commits) /\ remote' \in Seq(Commits) /\ Grows
    BY PublishedStays, HurtStays, BranchGrows, CInvStep DEF CInv, Types
  <2>2. /\ Fulfilled(FilesIn(remote)) => Fulfilled(FilesIn(remote'))
        /\ Requested(FilesIn(remote)) => Requested(FilesIn(remote'))
        /\ Range(remote) \subseteq Range(remote')
    BY <2>1, QuorumGrows DEF Requested, Shared!Requested, Range, Grows
  <2>3. "operator" \notin hurt' => polled' \in Range(remote') \union {NoCommit}
    BY <2>1, <2>2, PolledMoves, ReaderLearns, CloneNames, CallerNames
       DEF ReadersSeeThePublished, CInv, GoalsFit
  <2>4. ASSUME "operator" \notin hurt', goal'["msr"] = "done"
        PROVE  Fulfilled(FilesIn(remote'))
    <3>1. CASE goal["msr"] = "done"
      BY <2>1, <2>2, <2>4, <3>1 DEF ReadersSeeThePublished
    <3>2. CASE goal["msr"] # "done"
      <4>1. "msr" \in Callers /\ goal["msr"] \in {"request", "collect"}
            /\ CloneOf("msr") = "operator"
        BY <3>2, CallerNames, CloneNames DEF CInv, GoalsFit
      <4>2. goal["msr"] = "collect" /\ (Reading("msr") \/ Push("msr"))
        BY <2>4, <4>1, GoalMoves, GoalNames, CallerNames DEF Shared!Again
      <4>3. ~Push("msr")
        BY <4>1, <4>2, Writing, CallerNames DEF Push, Busy
      <4>. QED
        BY <2>1, <2>2, <2>4, <4>1, <4>2, <4>3, ReaderLearns
    <3>. QED
      BY <3>1, <3>2
  <2>5. ASSUME NEW g \in Governors \ hurt'
        PROVE  /\ goal'[g] \in {"diff", "signature"} => Requested(FilesIn(remote'))
               /\ goal'[g] = "refused" => Fulfilled(FilesIn(remote'))
    <3>1. /\ goal[g] \in {"diff", "signature"} => Requested(FilesIn(remote))
          /\ goal[g] = "refused" => Fulfilled(FilesIn(remote))
          /\ g \in Callers /\ CloneOf(g) = g /\ g \notin hurt
          /\ goal[g] \in {"latest", "diff", "signature", "done", "refused"}
      BY <2>1, CallerNames, CloneNames DEF ReadersSeeThePublished, CInv, GoalsFit
    <3>2. CASE goal'[g] = goal[g]
      BY <2>2, <3>1, <3>2
    <3>3. CASE goal'[g] = Shared!Again(g, goal[g])
      BY <3>1, <3>3 DEF Shared!Again
    <3>4. CASE Reading(g) /\ goal[g] \in {"latest", "diff"}
               /\ \/ goal'[g] = Shared!Then[goal[g]]
                  \/ goal[g] = "latest" /\ goal'[g] = "refused"
      BY <2>2, <3>1, <3>4, ReaderLearns, GoalNames
    <3>5. CASE Push(g) /\ goal'[g] = Shared!Then[goal[g]]
      <4>1. goal[g] = "signature"
        BY <3>1, <3>5, Writing, CallerNames DEF Push, Busy
      <4>. QED
        BY <3>5, <4>1, GoalNames
    <3>. QED
      BY <3>1, <3>2, <3>3, <3>4, <3>5, GoalMoves
  <2>. QED
    BY <2>3, <2>4, <2>5 DEF ReadersSeeThePublished
<1>. QED
  BY <1>1, <1>2, CloneInvariant, PTL DEF Spec

-----------------------------------------------------------------------------
(***************************************************************************)
(* The calls behave as if each had the branch to itself                    *)
(***************************************************************************)

\* Commits are told apart by their author and number, and the commit of the write
\* in progress is not shared yet.
Known(m, counts) == m.by \in Callers => m.try <= counts[m.by]

Fresh ==
    /\ \A i \in 1 .. Len(remote) : Known(remote[i], tries)
    /\ \A k \in Clones : \A i \in 1 .. Len(local[k]) : Known(local[k][i], tries)
    /\ \A c \in Callers : pc[c] = "committed" =>
           /\ Last(local[CloneOf(c)]).try = tries[c]
           /\ \A i \in 1 .. Len(remote) : ~(remote[i].by = c /\ remote[i].try = tries[c])

LEMMA FreshInit == Init => Fresh
  BY CallerNames DEF Init, Fresh, Known, PushedBy

\* A step that makes no commit and publishes nothing.
LEMMA FreshQuiet ==
    ASSUME CInv, Fresh, UNCHANGED <<remote, tries>>,
           \A k \in Clones : \/ local'[k] = remote
                             \/ /\ Len(local'[k]) <= Len(local[k])
                                /\ \A i \in 1 .. Len(local'[k]) : local'[k][i] = local[k][i],
           \A k \in Clones : Len(local'[k]) \in Nat,
           \A c \in Callers : pc'[c] = "committed" =>
               pc[c] = "committed" /\ local'[CloneOf(c)] = local[CloneOf(c)]
    PROVE  Fresh'
<1>1. \A k \in Clones : Len(local[k]) \in Nat
  BY DEF CInv, Types
<1>2. \A i \in 1 .. Len(remote') : Known(remote'[i], tries')
  BY DEF Fresh
<1>3. ASSUME NEW k \in Clones, NEW i \in 1 .. Len(local'[k])
      PROVE  Known(local'[k][i], tries')
  <2>1. CASE local'[k] = remote
    BY <1>3, <2>1 DEF Fresh, Known
  <2>2. CASE /\ Len(local'[k]) <= Len(local[k])
             /\ \A j \in 1 .. Len(local'[k]) : local'[k][j] = local[k][j]
    <3>1. i \in 1 .. Len(local[k]) /\ local'[k][i] = local[k][i]
      BY <1>1, <1>3, <2>2
    <3>. QED
      BY <3>1 DEF Fresh, Known
  <2>. QED
    BY <2>1, <2>2
<1>4. ASSUME NEW c \in Callers, pc'[c] = "committed"
      PROVE  /\ Last(local'[CloneOf(c)]).try = tries'[c]
             /\ \A i \in 1 .. Len(remote') : ~(remote'[i].by = c /\ remote'[i].try = tries'[c])
  BY <1>4 DEF Fresh
<1>. QED
  BY <1>2, <1>3, <1>4 DEF Fresh

LEMMA FreshCommit ==
    ASSUME CInv, Fresh, NEW c \in Callers, Commit(c)
    PROVE  Fresh'
<1>. DEFINE k == CloneOf(c)
<1>1. k \in Clones /\ local[k] \in Seq(Commits) /\ holder[k] = c
  BY Writing DEF Commit, Busy
<1>2. PICK r \in Commits : /\ r.by = c /\ r.try = tries[c] + 1
                           /\ local' = [local EXCEPT ![k] = Append(@, r)]
  <2>1. PICK files \in SUBSET left[k] :
            local' = [local EXCEPT ![k] =
                          Append(@, [files |-> files, by |-> c, try |-> tries[c] + 1])]
    BY DEF Commit
  <2>2. [files |-> files, by |-> c, try |-> tries[c] + 1] \in Commits
    BY <1>1 DEF Commits, CInv, Types
  <2>. QED
    BY <2>1, <2>2
<1>3. /\ remote' = remote /\ tries \in [Callers -> Nat]
      /\ tries' = [tries EXCEPT ![c] = @ + 1]
      /\ pc' = [pc EXCEPT ![c] = "committed"]
      /\ remote \in Seq(Commits) /\ local \in [Clones -> Seq(Commits)]
      /\ pc \in [Callers -> {"idle", "synced", "staged", "committed"}]
  BY DEF Commit, CInv, Types
<1>4. \A m \in Commits : Known(m, tries) => Known(m, tries')
  BY <1>3 DEF Known, Commits
<1>5. /\ local'[k] = Append(local[k], r)
      /\ Len(local'[k]) = Len(local[k]) + 1 /\ local'[k][Len(local[k]) + 1] = r
      /\ \A i \in 1 .. Len(local[k]) : local'[k][i] = local[k][i]
      /\ \A j \in Clones : j # k => local'[j] = local[j]
  BY <1>1, <1>2, <1>3
<1>6. \A i \in 1 .. Len(remote') : Known(remote'[i], tries')
  <2>1. \A i \in 1 .. Len(remote) : remote[i] \in Commits
    BY <1>3
  <2>. QED
    BY <1>3, <1>4, <2>1 DEF Fresh
<1>7. ASSUME NEW j \in Clones, NEW i \in 1 .. Len(local'[j])
      PROVE  Known(local'[j][i], tries')
  <2>0. local[j] \in Seq(Commits)
    BY <1>3
  <2>1. CASE j = k /\ i = Len(local[k]) + 1
    <3>1. tries'[c] = tries[c] + 1
      BY <1>3
    <3>2. local'[j][i] = r
      BY <1>5, <2>1
    <3>. QED
      BY <1>2, <1>3, <3>1, <3>2 DEF Known
  <2>2. CASE i \in 1 .. Len(local[j])
    <3>1. local'[j][i] = local[j][i] /\ local[j][i] \in Commits
      BY <1>5, <2>0, <2>2
    <3>2. Known(local[j][i], tries)
      BY <2>2 DEF Fresh
    <3>. QED
      BY <1>4, <3>1, <3>2
  <2>. QED
    BY <1>1, <1>5, <1>7, <2>0, <2>1, <2>2
<1>8. ASSUME NEW d \in Callers, pc'[d] = "committed"
      PROVE  /\ Last(local'[CloneOf(d)]).try = tries'[d]
             /\ \A i \in 1 .. Len(remote') : ~(remote'[i].by = d /\ remote'[i].try = tries'[d])
  <2>1. CASE d = c
    <3>1. Last(local'[k]) = r /\ tries'[c] = tries[c] + 1
      BY <1>1, <1>3, <1>5 DEF Last
    <3>2. \A i \in 1 .. Len(remote) : remote[i].by = c => remote[i].try <= tries[c]
      BY DEF Fresh, Known
    <3>3. \A i \in 1 .. Len(remote) : remote[i].try \in Nat
      <4>1. \A i \in 1 .. Len(remote) : remote[i] \in Commits
        BY <1>3
      <4>. QED
        BY <4>1 DEF Commits
    <3>. QED
      BY <1>2, <1>3, <2>1, <3>1, <3>2, <3>3
  <2>2. CASE d # c
    <3>1. pc[d] = "committed" /\ tries'[d] = tries[d]
      BY <1>3, <1>8, <2>2
    <3>2. CloneOf(d) # k /\ CloneOf(d) \in Clones
      BY <1>1, <2>2, <3>1, CloneNames DEF CInv, HoldersWrite, Busy
    <3>. QED
      BY <1>3, <1>5, <3>1, <3>2 DEF Fresh
  <2>. QED
    BY <2>1, <2>2
<1>. QED
  BY <1>6, <1>7, <1>8 DEF Fresh

\* A caller's commits reach the branch from its own clone: a push on another clone
\* publishes none of them.
LEMMA FreshPublish ==
    ASSUME CInv, Fresh, CInv', NEW c \in Callers, pc[c] = "committed",
           remote' = local[CloneOf(c)], tries' = tries, pc'[c] = "idle",
           \A d \in Callers : d # c => pc'[d] = pc[d],
           \A k \in Clones : k # CloneOf(c) => local'[k] = local[k],
           \A i \in 1 .. Len(local'[CloneOf(c)]) :
               i <= Len(local[CloneOf(c)]) /\ local'[CloneOf(c)][i] = local[CloneOf(c)][i]
    PROVE  Fresh'
<1>. DEFINE k == CloneOf(c)
<1>1. k \in Clones /\ holder[k] = c /\ local[k] \in Seq(Commits) /\ Origin(k)
      /\ local'[k] \in Seq(Commits) /\ remote \in Seq(Commits)
  BY Writing, CloneNames DEF CInv, Origins, Types, Busy
<1>2. \A i \in 1 .. Len(remote') : Known(remote'[i], tries')
  BY <1>1 DEF Fresh
<1>3. ASSUME NEW j \in Clones, NEW i \in 1 .. Len(local'[j])
      PROVE  Known(local'[j][i], tries')
  <2>1. CASE j = k
    <3>1. i \in 1 .. Len(local[k]) /\ local'[j][i] = local[k][i]
      BY <1>1, <1>3, <2>1
    <3>. QED
      BY <1>1, <3>1 DEF Fresh
  <2>2. CASE j # k
    BY <1>3, <2>2 DEF Fresh
  <2>. QED
    BY <2>1, <2>2
<1>4. ASSUME NEW d \in Callers, pc'[d] = "committed"
      PROVE  /\ Last(local'[CloneOf(d)]).try = tries'[d]
             /\ \A i \in 1 .. Len(remote') : ~(remote'[i].by = d /\ remote'[i].try = tries'[d])
  <2>1. d # c /\ pc[d] = "committed"
    BY <1>4
  <2>2. CloneOf(d) # k /\ CloneOf(d) \in Clones
    BY <1>1, <2>1, CloneNames DEF CInv, HoldersWrite, Busy
  <2>3. /\ Last(local[CloneOf(d)]).try = tries[d]
        /\ \A i \in 1 .. Len(remote) : ~(remote[i].by = d /\ remote[i].try = tries[d])
    BY <2>1 DEF Fresh
  <2>4. ASSUME NEW i \in 1 .. Len(local[k]), local[k][i].by = d
        PROVE  local[k][i].try # tries[d]
    <3>1. i <= Len(remote) /\ local[k][i] = remote[i]
      BY <1>1, <2>2, <2>4 DEF Origin
    <3>2. i \in 1 .. Len(remote)
      BY <1>1, <3>1
    <3>. QED
      BY <2>3, <2>4, <3>1, <3>2
  <2>. QED
    BY <2>2, <2>3, <2>4
<1>. QED
  BY <1>2, <1>3, <1>4 DEF Fresh

LEMMA FreshDevelop ==
    ASSUME CInv, Fresh, Develop
    PROVE  Fresh'
<1>. DEFINE r == PushedBy("developer", 1 + budget.pushes)
<1>1. /\ remote \in Seq(Commits) /\ r \in Commits /\ r.by \notin Callers
  BY CallerNames DEF CInv, Types, PushedBy, Commits
<1>2. remote' = Append(remote, r) /\ UNCHANGED <<local, pc, tries>>
  BY DEF Develop, clones, callers
<1>. HIDE DEF r
<1>3. \A i \in 1 .. Len(remote') :
          remote'[i] = r \/ (i \in 1 .. Len(remote) /\ remote'[i] = remote[i])
  <2>1. /\ Len(remote') = Len(remote) + 1 /\ remote'[Len(remote) + 1] = r
        /\ \A i \in 1 .. Len(remote) : remote'[i] = remote[i]
    BY <1>1, <1>2
  <2>. TAKE i \in 1 .. Len(remote')
  <2>2. Len(remote) \in Nat
    BY <1>1
  <2>3. i \in 1 .. Len(remote) \/ i = Len(remote) + 1
    BY <2>1, <2>2
  <2>. QED
    BY <2>1, <2>3
<1>4. \A i \in 1 .. Len(remote') : Known(remote'[i], tries')
  BY <1>1, <1>2, <1>3 DEF Fresh, Known
<1>5. \A k \in Clones : \A i \in 1 .. Len(local'[k]) : Known(local'[k][i], tries')
  BY <1>2 DEF Fresh
<1>6. ASSUME NEW d \in Callers, pc'[d] = "committed"
      PROVE  /\ Last(local'[CloneOf(d)]).try = tries'[d]
             /\ \A i \in 1 .. Len(remote') : ~(remote'[i].by = d /\ remote'[i].try = tries'[d])
  BY <1>1, <1>2, <1>3, <1>6 DEF Fresh
<1>. QED
  BY <1>4, <1>5, <1>6 DEF Fresh

\* A reset leaves the commits of the write's beginning.
LEMMA AbandonEffect ==
    ASSUME CInv, NEW c \in Callers, Abandon(c), pc[c] \in Busy
    PROVE  /\ CloneOf(c) \in Clones /\ holder[CloneOf(c)] = c
           /\ pc'[c] = "idle" /\ tries' = tries
           /\ \A d \in Callers : d # c => pc'[d] = pc[d]
           /\ \A k \in Clones : k # CloneOf(c) => local'[k] = local[k]
           /\ Len(local'[CloneOf(c)]) \in Nat
           /\ Len(local'[CloneOf(c)]) <= Len(local[CloneOf(c)])
           /\ \A i \in 1 .. Len(local'[CloneOf(c)]) :
                  local'[CloneOf(c)][i] = local[CloneOf(c)][i]
<1>. DEFINE k == CloneOf(c)
<1>1. /\ k \in Clones /\ holder[k] = c /\ local[k] \in Seq(Commits)
      /\ base[k] \in 0 .. Len(local[k])
  BY Writing
<1>2. /\ pc'[c] = "idle" /\ tries' = tries
      /\ local'[k] = SubSeq(local[k], 1, base[k])
  BY <1>1 DEF Abandon, Returns, Rollback, CInv, Types
<1>3. /\ Len(local'[k]) = base[k]
      /\ \A i \in 1 .. base[k] : local'[k][i] = local[k][i]
  <2>. HIDE DEF k
  <2>. QED
    BY <1>1, <1>2, PrefixFacts
<1>. QED
  BY <1>1, <1>2, <1>3, AbandonFrame

\* Only the write that holds a clone's mutex has a commit in progress there.
LEMMA OtherCommits ==
    ASSUME CInv, NEW c \in Callers, holder[CloneOf(c)] \in {c, NoOne},
           NEW d \in Callers, d # c, pc[d] = "committed"
    PROVE  CloneOf(d) \in Clones /\ CloneOf(d) # CloneOf(c)
  BY CloneNames, CallerNames DEF CInv, HoldersWrite, Busy

LEMMA FreshFailure ==
    ASSUME CInv, Fresh, CInv', NEW c \in Callers, Failing(c)
    PROVE  Fresh'
<1>0. /\ \A k \in Clones : Len(local'[k]) \in Nat /\ Len(local[k]) \in Nat
      /\ pc \in [Callers -> {"idle", "synced", "staged", "committed"}]
  BY DEF CInv, Types
<1>1. CASE Abandon(c) /\ pc[c] \in Busy /\ remote' = remote
  <2>1. ASSUME NEW k \in Clones
        PROVE  /\ Len(local'[k]) <= Len(local[k])
               /\ \A i \in 1 .. Len(local'[k]) : local'[k][i] = local[k][i]
    BY <1>0, <1>1, AbandonEffect
  <2>2. ASSUME NEW d \in Callers, pc'[d] = "committed"
        PROVE  pc[d] = "committed" /\ local'[CloneOf(d)] = local[CloneOf(d)]
    BY <1>1, <2>2, AbandonEffect, OtherCommits
  <2>. QED
    BY <1>0, <1>1, <2>1, <2>2, AbandonEffect, FreshQuiet
<1>2. CASE Abandon(c) /\ pc[c] = "committed" /\ remote' = local[CloneOf(c)]
  <2>1. \A i \in 1 .. Len(local'[CloneOf(c)]) :
            i <= Len(local[CloneOf(c)]) /\ local'[CloneOf(c)][i] = local[CloneOf(c)][i]
    BY <1>0, <1>2, AbandonEffect DEF Busy
  <2>. QED
    BY <1>2, <2>1, AbandonEffect, FreshPublish DEF Busy
<1>3. CASE UNCHANGED <<remote, local, tries>> /\ (pc' = pc \/ Returns(c))
  <2>1. \A d \in Callers : pc'[d] = "committed" => pc[d] = "committed"
    BY <1>0, <1>3 DEF Returns
  <2>. QED
    BY <1>0, <1>3, <2>1, FreshQuiet
<1>. QED
  BY <1>1, <1>2, <1>3 DEF Failing, PullFails, StageFails, CommitFails, PushRefused, PushFails,
     Busy, clones

LEMMA FreshStep == CInv /\ Fresh /\ [Next]_vars => Fresh'
<1>. SUFFICES ASSUME CInv, Fresh, [Next]_vars PROVE Fresh'
  OBVIOUS
<1>0. /\ CInv' /\ \A k \in Clones : Len(local'[k]) \in Nat /\ Len(local[k]) \in Nat
      /\ pc \in [Callers -> {"idle", "synced", "staged", "committed"}]
      /\ local \in [Clones -> Seq(Commits)]
  BY CInvStep DEF CInv, Types
<1>1. ASSUME NEW c \in Callers, Pull(c) PROVE Fresh'
  <2>1. /\ holder[CloneOf(c)] = NoOne /\ UNCHANGED <<remote, tries>>
        /\ pc' = [pc EXCEPT ![c] = "synced"]
        /\ local' = local \/ local' = [local EXCEPT ![CloneOf(c)] = remote]
    BY <1>1 DEF Pull, MaySync
  <2>2. ASSUME NEW k \in Clones PROVE local'[k] = remote \/ local'[k] = local[k]
    BY <1>0, <2>1
  <2>3. ASSUME NEW d \in Callers, pc'[d] = "committed"
        PROVE  pc[d] = "committed" /\ local'[CloneOf(d)] = local[CloneOf(d)]
    <3>1. d # c /\ pc[d] = "committed"
      BY <1>0, <2>1, <2>3
    <3>2. CloneOf(d) \in Clones /\ CloneOf(d) # CloneOf(c)
      BY <2>1, <3>1, OtherCommits
    <3>. QED
      BY <1>0, <2>1, <3>1, <3>2
  <2>. QED
    BY <1>0, <2>1, <2>2, <2>3, FreshQuiet
<1>2. ASSUME UNCHANGED <<remote, local, tries>>,
             \A d \in Callers : pc'[d] = "committed" => pc[d] = "committed"
      PROVE  Fresh'
  BY <1>0, <1>2, FreshQuiet
<1>3. ASSUME NEW c \in Callers, Reading(c) \/ Stage(c) PROVE Fresh'
  <2>1. UNCHANGED <<remote, local, tries>>
    BY <1>3, ReadingStep DEF Stage, clones
  <2>2. Returns(c) \/ pc' = [pc EXCEPT ![c] = "staged"]
    BY <1>3, ReadingStep DEF Stage
  <2>. QED
    BY <1>0, <1>2, <2>1, <2>2 DEF Returns
<1>4. ASSUME NEW c \in Callers, Push(c) PROVE Fresh'
  <2>1. /\ pc[c] = "committed" /\ remote' = local[CloneOf(c)]
        /\ UNCHANGED <<local, tries>> /\ Returns(c)
    BY <1>4 DEF Push
  <2>2. pc'[c] = "idle" /\ \A d \in Callers : d # c => pc'[d] = pc[d]
    BY <1>0, <2>1 DEF Returns
  <2>3. CloneOf(c) \in Clones
    BY CloneNames
  <2>. QED
    BY <1>0, <2>1, <2>2, <2>3, FreshPublish
<1>5. ASSUME NEW k \in Clones, Crash(k) PROVE Fresh'
  <2>1. /\ UNCHANGED <<remote, local, tries>>
        /\ pc' = [c \in Callers |-> IF CloneOf(c) = k THEN "idle" ELSE pc[c]]
    BY <1>5 DEF Crash
  <2>. QED
    BY <1>2, <2>1
<1>6. CASE UNCHANGED vars
  BY <1>2, <1>6 DEF vars, clones, callers
<1>. QED
  BY <1>1, <1>3, <1>4, <1>5, <1>6, FreshCommit, FreshDevelop, FreshFailure, <1>0, Steps
     DEF Calls, Failing

\* What the server accepts from a write is one new commit, that of the write, after
\* what a process stopped earlier may have left in the clone.
LEMMA PushLands ==
    ASSUME CInv, Fresh, NEW c \in Callers, pc[c] = "committed",
           Appends(CloneOf(c)), remote' = local[CloneOf(c)]
    PROVE  goal[c] \in Writes /\ Shared!Lands(c)
<1>. DEFINE k == CloneOf(c)
<1>1. /\ k \in Clones /\ holder[k] = c /\ c # NoOne /\ goal[c] \in Writes
      /\ local[k] \in Seq(Commits) /\ remote \in Seq(Commits) /\ WriteInProgress(k)
      /\ Len(local[k]) \in Nat /\ Len(remote) \in Nat /\ Len(remote) >= 1
      /\ base[k] \in 1 .. Len(local[k])
      /\ (k \notin hurt => Agrees(k, base[k])) /\ Origin(k)
  BY Writing, CloneNames DEF CInv, Origins, Types, Busy, Unscarred
<1>2. /\ Len(local[k]) = base[k] + 1
      /\ Last(local[k]).by = c /\ <<goal[c], c>> \in Last(local[k]).files
  BY <1>1 DEF WriteInProgress, File
<1>3. Len(remote) <= Len(local[k]) /\ \A i \in 1 .. Len(remote) : remote[i] = local[k][i]
  BY <1>1, PrefixAt DEF Appends
<1>4. remote # local[k]
  <2>1. \A i \in 1 .. Len(remote) : ~(remote[i].by = c /\ remote[i].try = tries[c])
    BY DEF Fresh
  <2>2. Last(local[k]).try = tries[c]
    BY DEF Fresh
  <2>3. Len(local[k]) \in 1 .. Len(local[k])
    BY <1>1
  <2>. QED
    BY <1>2, <2>1, <2>2, <2>3 DEF Last
<1>5. Shared!IsStrictPrefix(remote, remote')
  BY <1>4, SameOperators DEF Appends, IsStrictPrefix
<1>6. Shared!Last(remote').by = c /\ <<goal[c], c>> \in Shared!Last(remote').files
  BY <1>2, SameOperators
<1>7. ASSUME NEW i \in Len(remote) + 1 .. Len(remote') - 1
      PROVE  Shared!CloneOf(c) \in hurt /\ Shared!CloneOf(remote'[i].by) = Shared!CloneOf(c)
  <2>1. i \in 1 .. Len(local[k]) /\ i > Len(remote) /\ i < Len(local[k])
    BY <1>1, <1>7
  <2>2. CloneOf(local[k][i].by) = k
    BY <1>1, <2>1 DEF Origin
  <2>3. k \in hurt
    BY <1>1, <1>2, <2>1 DEF Agrees
  <2>. QED
    BY <2>2, <2>3 DEF CloneOf
<1>. QED
  BY <1>1, <1>5, <1>6, <1>7 DEF Shared!Lands

LEMMA BranchInit == Init => Shared!Init
<1>. SUFFICES ASSUME Init PROVE Shared!Init
  OBVIOUS
<1>1. budget.faults \in Nat
  BY BudgetsAssumption DEF BudgetsAssumption, Init
<1>2. PushedBy("developer", 1) \in [files : {{}}, by : {"developer"}, try : {1}]
  BY DEF PushedBy
<1>. QED
  BY <1>1, <1>2 DEF Init, Callers, Shared!Init

LEMMA BranchRead ==
    ASSUME CInv, NEW c \in Callers, Reading(c)
    PROVE  [Shared!Next]_(Shared!vars)
<1>0. /\ goal \in [Callers -> Shared!Goals]
      /\ UNCHANGED <<remote, hurt, budget>>
      /\ budget.faults \in Nat
  BY ReadingStep DEF CInv, Types
<1>1. CASE UNCHANGED goal
  BY <1>0, <1>1 DEF Shared!vars
<1>2. CASE GiveUp(c)
  <2>1. budget.faults' \in {budget.faults, budget.faults - 1} \intersect Nat
    BY <1>0
  <2>2. Shared!Fail(c)
    BY <1>0, <1>2, <2>1 DEF GiveUp, Shared!Fail
  <2>. QED
    BY <2>2 DEF Shared!Next, Callers
<1>3. CASE \/ goal[c] \in {"collect", "latest", "diff"} /\ goal'[c] = Shared!Then[goal[c]]
           \/ goal[c] = "latest" /\ goal'[c] = "refused"
  <2>1. goal' = [goal EXCEPT ![c] = goal'[c]]
    BY <1>0, ReadingStep DEF Succeeds, GiveUp
  <2>2. /\ goal[c] = "collect" => CloneOf(c) = "operator"
        /\ goal[c] = "latest" => CloneOf(c) = c
    BY CallerNames, CloneNames DEF CInv, GoalsFit
  <2>3. \/ /\ goal[c] = "collect" /\ goal'[c] = "done"
           /\ "operator" \notin hurt => Shared!Fulfilled(Shared!FilesIn(remote))
        \/ /\ goal[c] = "latest" /\ goal'[c] = "refused"
           /\ c \notin hurt => Shared!Fulfilled(Shared!FilesIn(remote))
        \/ /\ goal[c] = "latest" /\ goal'[c] = "diff"
           /\ c \notin hurt => Shared!Requested(Shared!FilesIn(remote))
        \/ goal[c] = "diff" /\ goal'[c] = "signature"
    BY <1>3, <2>2, GoalNames, ReaderLearns DEF Fulfilled, Requested, FilesIn
  <2>4. goal[c] \notin Shared!Writes \union {"done"}
    BY <2>3, CallerNames DEF Writes
  <2>5. UNCHANGED budget.faults
    BY <1>0
  <2>6. Shared!Learn(c)
    BY <1>0, <2>1, <2>3, <2>4, <2>5 DEF Shared!Learn
  <2>. QED
    BY <2>6 DEF Shared!Next, Callers
<1>. QED
  BY <1>0, <1>1, <1>2, <1>3, ReadingStep DEF Succeeds

LEMMA BranchPush ==
    ASSUME CInv, Fresh, NEW c \in Callers, Push(c)
    PROVE  Shared!Next
<1>1. goal[c] \in Shared!Writes /\ Shared!Lands(c)
  BY PushLands DEF Push, Writes
<1>2. /\ goal' = [goal EXCEPT ![c] = Shared!Then[@]]
      /\ UNCHANGED <<hurt, budget>>
  BY DEF Push, Succeeds
<1>3. Shared!Publish(c)
  BY <1>1, <1>2 DEF Shared!Publish
<1>. QED
  BY <1>3 DEF Shared!Next, Callers

LEMMA BranchFail ==
    ASSUME CInv, Fresh, NEW c \in Callers, Failing(c)
    PROVE  Shared!Next
<1>0. /\ goal \in [Callers -> Shared!Goals]
      /\ budget \in [crashes : Nat, faults : Nat, pushes : Nat] /\ budget.faults \in Nat
  BY DEF CInv, Types
<1>1. budget.faults' \in {budget.faults, budget.faults - 1} \intersect Nat
  <2>1. CASE Fault
    BY <1>0, <2>1 DEF Fault
  <2>2. CASE UNCHANGED budget
    BY <1>0, <2>2
  <2>. QED
    BY <2>1, <2>2 DEF Failing, PullFails, StageFails, CommitFails, PushRefused, PushFails
<1>2. goal' = [goal EXCEPT ![c] = Shared!Again(c, @)] /\ hurt' = hurt
  <2>1. CASE GiveUp(c) /\ hurt' = hurt
    BY <2>1 DEF GiveUp
  <2>2. CASE StageFails(c) /\ goal[c] = "summary" /\ UNCHANGED <<goal, hurt>>
    <3>1. Shared!Again(c, goal[c]) = goal[c]
      BY <2>2, CallerNames DEF Shared!Again, CInv, GoalsFit
    <3>. QED
      BY <1>0, <2>2, <3>1
  <2>. QED
    BY <2>1, <2>2 DEF Failing, PullFails, StageFails, CommitFails, PushRefused, PushFails,
       Abandon
<1>3. CASE remote' = remote
  BY <1>1, <1>2, <1>3 DEF Shared!Fail, Shared!Next, Callers
<1>4. CASE PushFails(c) /\ Appends(CloneOf(c)) /\ remote' = local[CloneOf(c)]
  <2>1. goal[c] \in Shared!Writes /\ Shared!Lands(c)
    BY <1>4, PushLands DEF PushFails, Writes
  <2>2. budget.faults > 0 /\ budget'.faults = budget.faults - 1
    BY <1>0, <1>4 DEF PushFails, Fault
  <2>3. Shared!PublishUnanswered(c)
    BY <1>2, <2>1, <2>2 DEF Shared!PublishUnanswered
  <2>. QED
    BY <2>3 DEF Shared!Next, Callers
<1>. QED
  BY <1>3, <1>4 DEF Failing, PullFails, StageFails, CommitFails, PushRefused, PushFails

LEMMA BranchStop ==
    ASSUME CInv, NEW k \in Clones, Crash(k)
    PROVE  Shared!Next
<1>1. /\ hurt' \in {hurt, hurt \union {k}} /\ remote' = remote
      /\ goal' = [c \in Callers |->
                     IF CloneOf(c) = k /\ goal[c] \notin {"done", "refused"}
                     THEN Shared!Again(c, goal[c]) ELSE goal[c]]
  BY DEF Crash
<1>2. UNCHANGED budget.faults
  BY DEF Crash, CInv, Types
<1>3. Shared!Stop(k)
  BY <1>1, <1>2 DEF Shared!Stop, Callers, CloneOf
<1>. QED
  BY <1>3 DEF Shared!Next, Clones

LEMMA BranchDevelop ==
    ASSUME CInv, Develop
    PROVE  Shared!Next
<1>. DEFINE r == PushedBy("developer", 1 + budget.pushes)
<1>1. remote \in Seq(Commits) /\ r \in Commits /\ r.by = "developer"
  BY DEF CInv, Types, PushedBy, Commits
<1>2. remote' = Append(remote, r) /\ UNCHANGED <<goal, hurt>>
  BY DEF Develop, callers
<1>3. UNCHANGED budget.faults
  BY DEF Develop, CInv, Types
<1>. HIDE DEF r
<1>4. /\ remote' \in Seq(Commits) /\ Len(remote') = Len(remote) + 1
      /\ remote'[Len(remote')] = r
      /\ \A i \in 1 .. Len(remote) : remote[i] = remote'[i]
  BY <1>1, <1>2
<1>5. IsPrefix(remote, remote') /\ Last(remote').by = "developer"
  <2>1. Len(remote) <= Len(remote')
    BY <1>1, <1>4
  <2>. QED
    BY <1>1, <1>4, <2>1, PrefixAt DEF Last
<1>6. Shared!Develop
  BY <1>2, <1>3, <1>4, <1>5, SameOperators DEF Shared!Develop
<1>. QED
  BY <1>6 DEF Shared!Next

\* The provider's calls implement the promise of PublishedBranch: each works on the
\* shared branch as if it had it to itself.
THEOREM BranchCorrect == Spec => BranchIsShared
<1>1. CInv /\ Fresh /\ [Next]_vars => [Shared!Next]_(Shared!vars)
  <2>. SUFFICES ASSUME CInv, Fresh, [Next]_vars PROVE [Shared!Next]_(Shared!vars)
    OBVIOUS
  <2>1. ASSUME NEW c \in Callers, Pull(c) \/ Stage(c) \/ Commit(c)
        PROVE  UNCHANGED <<remote, goal, hurt, budget>>
    BY <2>1 DEF Pull, Stage, Commit
  <2>2. CASE UNCHANGED vars
    BY <2>2 DEF vars, callers, Shared!vars
  <2>3. UNCHANGED <<remote, goal, hurt, budget>> => UNCHANGED Shared!vars
    BY DEF Shared!vars
  <2>4. ASSUME NEW c \in Callers, Calls(c) PROVE [Shared!Next]_(Shared!vars)
    BY <2>1, <2>3, <2>4, BranchRead, BranchPush, BranchFail DEF Calls, Failing
  <2>. QED
    BY <2>2, <2>4, BranchStop, BranchDevelop, Steps
<1>. QED
  BY <1>1, BranchInit, CloneInvariant, FreshInit, FreshStep, PTL
     DEF Spec, BranchIsShared, Shared!Spec
=============================================================================
