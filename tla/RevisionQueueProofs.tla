------------------------- MODULE RevisionQueueProofs -------------------------
(***************************************************************************)
(* What RevisionQueue guarantees for any commits, any contents of them and *)
(* any number of mishaps: proofs checked by TLAPS.                         *)
(***************************************************************************)
EXTENDS RevisionQueue, SequenceTheorems, FiniteSetTheorems, WellFoundedInduction, TLAPS

-----------------------------------------------------------------------------
(***************************************************************************)
(* The inductive invariant                                                 *)
(***************************************************************************)

PCs == {"idle", "dispatch", "preflight", "update", "diff", "finish", "remove", "save", "release"}
Contents == UNION {{<<f, tree[f]>> : f \in Files} : tree \in Trees}
Requests(revs) == [version : Nat, commit : revs, previous : revs \cup {0},
                   changes : SUBSET Contents]

Types ==
    /\ log \in Seq(Trees) /\ Len(log) >= 1
    /\ events \in [DOMAIN events -> Nat] /\ DOMAIN events \subseteq Revisions
    /\ queue \in Seq(Revisions)
    /\ status \in MRTStatus /\ mem \in MRTStatus
    /\ pc \in PCs
    /\ fresh \in BOOLEAN
    /\ revision \in Revisions \cup {0} /\ base \in Revisions \cup {0}
    /\ msr \in Requests(Revisions)
    /\ published \in 0 .. msr.version
    /\ mca \in Revisions /\ approved \subseteq Revisions
    /\ commits \in 0 .. MaxCommits /\ mishaps \in 0 .. MaxMishaps

\* There is a last second.
Bounded == \E second \in Nat : Latest(second)

\* A worker in the middle of a revision has one, and is in the sub-state it acts on.
InHand ==
    /\ pc \in {"preflight", "update", "diff", "finish", "remove"} => revision # 0
    /\ pc = "diff" => base # 0
    /\ pc = "preflight" => mem.revState = "Empty"
    /\ pc \in {"update", "diff"} => mem.revState = "UpdateMSRSpec"
    /\ pc = "finish" => mem.revState = "AfterMSRUpdate"

\* No two events have been created in one second.
Distinct == mishaps = 0 \/ ~SameSecond

\* The seconds of the events are in the order of the branch.
SecondsIncrease ==
    \A r, s \in DOMAIN events : r < s => events[r] < events[s]

First(r) == r \in DOMAIN events /\ \A s \in DOMAIN events : r <= s

\* No event comes before the head of the queue, a stale one included, and the head
\* in the worker's hands stays the head.
HeadIsFirst ==
    /\ queue # <<>> => \A r \in DOMAIN events : Head(queue) <= r
    /\ pc \in {"preflight", "update", "diff", "finish", "remove"} =>
           First(revision) /\ queue # <<>> /\ Head(queue) = revision

\* No event is older than the MSR.
NoneBehind == \A r \in DOMAIN events : msr.commit <= r

Ordered == SecondsIncrease /\ HeadIsFirst /\ NoneBehind

\* Approvals follow the branch, and a request is one approval late at most.
Approvals ==
    /\ mca <= msr.commit
    /\ mca \in approved /\ \A r \in approved : r <= mca
    /\ pc = "diff" => /\ base \in approved
                      /\ \A r \in approved : r > base => r = mca
                      /\ base # mca => mca = msr.commit
    /\ mca # msr.commit => /\ msr.previous \in approved
                           /\ \A r \in approved : r > msr.previous => r = mca

InOrder == Distinct => Ordered /\ Approvals

\* Until a first mishap each sub-state is saved once it is reached: the event of the
\* proposal waits for Finish, and events newer than the MSR for UpdateMSR.
Pending(st) ==
    /\ st.revState = "AfterMSRUpdate" => First(msr.commit)
    /\ st.revState = "UpdateMSRSpec" =>
           DOMAIN events # {} /\ \A r \in DOMAIN events : msr.commit < r

Undisturbed == mishaps = 0 =>
    /\ pc # "idle" => fresh
    /\ Pending(mem)
    /\ pc # "save" => Pending(status)

\* One pair of events, a and then b, may have been created in one second.  The queue
\* controller lists them in either order, so the head of the queue alternates, and
\* UpdateMSR may propose b while a waits; but nobody has passed Preflight while an
\* event older than the MSR waits.
Pair(a, b) == {a, b} \subseteq DOMAIN events /\ events[a] = events[b]

AtFront(a, b, head) ==
    \A r \in DOMAIN events :
        r < head => (r = a /\ head = b /\ (b \in DOMAIN events => Pair(a, b)))

PairPending(a, b, st) ==
    /\ Pair(a, b) => \/ msr.commit <= a
                     \/ st.revState = "AfterMSRUpdate" /\ First(a)
    /\ st.revState = "UpdateMSRSpec" => NoneBehind

PairInOrder(a, b) ==
    /\ a < b
    /\ \A r, s \in DOMAIN events :
           r < s => (events[r] < events[s] \/ (r = a /\ s = b /\ Pair(a, b)))

PairAtHead(a, b) ==
    /\ queue # <<>> => AtFront(a, b, Head(queue))
    /\ pc \in {"preflight", "update", "diff", "finish", "remove"} =>
           revision \in DOMAIN events /\ AtFront(a, b, revision)

PairCalm(a, b) ==
    /\ pc # "idle" => fresh /\ PairPending(a, b, mem)
    /\ pc # "save" => PairPending(a, b, status)

Tied(a, b) == PairInOrder(a, b) /\ PairAtHead(a, b) /\ PairCalm(a, b)

\* If the only mishap was such a pair, no copy grows old and no sub-state is lost.
OneMishap == (mishaps = 1 /\ MaxMishaps = 1) =>
    Approvals /\ (Ordered \/ \E a, b \in Nat : Tied(a, b))

IInv == Types /\ Bounded /\ InHand /\ InOrder /\ Undisturbed /\ OneMishap

-----------------------------------------------------------------------------
(***************************************************************************)
(* Numbers and sequences                                                   *)
(***************************************************************************)

\* A set of natural numbers with any element has a least one.
LEMMA LeastNumber ==
    ASSUME NEW T, T \subseteq Nat, T # {}
    PROVE  \E x \in T : \A y \in T : x <= y
<1>. DEFINE Less == {p \in Nat \X Nat : p[1] < p[2]}
<1>1. Less = OpToRel(<, Nat)
  BY DEF OpToRel
<1>2. IsWellFoundedOn(Less, Nat)
  BY <1>1, NatLessThanWellFounded
<1>3. \E x \in T : \A y \in T : ~(<<y, x>> \in Less)
  <2>. HIDE DEF Less
  <2>. QED
    BY <1>2, WFMin
<1>4. \A x, y \in Nat : y < x => <<y, x>> \in Less
  OBVIOUS
<1>. HIDE DEF Less
<1>5. PICK x \in T : \A y \in T : ~(<<y, x>> \in Less)
  BY <1>3
<1>6. ASSUME NEW y \in T
      PROVE  x <= y
  <2>1. ~(y < x)
    BY <1>4, <1>5
  <2>. QED
    BY <2>1
<1>. QED
  BY <1>6

\* One with an upper bound has a greatest one.
LEMMA GreatestNumber ==
    ASSUME NEW T, T \subseteq Nat, T # {}, NEW bound \in Nat, \A x \in T : x <= bound
    PROVE  \E x \in T : \A y \in T : y <= x
<1>. DEFINE below == {bound - x : x \in T}
<1>1. below \subseteq Nat /\ below # {}
  <2>1. \A x \in T : bound - x \in Nat
    <3>1. \A x \in T : x \in Nat /\ x <= bound
      OBVIOUS
    <3>. QED
      BY <3>1
  <2>. QED
    BY <2>1
<1>2. PICK z \in below : \A y \in below : z <= y
  <2>. HIDE DEF below
  <2>. QED
    BY <1>1, LeastNumber
<1>3. PICK x \in T : z = bound - x
  OBVIOUS
<1>4. ASSUME NEW y \in T
      PROVE  y <= x
  <2>1. bound - y \in below /\ x \in Nat /\ y \in Nat
    OBVIOUS
  <2>2. bound - x <= bound - y
    BY <1>2, <1>3, <2>1
  <2>. QED
    BY <2>1, <2>2
<1>. QED
  BY <1>4

\* The sequences of a finite set hold all its elements.
LEMMA AllInSequence ==
    ASSUME NEW S, IsFiniteSet(S), NEW q \in SetToSeqs(S)
    PROVE  /\ q \in Seq(S) /\ DOMAIN q = 1 .. Len(q)
           /\ \A r \in S : \E i \in 1 .. Len(q) : q[i] = r
<1>. DEFINE n == Cardinality(S)
<1>1. n \in Nat
  BY FS_CardinalityType
<1>2. q \in [1 .. n -> S] /\ \A i, j \in 1 .. n : i # j => q[i] # q[j]
  BY DEF SetToSeqs
<1>. HIDE DEF n
<1>3. q \in Seq(S) /\ Len(q) = n /\ DOMAIN q = 1 .. Len(q)
  BY <1>1, <1>2
<1>4. ASSUME NEW r \in S, \A i \in 1 .. n : q[i] # r
      PROVE  FALSE
  <2>1. IsFiniteSet(S \ {r}) /\ Cardinality(S \ {r}) = n - 1
    BY FS_RemoveElement DEF n
  <2>2. IsFiniteSet(1 .. n) /\ Cardinality(1 .. n) = n
    BY <1>1, FS_Interval
  <2>3. q \in [1 .. n -> S \ {r}]
    BY <1>2, <1>4
  <2>4. Cardinality(S \ {r}) < Cardinality(1 .. n)
    BY <1>1, <2>1, <2>2
  <2>5. \E i, j \in 1 .. n : i # j /\ q[i] = q[j]
    BY <2>1, <2>2, <2>3, <2>4, FS_PigeonHole
  <2>. QED
    BY <1>2, <2>5
<1>. QED
  BY <1>3, <1>4

\* The records of the MRT's status, field by field.
LEMMA StatusWrites ==
    ASSUME NEW st \in MRTStatus
    PROVE  /\ st.revState \in RevisionStates /\ st.action \in ActionStates
           /\ st.observed \in Nat
           /\ \A b \in BOOLEAN :
                  LET new == [st EXCEPT !.progressing = b]
                  IN  new \in MRTStatus /\ new.revState = st.revState
           /\ \A a \in ActionStates :
                  LET new == [st EXCEPT !.action = a]
                  IN  new \in MRTStatus /\ new.revState = st.revState
           /\ \A a \in ActionStates, b \in BOOLEAN :
                  LET new == [st EXCEPT !.action = a, !.progressing = b]
                  IN  new \in MRTStatus /\ new.revState = st.revState
           /\ \A n \in Nat :
                  LET new == [st EXCEPT !.observed = n]
                  IN  new \in MRTStatus /\ new.revState = st.revState
           /\ \A s \in RevisionStates :
                  LET new == [st EXCEPT !.revState = s]
                  IN  new \in MRTStatus /\ new.revState = s
  BY DEF MRTStatus

\* A new MRT's status has its type.
LEMMA NewStatusType == NewStatus \in MRTStatus /\ NewStatus.revState = "Empty"
  BY DEF NewStatus, MRTStatus, ActionStates, RevisionStates

-----------------------------------------------------------------------------
(***************************************************************************)
(* The events and the queue                                                *)
(***************************************************************************)

\* A function of no arguments is the empty one.
LEMMA NoEvents ==
    ASSUME Types
    PROVE  events = <<>> <=> DOMAIN events = {}
  BY DEF Types

\* A new event gets a second later than that of every other, or the last one.
LEMMA NewSeconds ==
    ASSUME Types, Bounded
    PROVE  /\ NewSecond \in Nat /\ \A r \in DOMAIN events : events[r] < NewSecond
           /\ events # <<>> => /\ NewSecond - 1 \in Nat /\ Latest(NewSecond - 1)
                               /\ \E last \in DOMAIN events : events[last] = NewSecond - 1
<1>1. CASE events = <<>>
  BY <1>1, NoEvents DEF NewSecond
<1>2. CASE events # <<>>
  <2>. DEFINE seconds == {events[r] : r \in DOMAIN events}
  <2>1. seconds \subseteq Nat /\ seconds # {}
    BY <1>2, NoEvents DEF Types
  <2>2. PICK bound \in Nat : \A r \in DOMAIN events : events[r] <= bound
    BY DEF Bounded, Latest
  <2>3. \E s \in seconds : \A t \in seconds : t <= s
    <3>1. \A s \in seconds : s <= bound
      BY <2>2
    <3>. HIDE DEF seconds
    <3>. QED
      BY <2>1, <2>2, <3>1, GreatestNumber
  <2>4. \E s \in seconds : Latest(s)
    BY <2>3 DEF Latest
  <2>. DEFINE last == CHOOSE s \in seconds : Latest(s)
  <2>5. last \in seconds /\ Latest(last)
    <3>. HIDE DEF seconds
    <3>. QED
      BY <2>4
  <2>6. NewSecond = 1 + last
    BY <1>2 DEF NewSecond
  <2>7. last \in Nat /\ \E r \in DOMAIN events : events[r] = last
    BY <2>1, <2>5
  <2>. HIDE DEF last, seconds
  <2>8. \A r \in DOMAIN events : events[r] \in Nat
    BY DEF Types
  <2>. QED
    BY <2>5, <2>6, <2>7, <2>8 DEF Latest
<1>. QED
  BY <1>1, <1>2

\* The queue controller lists every event once, in the order of their seconds.
LEMMA ListedEvents ==
    ASSUME Types, NEW q \in SortedEvents
    PROVE  /\ q \in Seq(Revisions)
           /\ \A i \in 1 .. Len(q) : q[i] \in DOMAIN events
           /\ \A r \in DOMAIN events : \E i \in 1 .. Len(q) : q[i] = r
           /\ \A i, j \in 1 .. Len(q) : i < j => events[q[i]] <= events[q[j]]
<1>1. IsFiniteSet(DOMAIN events)
  <2>1. Len(log) \in Nat
    BY DEF Types
  <2>2. IsFiniteSet(1 .. Len(log))
    BY <2>1, FS_Interval
  <2>. QED
    BY <2>2, FS_Subset DEF Types, Revisions
<1>2. q \in SetToSeqs(DOMAIN events)
      /\ \A i, j \in DOMAIN q : i < j => events[q[i]] <= events[q[j]]
  BY DEF SortedEvents
<1>3. q \in Seq(DOMAIN events) /\ DOMAIN q = 1 .. Len(q)
      /\ \A r \in DOMAIN events : \E i \in 1 .. Len(q) : q[i] = r
  BY <1>1, <1>2, AllInSequence
<1>4. q \in Seq(Revisions)
  BY <1>3, SeqMonotonic DEF Types
<1>. QED
  BY <1>2, <1>3, <1>4

\* So its head is one of the earliest.
LEMMA HeadIsEarliest ==
    ASSUME Types, NEW q \in SortedEvents, q # <<>>
    PROVE  Head(q) \in DOMAIN events /\ \A r \in DOMAIN events : events[Head(q)] <= events[r]
<1>1. Len(q) \in Nat /\ Len(q) >= 1 /\ Head(q) = q[1]
  BY ListedEvents
<1>2. q[1] \in DOMAIN events
  BY <1>1, ListedEvents
<1>3. ASSUME NEW r \in DOMAIN events
      PROVE  events[q[1]] <= events[r]
  <2>1. PICK i \in 1 .. Len(q) : q[i] = r
    BY ListedEvents
  <2>2. CASE i = 1
    BY <2>1, <2>2 DEF Types
  <2>3. CASE i # 1
    <3>1. 1 < i /\ 1 \in 1 .. Len(q)
      BY <1>1, <2>3
    <3>. QED
      BY <2>1, <3>1, ListedEvents
  <2>. QED
    BY <2>2, <2>3
<1>. QED
  BY <1>1, <1>2, <1>3

\* The first of them on the branch, if seconds are in the order of the branch.
LEMMA HeadOfListed ==
    ASSUME Types, SecondsIncrease, NEW q \in SortedEvents
    PROVE  /\ q # <<>> => First(Head(q))
           /\ DOMAIN events # {} => q # <<>>
<1>1. DOMAIN events # {} => q # <<>>
  BY ListedEvents
<1>2. ASSUME q # <<>>, NEW r \in DOMAIN events
      PROVE  Head(q) <= r
  <2>1. Head(q) \in DOMAIN events /\ events[Head(q)] <= events[r]
    BY <1>2, HeadIsEarliest
  <2>2. events[Head(q)] \in Nat /\ events[r] \in Nat /\ r \in Nat /\ Head(q) \in Nat
    BY <2>1 DEF Types, Revisions
  <2>3. ~(r < Head(q))
    BY <2>1, <2>2 DEF SecondsIncrease
  <2>. QED
    BY <2>2, <2>3
<1>. QED
  BY <1>1, <1>2, HeadIsEarliest DEF First

-----------------------------------------------------------------------------
(***************************************************************************)
(* Types                                                                   *)
(***************************************************************************)

\* Every type holds at first.
LEMMA TypesInit == Init => Types /\ Bounded
<1>. SUFFICES ASSUME Init PROVE Types /\ Bounded
  OBVIOUS
<1>1. log \in Seq(Trees) /\ Len(log) = 1 /\ Revisions = 1 .. 1
  BY ContentAssumption DEF Init, Revisions
<1>2. status \in MRTStatus /\ mem \in MRTStatus
  BY NewStatusType DEF Init, NewStatus, MRTStatus, ActionStates
<1>3. DOMAIN events = {} /\ events \in [DOMAIN events -> Nat]
  BY DEF Init
<1>4. queue \in Seq(Revisions)
  BY DEF Init
<1>5. msr \in Requests(Revisions) /\ published \in 0 .. msr.version
  <2>1. {<<f, FirstTree[f]>> : f \in Files} \in SUBSET Contents
    BY ContentAssumption DEF Contents
  <2>. QED
    BY <1>1, <2>1 DEF Init, Requests
<1>6. commits \in 0 .. MaxCommits /\ mishaps \in 0 .. MaxMishaps
  BY BoundAssumption DEF Init
<1>7. mca \in Revisions /\ approved \subseteq Revisions
  BY <1>1 DEF Init
<1>8. Bounded
  BY <1>3 DEF Bounded, Latest
<1>9. /\ pc \in PCs /\ fresh \in BOOLEAN
      /\ revision \in Revisions \cup {0} /\ base \in Revisions \cup {0}
  BY DEF Init, PCs
<1>. QED
  BY <1>1, <1>2, <1>3, <1>4, <1>5, <1>6, <1>7, <1>8, <1>9 DEF Types

\* A commit is added to the branch, and every revision stays one.
LEMMA TypesGrow ==
    ASSUME Types, NEW tree \in Trees, log' = Append(log, tree),
           UNCHANGED <<events, queue, status, worker>>, msr' = msr,
           commits' \in 0 .. MaxCommits, mishaps' = mishaps,
           published' \in 0 .. msr.version, mca' \in {mca, msr.commit},
           approved' \subseteq approved \cup {msr.commit}
    PROVE  Types' /\ Revisions \subseteq Revisions' /\ Len(log') = Len(log) + 1
<1>1. log' \in Seq(Trees) /\ Len(log') = Len(log) + 1 /\ Len(log) \in Nat
  BY AppendProperties DEF Types
<1>2. Revisions \subseteq Revisions'
  BY <1>1 DEF Revisions
<1>3. queue' \in Seq(Revisions')
  BY <1>2, SeqMonotonic DEF Types
<1>4. msr' \in Requests(Revisions') /\ msr.commit \in Revisions'
  BY <1>2 DEF Types, Requests
<1>5. events' \in [DOMAIN events' -> Nat] /\ DOMAIN events' \subseteq Revisions'
  BY <1>2 DEF Types
<1>6. mca' \in Revisions' /\ approved' \subseteq Revisions'
  BY <1>2, <1>4 DEF Types
<1>7. revision' \in Revisions' \cup {0} /\ base' \in Revisions' \cup {0}
  BY <1>2 DEF Types, worker
<1>. QED
  BY <1>1, <1>2, <1>3, <1>4, <1>5, <1>6, <1>7 DEF Types, worker

\* A step of the worker that changes only what it holds and the stored status.
LEMMA TypesWork ==
    ASSUME Types, UNCHANGED <<log, events, queue, requests, commits>>,
           mishaps' \in 0 .. MaxMishaps, status' \in MRTStatus, mem' \in MRTStatus,
           pc' \in PCs, fresh' \in BOOLEAN, revision' \in Revisions \cup {0},
           base' \in Revisions \cup {0}
    PROVE  Types' /\ (Bounded => Bounded')
  BY DEF Types, Bounded, Latest, Revisions, requests

\* What Return leaves in the worker's hands is nothing.
LEMMA Returned ==
    ASSUME Return
    PROVE  /\ pc' = "idle" /\ mem' = NewStatus /\ mem' \in MRTStatus /\ mem'.revState = "Empty"
           /\ fresh' \in BOOLEAN /\ ~fresh' /\ revision' = 0 /\ base' = 0 /\ pc' \in PCs
  BY NewStatusType DEF Return, PCs

\* What ToRelease does to the worker's copy.
LEMMA Released ==
    ASSUME NEW st \in MRTStatus, NEW a \in ActionStates, ToRelease(st, a)
    PROVE  /\ pc' = "release" /\ pc' \in PCs /\ fresh' = fresh
           /\ mem' \in MRTStatus /\ mem'.revState = st.revState
  BY StatusWrites DEF ToRelease, Continue, PCs

\* A mishap stays within the bound, and is one.
LEMMA MishapType ==
    ASSUME Types, Mishap
    PROVE  mishaps' \in 0 .. MaxMishaps /\ mishaps' # 0 /\ MaxMishaps \in Nat
  BY BoundAssumption DEF Types, Mishap

\* Events on the branch, after one was added or taken off.
LEMMA TypesEvents ==
    ASSUME Types, Bounded, UNCHANGED <<log, queue, requests, commits, revision, base, status>>,
           mishaps' \in 0 .. MaxMishaps, mem' \in MRTStatus, pc' \in PCs, fresh' \in BOOLEAN,
           \/ \E second \in Nat : CreateNewRevisionEvent(second)
           \/ \E r : events' = Restrict(events, DOMAIN events \ {r})
    PROVE  Types' /\ Bounded'
<1>1. events' \in [DOMAIN events' -> Nat] /\ DOMAIN events' \subseteq Revisions /\ Bounded'
  <2>1. CASE \E second \in Nat : CreateNewRevisionEvent(second)
    <3>1. PICK second \in Nat : CreateNewRevisionEvent(second)
      BY <2>1
    <3>2. RemoteHead \in Revisions
      BY DEF Types, RemoteHead, Revisions
    <3>3. /\ DOMAIN events' = DOMAIN events \cup {RemoteHead}
          /\ \A r \in DOMAIN events' : events'[r] = IF r = RemoteHead THEN second ELSE events[r]
          /\ events' = [r \in DOMAIN events' |-> events'[r]]
      BY <3>1 DEF CreateNewRevisionEvent
    <3>4. \A r \in DOMAIN events' : events'[r] \in Nat
      BY <3>3 DEF Types
    <3>5. Bounded'
      <4>1. PICK bound \in Nat : \A r \in DOMAIN events : events[r] <= bound
        BY DEF Bounded, Latest
      <4>. DEFINE most == bound + second
      <4>2. most \in Nat /\ bound <= most /\ second <= most
        OBVIOUS
      <4>. HIDE DEF most
      <4>3. \A r \in DOMAIN events : events[r] \in Nat
        BY DEF Types
      <4>4. \A r \in DOMAIN events' : events'[r] <= most
        BY <3>3, <4>1, <4>2, <4>3
      <4>. QED
        BY <4>2, <4>4 DEF Bounded, Latest
    <3>. QED
      BY <3>2, <3>3, <3>4, <3>5 DEF Types
  <2>2. ASSUME NEW r, events' = Restrict(events, DOMAIN events \ {r})
        PROVE  events' \in [DOMAIN events' -> Nat] /\ DOMAIN events' \subseteq Revisions /\ Bounded'
    <3>1. events' = [s \in DOMAIN events \ {r} |-> events[s]]
      BY <2>2 DEF Restrict
    <3>2. events' \in [DOMAIN events' -> Nat] /\ DOMAIN events' \subseteq Revisions
      BY <3>1 DEF Types
    <3>3. Bounded'
      BY <3>1 DEF Bounded, Latest
    <3>. QED
      BY <3>2, <3>3
  <2>. QED
    BY <2>1, <2>2
<1>. QED
  BY <1>1 DEF Types, Revisions, requests

\* Changed files hold what some commit of the branch holds.
LEMMA ChangedContents ==
    ASSUME Types, NEW from \in Revisions, NEW to \in Revisions
    PROVE  ChangedFiles(from, to) \in SUBSET Contents
<1>1. log[to] \in Trees
  BY DEF Types, Revisions
<1>. QED
  BY <1>1 DEF ChangedFiles, Contents

\* A Reconcile of the MRT controller keeps every type.
LEMMA TypesReconcile ==
    ASSUME Types, Bounded, InHand, Reconcile
    PROVE  Types' /\ Bounded'
<1>. USE DEF worker, requests
<1>1. mishaps \in 0 .. MaxMishaps /\ status \in MRTStatus /\ mem \in MRTStatus
      /\ fresh \in BOOLEAN /\ revision \in Revisions \cup {0} /\ base \in Revisions \cup {0}
      /\ pc \in PCs
  BY DEF Types
<1>2. "Empty" \in ActionStates /\ "NewRevision" \in ActionStates
  BY DEF ActionStates
<1>3. ASSUME NEW st \in MRTStatus, WriteStatus(st)
      PROVE  Types' /\ Bounded'
  BY <1>1, <1>3, TypesWork DEF WriteStatus
<1>4. CASE LockTimeout \/ StartNewRevision \/ ResetAction
  BY <1>1, <1>2, <1>3, <1>4, StatusWrites DEF LockTimeout, StartNewRevision, ResetAction
<1>5. CASE CheckForNewCommits
  <2>1. \E second \in Nat : CreateNewRevisionEvent(second)
    BY <1>5, NewSeconds DEF CheckForNewCommits
  <2>2. mishaps' \in 0 .. MaxMishaps
    BY <1>1, <1>5, MishapType DEF CheckForNewCommits
  <2>3. mem' \in MRTStatus
    BY <1>1, <1>2, <1>5, StatusWrites DEF CheckForNewCommits
  <2>4. pc' \in PCs /\ fresh' \in BOOLEAN
    BY <1>5 DEF CheckForNewCommits, PCs
  <2>5. UNCHANGED <<log, queue, requests, commits, revision, base, status>>
    BY <1>5 DEF CheckForNewCommits
  <2>. QED
    BY <2>1, <2>2, <2>3, <2>4, <2>5, TypesEvents
<1>6. CASE NoNewCommits
  BY <1>6 DEF NoNewCommits, vars, Types, Bounded, Latest, Revisions
<1>7. CASE AcquireLock
  <2>1. status' \in MRTStatus /\ mem' = status'
    BY <1>1, <1>7, StatusWrites DEF AcquireLock
  <2>2. pc' \in PCs /\ fresh' \in BOOLEAN
    BY <1>7 DEF AcquireLock, PCs
  <2>. QED
    BY <1>1, <1>7, <2>1, <2>2, TypesWork DEF AcquireLock
<1>8. CASE QueueIsEmpty
  BY <1>1, <1>2, <1>8, Released, TypesWork DEF QueueIsEmpty
<1>9. CASE HeadIsDeleted
  BY <1>1, <1>9, Returned, TypesWork DEF HeadIsDeleted
<1>10. CASE DispatchRevision
  <2>1. mem' = mem /\ fresh' = fresh /\ pc' \in {"preflight", "update", "finish"}
    BY <1>1, <1>10, StatusWrites DEF DispatchRevision, Continue, RevisionStates
  <2>2. revision' \in Revisions
    BY <1>10 DEF DispatchRevision, Types
  <2>3. pc' \in PCs
    BY <2>1 DEF PCs
  <2>. QED
    BY <1>1, <1>10, <2>1, <2>2, <2>3, TypesWork DEF DispatchRevision
<1>11. CASE DispatchAbort
  <2>1. [mem EXCEPT !.revState = "Empty"] \in MRTStatus
    BY <1>1, StatusWrites DEF RevisionStates
  <2>. QED
    BY <1>1, <1>2, <1>11, <2>1, Released, TypesWork DEF DispatchAbort
<1>12. CASE PreflightCheck
  <2>1. mem' \in MRTStatus /\ pc' \in PCs /\ fresh' = fresh
    <3>1. [mem EXCEPT !.revState = "UpdateMSRSpec"] \in MRTStatus
      BY <1>1, StatusWrites DEF RevisionStates
    <3>. QED
      BY <1>1, <1>12, <3>1 DEF PreflightCheck, Continue, PCs
  <2>. QED
    BY <1>1, <1>12, <2>1, TypesWork DEF PreflightCheck
<1>13. CASE ReadMCA
  <2>1. mem' = mem /\ pc' \in PCs /\ fresh' = fresh /\ base' \in Revisions
    BY <1>13 DEF ReadMCA, Continue, PCs, Types
  <2>. QED
    BY <1>1, <1>13, <2>1, TypesWork DEF ReadMCA
<1>14. CASE SkipMSRUpdate \/ Finish
  <2>1. revision \in Nat
    BY DEF Types, Revisions
  <2>2. mem' \in MRTStatus /\ pc' \in PCs /\ fresh' = fresh
    BY <1>1, <1>14, <2>1, StatusWrites DEF SkipMSRUpdate, Finish, Continue, PCs
  <2>3. UNCHANGED <<log, events, queue, status, revision, base, requests, commits, mishaps>>
    BY <1>14 DEF SkipMSRUpdate, Finish
  <2>. QED
    BY <1>1, <2>2, <2>3, TypesWork
<1>15. CASE PerformMSRUpdate
  <2>1. base \in Revisions /\ revision \in Revisions
    BY <1>1, <1>15 DEF PerformMSRUpdate, InHand
  <2>2. msr' \in Requests(Revisions) /\ msr'.version = msr.version + 1 /\ msr.version \in Nat
    BY <1>15, <2>1, ChangedContents DEF PerformMSRUpdate, Types, Requests
  <2>3. published' \in 0 .. msr'.version
    BY <1>15, <2>2 DEF PerformMSRUpdate, Types
  <2>4. mem' \in MRTStatus /\ pc' \in PCs /\ fresh' = fresh
    BY <1>1, <1>15, StatusWrites DEF PerformMSRUpdate, Continue, PCs, RevisionStates
  <2>5. UNCHANGED <<log, events, queue, status, revision, base, mca, approved, commits, mishaps>>
    BY <1>15 DEF PerformMSRUpdate
  <2>. QED
    BY <2>2, <2>3, <2>4, <2>5 DEF Types, Revisions, Bounded, Latest
<1>16. CASE RemoveQueueHead
  <2>1. mem.revState \in RevisionStates
    BY <1>1, StatusWrites
  <2>2. mem' \in MRTStatus /\ pc' \in PCs /\ fresh' = fresh
    <3>1. CASE Continue("save", [mem EXCEPT !.revState =
                                    IF @ = "AfterMSRUpdate" THEN "Empty" ELSE "Abort"])
      BY <1>1, <3>1, StatusWrites DEF Continue, PCs, RevisionStates
    <3>2. CASE ToRelease(mem, mem.action)
      BY <1>1, <3>2, StatusWrites, Released
    <3>. QED
      BY <1>16, <3>1, <3>2 DEF RemoveQueueHead
  <2>3. UNCHANGED <<log, queue, status, revision, base, requests, commits, mishaps>>
    BY <1>16 DEF RemoveQueueHead
  <2>4. CASE UNCHANGED events
    BY <1>1, <2>2, <2>3, <2>4, TypesWork
  <2>5. CASE events' = Restrict(events, DOMAIN events \ {Head(queue)})
    BY <1>1, <2>2, <2>3, <2>5, TypesEvents
  <2>. QED
    BY <1>16, <2>4, <2>5 DEF RemoveQueueHead
<1>17. CASE SaveRevisionState
  BY <1>1, <1>2, <1>17, Released, TypesWork DEF SaveRevisionState
<1>18. CASE ReleaseLock
  BY <1>1, <1>18, Returned, TypesWork DEF ReleaseLock
<1>. QED
  BY <1>4, <1>5, <1>6, <1>7, <1>8, <1>9, <1>10, <1>11, <1>12, <1>13, <1>14, <1>15, <1>16, <1>17,
     <1>18 DEF Reconcile

\* So does everything else.
LEMMA TypesRest ==
    ASSUME Types, Bounded, SyncQueue \/ CallFails \/ Crash \/ Environment
    PROVE  Types' /\ Bounded'
<1>. USE DEF worker, requests
<1>1. mishaps \in 0 .. MaxMishaps /\ status \in MRTStatus /\ mem \in MRTStatus
      /\ fresh \in BOOLEAN /\ revision \in Revisions \cup {0} /\ base \in Revisions \cup {0}
      /\ pc \in PCs
  BY DEF Types
<1>2. CASE SyncQueue
  <2>1. queue' \in Seq(Revisions)
    BY <1>2, ListedEvents DEF SyncQueue
  <2>. QED
    BY <1>2, <2>1 DEF SyncQueue, Types, Bounded, Latest, Revisions
<1>3. CASE CallFails
  <2>1. "NewRevision" \in ActionStates
    BY DEF ActionStates
  <2>. QED
    BY <1>1, <1>3, <2>1, MishapType, Released, TypesWork DEF CallFails
<1>4. CASE Crash
  BY <1>1, <1>4, MishapType, Returned, TypesWork DEF Crash
<1>5. CASE EditMRT
  BY <1>1, <1>5, MishapType, TypesWork DEF EditMRT
<1>6. ASSUME NEW tree \in Trees, DeveloperCommits(tree)
      PROVE  Types' /\ Bounded'
  <2>1. commits' \in 0 .. MaxCommits /\ msr.version \in Nat /\ published \in 0 .. msr.version
    BY <1>6, BoundAssumption DEF DeveloperCommits, Types, Requests
  <2>. QED
    BY <1>6, <2>1, TypesGrow DEF DeveloperCommits, Bounded, Latest
<1>7. CASE PublishMSR \/ ApproveMSR
  <2>1. Last(log) \in Trees /\ log' = Append(log, Last(log))
    BY <1>7 DEF PublishMSR, ApproveMSR, PushGovernanceFiles, Last, Types
  <2>2. published' \in 0 .. msr.version /\ mca' \in {mca, msr.commit}
        /\ approved' \subseteq approved \cup {msr.commit}
    BY <1>7 DEF PublishMSR, ApproveMSR, Types, Requests
  <2>3. UNCHANGED <<events, queue, status, worker, msr, commits, mishaps>>
    BY <1>7 DEF PublishMSR, ApproveMSR
  <2>4. commits' \in 0 .. MaxCommits
    BY <2>3 DEF Types
  <2>. QED
    BY <2>1, <2>2, <2>3, <2>4, TypesGrow DEF Bounded, Latest
<1>. QED
  BY <1>2, <1>3, <1>4, <1>5, <1>6, <1>7 DEF Environment

-----------------------------------------------------------------------------
(***************************************************************************)
(* What the worker has in hand                                             *)
(***************************************************************************)

\* The worker's sub-state fits the call it makes next.
LEMMA InHandStep ==
    ASSUME Types, InHand, Next
    PROVE  InHand'
<1>1. mem \in MRTStatus /\ status \in MRTStatus /\ mem.revState \in RevisionStates
  BY StatusWrites DEF Types
<1>2. CASE UNCHANGED worker
  BY <1>2 DEF InHand, worker
<1>3. CASE pc' \in {"idle", "dispatch", "release", "save"}
  BY <1>3 DEF InHand
<1>4. CASE DispatchRevision
  <2>1. mem' = mem /\ pc' = CASE mem.revState = "Empty" -> "preflight"
                              [] mem.revState = "UpdateMSRSpec" -> "update"
                              [] mem.revState = "AfterMSRUpdate" -> "finish"
    BY <1>4 DEF DispatchRevision, Continue
  <2>2. revision' \in Revisions
    BY <1>4 DEF DispatchRevision, Types
  <2>3. mem.revState # "Abort"
    BY <1>4 DEF DispatchRevision
  <2>4. revision' # 0
    BY <2>2 DEF Revisions
  <2>. QED
    BY <1>1, <2>1, <2>3, <2>4 DEF InHand, RevisionStates
<1>5. CASE PreflightCheck \/ SkipMSRUpdate \/ Finish
  BY <1>5 DEF PreflightCheck, SkipMSRUpdate, Finish, Continue, InHand
<1>6. CASE ReadMCA
  BY <1>6 DEF ReadMCA, Continue, InHand, Types, Revisions
<1>7. CASE EditMRT
  BY <1>7 DEF EditMRT, InHand
<1>8. CASE Reconcile /\ ~(DispatchRevision \/ PreflightCheck \/ SkipMSRUpdate \/ Finish \/ ReadMCA)
  BY <1>2, <1>3, <1>8
     DEF Reconcile, LockTimeout, StartNewRevision, ResetAction, WriteStatus, CheckForNewCommits,
         NoNewCommits, vars, AcquireLock, QueueIsEmpty, HeadIsDeleted, DispatchAbort,
         PerformMSRUpdate, RemoveQueueHead, SaveRevisionState, ReleaseLock, ToRelease, Continue, Return
<1>9. CASE SyncQueue \/ CallFails \/ Crash
  BY <1>2, <1>3, <1>9 DEF SyncQueue, CallFails, Crash, ToRelease, Continue, Return
<1>10. CASE Environment /\ ~EditMRT
  BY <1>2, <1>10 DEF Environment, DeveloperCommits, PublishMSR, ApproveMSR
<1>. QED
  BY <1>4, <1>5, <1>6, <1>7, <1>8, <1>9, <1>10 DEF Next

-----------------------------------------------------------------------------
(***************************************************************************)
(* The order of events and queue                                           *)
(***************************************************************************)

\* An event is created behind all others, while the queue is empty.
LEMMA NewEvent ==
    ASSUME Types, Bounded, CheckForNewCommits
    PROVE  /\ DOMAIN events' = DOMAIN events \cup {RemoteHead} /\ RemoteHead \notin DOMAIN events
           /\ \A r \in Revisions : r <= RemoteHead
           /\ queue' = <<>> /\ queue = <<>> /\ pc' = "release" /\ UNCHANGED <<log, status, requests>>
           /\ mem'.revState = status.revState /\ fresh'
           /\ CreateNewRevisionEvent(NewSecond) /\ SecondsIncrease => SecondsIncrease'
           /\ CreateNewRevisionEvent(NewSecond) \/ (SameSecond /\ Mishap)
<1>1. /\ DOMAIN events' = DOMAIN events \cup {RemoteHead} /\ RemoteHead \notin DOMAIN events
      /\ queue' = <<>> /\ queue = <<>> /\ pc' = "release" /\ UNCHANGED <<log, status, requests>>
      /\ mem' = [status EXCEPT !.action = "NewRevision"] /\ fresh'
  BY DEF CheckForNewCommits, CreateNewRevisionEvent
<1>2. mem'.revState = status.revState
  BY <1>1 DEF Types, MRTStatus
<1>3. \A r \in Revisions : r <= RemoteHead /\ r \in Nat
  BY DEF Types, Revisions, RemoteHead
<1>4. ASSUME CreateNewRevisionEvent(NewSecond), SecondsIncrease
      PROVE  SecondsIncrease'
  <2>2. \A r \in DOMAIN events' : events'[r] = IF r = RemoteHead THEN NewSecond ELSE events[r]
    BY <1>4 DEF CreateNewRevisionEvent
  <2>3. \A r \in DOMAIN events : r \in Revisions /\ events[r] < NewSecond
    BY NewSeconds DEF Types
  <2>4. ASSUME NEW r \in DOMAIN events', NEW s \in DOMAIN events', r < s
        PROVE  events'[r] < events'[s]
    <3>1. r # RemoteHead
      <4>1. RemoteHead \in Nat
        BY DEF Types, RemoteHead
      <4>2. s \in Nat /\ s <= RemoteHead
        BY <1>1, <1>3, <2>3, <4>1
      <4>. QED
        BY <2>4, <4>1, <4>2
    <3>2. r \in DOMAIN events /\ events'[r] = events[r]
      BY <1>1, <2>2, <2>4, <3>1
    <3>3. CASE s = RemoteHead
      BY <2>2, <2>3, <2>4, <3>2, <3>3
    <3>4. CASE s # RemoteHead
      BY <1>1, <1>4, <2>2, <2>4, <3>2, <3>4 DEF SecondsIncrease
    <3>. QED
      BY <3>3, <3>4
  <2>. QED
    BY <2>4 DEF SecondsIncrease
<1>5. CreateNewRevisionEvent(NewSecond) \/ (SameSecond /\ Mishap)
  BY DEF CheckForNewCommits
<1>. QED
  BY <1>1, <1>2, <1>3, <1>4, <1>5

\* One is taken off, and the others stay as they are.
LEMMA TakenEvent ==
    ASSUME Types, RemoveQueueHead
    PROVE  /\ DOMAIN events' \subseteq DOMAIN events
           /\ \A r \in DOMAIN events' : events'[r] = events[r]
           /\ pc' \in {"save", "release"} /\ UNCHANGED <<log, queue, status, requests, revision>>
  BY DEF RemoveQueueHead, Restrict, Continue, ToRelease

\* Every other step leaves the events.
LEMMA SameEvents ==
    ASSUME Types, Next, ~CheckForNewCommits, ~RemoveQueueHead
    PROVE  events' = events
  BY DEF Next, Reconcile, LockTimeout, StartNewRevision, ResetAction, WriteStatus, NoNewCommits, vars,
         AcquireLock, QueueIsEmpty, HeadIsDeleted, DispatchRevision, DispatchAbort, PreflightCheck,
         ReadMCA, SkipMSRUpdate, PerformMSRUpdate, Finish, SaveRevisionState, ReleaseLock, SyncQueue,
         CallFails, Crash, Environment, DeveloperCommits, EditMRT, PublishMSR, ApproveMSR

\* Mishaps only add up.
LEMMA CalmBefore ==
    ASSUME Types, Next
    PROVE  mishaps' = mishaps \/ mishaps' # 0
<1>1. mishaps' = mishaps \/ Mishap
  BY DEF Next, Reconcile, LockTimeout, StartNewRevision, ResetAction, WriteStatus, NoNewCommits, vars,
         CheckForNewCommits, RemoveQueueHead,
         AcquireLock, QueueIsEmpty, HeadIsDeleted, DispatchRevision, DispatchAbort, PreflightCheck,
         ReadMCA, SkipMSRUpdate, PerformMSRUpdate, Finish, SaveRevisionState, ReleaseLock, SyncQueue,
         CallFails, Crash, Environment, DeveloperCommits, EditMRT, PublishMSR, ApproveMSR
<1>. QED
  BY <1>1, MishapType

\* No pair of one second is created then.
LEMMA DistinctBefore ==
    ASSUME Types, Bounded, Next, Distinct'
    PROVE  Distinct /\ (CheckForNewCommits => CreateNewRevisionEvent(NewSecond))
  BY CalmBefore, NewEvent, MishapType DEF Distinct

\* Seconds keep to the order of the branch.
LEMMA SecondsStep ==
    ASSUME Types, Bounded, SecondsIncrease, Next,
           CheckForNewCommits => CreateNewRevisionEvent(NewSecond)
    PROVE  SecondsIncrease'
<1>1. CASE CheckForNewCommits
  BY <1>1, NewEvent
<1>2. CASE RemoveQueueHead
  BY <1>2, TakenEvent DEF SecondsIncrease
<1>3. CASE events' = events
  BY <1>3 DEF SecondsIncrease
<1>. QED
  BY <1>1, <1>2, <1>3, SameEvents

\* The head of the queue stays the first event, and the one in hand.
LEMMA HeadStep ==
    ASSUME Types, Bounded, SecondsIncrease, HeadIsFirst, Next
    PROVE  HeadIsFirst'
<1>1. CASE CheckForNewCommits
  BY <1>1, NewEvent DEF HeadIsFirst
<1>2. CASE RemoveQueueHead
  BY <1>2, TakenEvent DEF HeadIsFirst
<1>3. CASE SyncQueue
  <2>1. PICK q \in SortedEvents : queue' = q /\ UNCHANGED <<events, revision, pc>>
    BY <1>3 DEF SyncQueue, worker
  <2>2. q # <<>> => First(Head(q))
    BY HeadOfListed
  <2>3. DOMAIN events # {} => q # <<>>
    BY HeadOfListed
  <2>4. \A r \in DOMAIN events : r \in Nat
    BY DEF Types, Revisions
  <2>5. q # <<>> => \A r \in DOMAIN events : Head(q) <= r
    BY <2>2 DEF First
  <2>6. ASSUME First(revision)
        PROVE  q # <<>> /\ Head(q) = revision
    <3>1. q # <<>>
      BY <2>3, <2>6 DEF First
    <3>2. First(Head(q))
      BY <2>2, <3>1
    <3>. QED
      BY <2>4, <2>6, <3>1, <3>2 DEF First
  <2>. QED
    BY <2>1, <2>5, <2>6 DEF HeadIsFirst, First
<1>4. CASE DispatchRevision
  <2>1. UNCHANGED <<events, queue>> /\ revision' = Head(queue) /\ queue # <<>>
        /\ Head(queue) \in DOMAIN events
    BY <1>4 DEF DispatchRevision
  <2>. QED
    BY <2>1 DEF HeadIsFirst, First
<1>5. CASE UNCHANGED <<events, queue>> /\ pc' \in {"idle", "dispatch", "release", "save"}
  BY <1>5 DEF HeadIsFirst
<1>6. CASE UNCHANGED <<events, queue, pc, revision>>
  BY <1>6 DEF HeadIsFirst, First
<1>7. CASE PreflightCheck \/ ReadMCA \/ SkipMSRUpdate \/ Finish
  BY <1>7 DEF PreflightCheck, ReadMCA, SkipMSRUpdate, Finish, Continue, HeadIsFirst, First
<1>8. CASE Reconcile /\ ~(CheckForNewCommits \/ RemoveQueueHead \/ DispatchRevision
                          \/ PreflightCheck \/ ReadMCA \/ SkipMSRUpdate \/ Finish)
  BY <1>5, <1>6, <1>8
     DEF Reconcile, LockTimeout, StartNewRevision, ResetAction, WriteStatus, NoNewCommits, vars, worker,
         AcquireLock, QueueIsEmpty, HeadIsDeleted, DispatchAbort, PerformMSRUpdate, SaveRevisionState,
         ReleaseLock, ToRelease, Continue, Return
<1>9. CASE CallFails \/ Crash \/ Environment
  BY <1>5, <1>6, <1>9
     DEF CallFails, Crash, ToRelease, Continue, Return, Environment, DeveloperCommits, EditMRT,
         PublishMSR, ApproveMSR, worker
<1>. QED
  BY <1>1, <1>2, <1>3, <1>4, <1>7, <1>8, <1>9 DEF Next, Reconcile

-----------------------------------------------------------------------------
(***************************************************************************)
(* Sub-states, proposals and approvals                                     *)
(***************************************************************************)

\* Sub-states are passed between the stored status and the copy; new ones come from
\* Preflight, UpdateMSR and the end of a revision.
LEMMA SubStates ==
    ASSUME Types, Next, ~PreflightCheck, ~PerformMSRUpdate, ~RemoveQueueHead
    PROVE  /\ msr' = msr
           /\ status'.revState \in {status.revState, mem.revState}
           /\ mem'.revState \in {mem.revState, status.revState, "Empty"}
<1>. USE DEF worker, requests
<1>1. mem \in MRTStatus /\ status \in MRTStatus
  BY DEF Types
<1>2. NewStatus.revState = "Empty"
  BY DEF NewStatus
<1>3. ASSUME NEW st \in MRTStatus, NEW a, ToRelease(st, a)
      PROVE  mem'.revState = st.revState
  BY <1>3 DEF ToRelease, Continue, MRTStatus
<1>4. CASE LockTimeout \/ StartNewRevision \/ ResetAction \/ NoNewCommits
  BY <1>1, <1>4 DEF LockTimeout, StartNewRevision, ResetAction, WriteStatus, NoNewCommits, vars, MRTStatus
<1>5. CASE CheckForNewCommits \/ AcquireLock
  BY <1>1, <1>5 DEF CheckForNewCommits, AcquireLock, MRTStatus
<1>6. CASE QueueIsEmpty \/ SaveRevisionState \/ CallFails
  BY <1>1, <1>3, <1>6 DEF QueueIsEmpty, SaveRevisionState, CallFails
<1>7. CASE HeadIsDeleted \/ ReleaseLock \/ Crash
  BY <1>1, <1>2, <1>7 DEF HeadIsDeleted, ReleaseLock, Crash, Return
<1>8. CASE DispatchRevision \/ ReadMCA \/ SkipMSRUpdate \/ Finish
  BY <1>1, <1>8 DEF DispatchRevision, ReadMCA, SkipMSRUpdate, Finish, Continue, MRTStatus
<1>9. CASE DispatchAbort
  <2>1. [mem EXCEPT !.revState = "Empty"] \in MRTStatus
    BY <1>1, StatusWrites DEF RevisionStates
  <2>2. [mem EXCEPT !.revState = "Empty"].revState = "Empty"
    BY <1>1 DEF MRTStatus
  <2>. QED
    BY <1>3, <1>9, <2>1, <2>2 DEF DispatchAbort
<1>10. CASE SyncQueue \/ Environment
  BY <1>10 DEF SyncQueue, Environment, DeveloperCommits, EditMRT, PublishMSR, ApproveMSR
<1>. QED
  BY <1>4, <1>5, <1>6, <1>7, <1>8, <1>9, <1>10 DEF Next, Reconcile

\* A revision that is not skipped is newer than the MSR.
LEMMA PreflightStep ==
    ASSUME Types, revision \in Revisions, PreflightCheck
    PROVE  /\ UNCHANGED <<events, queue, msr, status, fresh, revision>> /\ pc' \in {"save", "remove"}
           /\ \/ mem'.revState = mem.revState /\ pc' = "remove"
              \/ /\ mem'.revState = "UpdateMSRSpec" /\ pc' = "save"
                 /\ msr.commit < revision
<1>1. CASE ShouldSkipRevision
  BY <1>1 DEF PreflightCheck, Continue, requests
<1>2. CASE ~ShouldSkipRevision
  <2>1. msr.commit < revision
    BY <1>2 DEF ShouldSkipRevision, Types, Requests, Revisions
  <2>2. mem'.revState = "UpdateMSRSpec" /\ pc' = "save"
    BY <1>2 DEF PreflightCheck, Continue, Types, MRTStatus
  <2>. QED
    BY <2>1, <2>2 DEF PreflightCheck, Continue, requests
<1>. QED
  BY <1>1, <1>2

\* UpdateMSR proposes the revision in hand.
LEMMA UpdateStep ==
    ASSUME Types, PerformMSRUpdate
    PROVE  /\ UNCHANGED <<events, queue, status, mca, approved, fresh, revision>>
           /\ pc = "diff" /\ pc' = "save"
           /\ mem'.revState = "AfterMSRUpdate" /\ msr'.commit = revision /\ msr'.previous = base
  BY DEF PerformMSRUpdate, Continue, Types, MRTStatus

\* The end of a revision leaves no sub-state that waits for an event.
LEMMA RemoveStep ==
    ASSUME Types, RemoveQueueHead
    PROVE  /\ fresh' = fresh
           /\ \/ mem'.revState \in {"Empty", "Abort"} /\ pc' = "save"
              \/ mem'.revState = mem.revState /\ events' = events /\ pc' = "release"
<1>1. CASE Continue("save", [mem EXCEPT !.revState =
                                IF @ = "AfterMSRUpdate" THEN "Empty" ELSE "Abort"])
  BY <1>1 DEF Continue, Types, MRTStatus
<1>2. CASE ToRelease(mem, mem.action) /\ UNCHANGED events
  BY <1>2 DEF ToRelease, Continue, Types, MRTStatus
<1>. QED
  BY <1>1, <1>2 DEF RemoveQueueHead

\* No step leaves an event behind the MSR.
LEMMA BehindStep ==
    ASSUME Types, Bounded, HeadIsFirst, NoneBehind, Next
    PROVE  NoneBehind'
<1>1. CASE CheckForNewCommits
  <2>1. msr.commit <= RemoteHead /\ msr' = msr
    BY <1>1, NewEvent DEF Types, Requests, requests
  <2>. QED
    BY <1>1, <2>1, NewEvent DEF NoneBehind
<1>2. CASE RemoveQueueHead
  BY <1>2, TakenEvent DEF NoneBehind, requests
<1>3. CASE PerformMSRUpdate
  BY <1>3, UpdateStep DEF NoneBehind, HeadIsFirst, First
<1>4. CASE PreflightCheck
  BY <1>4, SameEvents DEF PreflightCheck, NoneBehind, requests
<1>5. CASE ~(CheckForNewCommits \/ RemoveQueueHead \/ PreflightCheck \/ PerformMSRUpdate)
  BY <1>5, SameEvents, SubStates DEF NoneBehind
<1>. QED
  BY <1>1, <1>2, <1>3, <1>4, <1>5

\* Without a pair of one second, events, queue and proposals follow the branch.
LEMMA OrderedStep ==
    ASSUME Types, Bounded, Ordered, Next,
           CheckForNewCommits => CreateNewRevisionEvent(NewSecond)
    PROVE  Ordered' /\ (PerformMSRUpdate => First(revision) /\ msr.commit <= revision)
<1>1. Ordered'
  BY SecondsStep, HeadStep, BehindStep DEF Ordered
<1>2. PerformMSRUpdate => First(revision)
  BY DEF PerformMSRUpdate, Ordered, HeadIsFirst
<1>. QED
  BY <1>1, <1>2 DEF Ordered, NoneBehind, First

\* Approvals keep following the branch if proposals do.
LEMMA ApprovalsStep ==
    ASSUME Types, PerformMSRUpdate => msr.commit <= revision, Approvals, Next
    PROVE  Approvals'
<1>1. /\ mca \in Nat /\ msr.commit \in Nat /\ base \in Nat
      /\ \A r \in approved : r \in Nat
  BY DEF Types, Requests, Revisions
<1>2. CASE ReadMCA
  BY <1>1, <1>2 DEF ReadMCA, Continue, requests, Approvals
<1>3. CASE PerformMSRUpdate
  <2>1. /\ UNCHANGED <<mca, approved>> /\ pc = "diff" /\ pc' = "save"
        /\ msr.commit <= msr'.commit /\ msr'.commit \in Nat /\ msr'.previous = base
    BY <1>3, UpdateStep DEF Types, Revisions
  <2>. QED
    BY <1>1, <2>1 DEF Approvals
<1>4. CASE ApproveMSR
  <2>1. /\ mca # msr.commit /\ mca' = msr.commit /\ approved' = approved \cup {msr.commit}
        /\ UNCHANGED <<msr, pc, base>>
    BY <1>4 DEF ApproveMSR, worker
  <2>2. \A r \in approved' : r <= mca'
    BY <1>1, <2>1 DEF Approvals
  <2>3. pc = "diff" => base = mca
    BY <2>1 DEF Approvals
  <2>. QED
    BY <1>1, <2>1, <2>2, <2>3 DEF Approvals
<1>5. CASE UNCHANGED requests /\ (pc' # "diff" \/ UNCHANGED <<pc, base>>)
  BY <1>5 DEF requests, Approvals
<1>6. CASE PublishMSR
  BY <1>6 DEF PublishMSR, worker, Approvals
<1>7. CASE Reconcile /\ ~ReadMCA /\ ~PerformMSRUpdate
  <2>1. CASE LockTimeout \/ StartNewRevision \/ ResetAction \/ NoNewCommits
    BY <1>5, <2>1
       DEF LockTimeout, StartNewRevision, ResetAction, WriteStatus, NoNewCommits, vars, worker
  <2>2. CASE CheckForNewCommits \/ AcquireLock \/ HeadIsDeleted \/ ReleaseLock
    BY <1>5, <2>2 DEF CheckForNewCommits, AcquireLock, HeadIsDeleted, ReleaseLock, Return
  <2>3. CASE QueueIsEmpty \/ DispatchAbort \/ SaveRevisionState
    BY <1>5, <2>3 DEF QueueIsEmpty, DispatchAbort, SaveRevisionState, ToRelease, Continue
  <2>4. CASE DispatchRevision
    <3>1. mem.revState \in RevisionStates
      BY StatusWrites DEF Types
    <3>2. pc' # "diff" /\ UNCHANGED requests
      BY <2>4, <3>1 DEF DispatchRevision, Continue, RevisionStates
    <3>. QED
      BY <1>5, <3>2
  <2>5. CASE PreflightCheck \/ SkipMSRUpdate \/ Finish \/ RemoveQueueHead
    <3>1. pc' # "diff" /\ UNCHANGED requests
      BY <2>5 DEF PreflightCheck, SkipMSRUpdate, Finish, RemoveQueueHead, ToRelease, Continue
    <3>. QED
      BY <1>5, <3>1
  <2>. QED
    BY <1>7, <2>1, <2>2, <2>3, <2>4, <2>5 DEF Reconcile
<1>8. CASE SyncQueue \/ CallFails \/ Crash \/ (\E tree \in Trees : DeveloperCommits(tree)) \/ EditMRT
  BY <1>5, <1>8 DEF SyncQueue, CallFails, Crash, DeveloperCommits, EditMRT, ToRelease, Continue, Return,
     worker
<1>. QED
  BY <1>2, <1>3, <1>4, <1>6, <1>7, <1>8 DEF Next, Environment

-----------------------------------------------------------------------------
(***************************************************************************)
(* Until the first mishap                                                  *)
(***************************************************************************)

\* No copy of the MRT grows old.
LEMMA FreshStep ==
    ASSUME Types, Next, mishaps' = mishaps, pc # "idle" => fresh
    PROVE  /\ ~CallFails /\ ~Crash /\ ~EditMRT
           /\ pc' # "idle" => fresh'
<1>. USE DEF worker
<1>1. ~CallFails /\ ~Crash /\ ~EditMRT
  BY DEF Types, Mishap, CallFails, Crash, EditMRT
<1>. SUFFICES ASSUME pc' # "idle" PROVE fresh'
  BY <1>1
<1>2. CASE LockTimeout \/ StartNewRevision \/ ResetAction \/ NoNewCommits
  BY <1>2 DEF LockTimeout, StartNewRevision, ResetAction, WriteStatus, NoNewCommits, vars
<1>3. CASE CheckForNewCommits \/ AcquireLock \/ HeadIsDeleted \/ ReleaseLock
  BY <1>3 DEF CheckForNewCommits, AcquireLock, HeadIsDeleted, ReleaseLock, Return
<1>4. CASE QueueIsEmpty \/ DispatchAbort \/ SaveRevisionState
  BY <1>4 DEF QueueIsEmpty, DispatchAbort, SaveRevisionState, ToRelease, Continue
<1>5. CASE DispatchRevision \/ PreflightCheck \/ ReadMCA
  BY <1>5 DEF DispatchRevision, PreflightCheck, ReadMCA, Continue
<1>6. CASE SkipMSRUpdate \/ PerformMSRUpdate \/ Finish
  BY <1>6 DEF SkipMSRUpdate, PerformMSRUpdate, Finish, Continue
<1>7. CASE RemoveQueueHead
  BY <1>7, RemoveStep DEF RemoveQueueHead
<1>8. CASE SyncQueue \/ Environment
  BY <1>1, <1>8 DEF SyncQueue, Environment, DeveloperCommits, PublishMSR, ApproveMSR
<1>. QED
  BY <1>1, <1>2, <1>3, <1>4, <1>5, <1>6, <1>7, <1>8 DEF Next, Reconcile

\* The event a sub-state waits for waits for that sub-state.
LEMMA PendingStep ==
    ASSUME Types, Bounded, HeadIsFirst, mishaps' = mishaps, pc # "idle" => fresh, Pending(mem),
           pc # "save" => Pending(status), Next
    PROVE  Pending(mem)' /\ (pc' # "save" => Pending(status)')
<1>1. \A r \in DOMAIN events : r \in Nat
  BY DEF Types, Revisions
<1>2. msr.commit \in Nat /\ msr.commit <= RemoteHead /\ RemoteHead \in Nat
  BY DEF Types, Requests, Revisions, RemoteHead
<1>3. CASE CheckForNewCommits
  <2>1. /\ pc = "idle" /\ mem'.revState = status.revState /\ UNCHANGED <<status, msr>>
        /\ DOMAIN events' = DOMAIN events \cup {RemoteHead}
        /\ \A r \in DOMAIN events : r <= RemoteHead
    BY <1>3, NewEvent DEF CheckForNewCommits, Types, requests
  <2>2. Pending(status)
    BY <2>1
  <2>3. CASE status.revState = "AfterMSRUpdate"
    BY <1>2, <2>1, <2>2, <2>3 DEF Pending, First
  <2>4. CASE status.revState = "UpdateMSRSpec"
    <3>1. PICK r \in DOMAIN events : msr.commit < r
      BY <2>2, <2>4 DEF Pending
    <3>2. msr.commit < RemoteHead
      BY <1>1, <1>2, <2>1, <3>1
    <3>3. \A s \in DOMAIN events' : msr'.commit < s
      BY <2>1, <2>2, <2>4, <3>2 DEF Pending
    <3>. QED
      BY <2>1, <2>4, <3>3 DEF Pending
  <2>. QED
    BY <2>1, <2>3, <2>4 DEF Pending
<1>4. CASE RemoveQueueHead
  <2>1. First(revision) /\ queue # <<>> /\ Head(queue) = revision
    BY <1>4 DEF RemoveQueueHead, HeadIsFirst
  <2>2. pc' = "save" /\ mem'.revState \in {"Empty", "Abort"}
    BY <1>4, <2>1, RemoveStep DEF RemoveQueueHead, First, Continue, Types, MRTStatus
  <2>. QED
    BY <2>2 DEF Pending
<1>5. CASE PreflightCheck
  <2>1. pc = "preflight" /\ Pending(status) /\ First(revision)
    BY <1>5 DEF PreflightCheck, HeadIsFirst
  <2>2. revision \in Revisions
    BY <2>1 DEF First, Types
  <2>3. msr.commit < revision => \A r \in DOMAIN events : msr.commit < r
    BY <1>1, <1>2, <2>1 DEF First
  <2>4. DOMAIN events # {} /\ UNCHANGED <<events, msr, status>>
    BY <1>5, <2>1, <2>2, PreflightStep DEF First
  <2>5. CASE mem'.revState = mem.revState
    BY <2>1, <2>4, <2>5 DEF Pending, First
  <2>6. CASE mem'.revState = "UpdateMSRSpec" /\ msr.commit < revision
    BY <2>1, <2>3, <2>4, <2>6 DEF Pending, First
  <2>. QED
    BY <1>5, <2>2, <2>5, <2>6, PreflightStep
<1>6. CASE PerformMSRUpdate
  <2>1. First(revision)
    BY <1>6 DEF PerformMSRUpdate, HeadIsFirst
  <2>. QED
    BY <1>6, <2>1, UpdateStep DEF Pending, First
<1>7. CASE pc = "save" /\ ~(CheckForNewCommits \/ RemoveQueueHead \/ PreflightCheck \/ PerformMSRUpdate)
  <2>1. CASE SaveRevisionState
    <3>1. UNCHANGED <<events, msr>> /\ status' = mem /\ fresh
      BY <1>7, <2>1 DEF SaveRevisionState, requests
    <3>2. mem'.revState = mem.revState
      BY <2>1, Released DEF SaveRevisionState, Types, ActionStates
    <3>. QED
      BY <3>1, <3>2 DEF Pending, First
  <2>2. CASE SyncQueue \/ (\E tree \in Trees : DeveloperCommits(tree)) \/ PublishMSR \/ ApproveMSR
    <3>1. UNCHANGED <<events, msr, mem, status, pc>>
      BY <2>2 DEF SyncQueue, DeveloperCommits, PublishMSR, ApproveMSR, worker, requests
    <3>. QED
      BY <1>7, <3>1 DEF Pending, First
  <2>3. CASE Reconcile /\ ~SaveRevisionState
    <3>1. CASE NoNewCommits
      BY <1>7, <3>1 DEF NoNewCommits
    <3>. QED
      BY <1>7, <2>3, <3>1
         DEF Reconcile, LockTimeout, StartNewRevision, ResetAction, WriteStatus, AcquireLock, QueueIsEmpty,
             HeadIsDeleted, DispatchRevision, DispatchAbort, ReadMCA, SkipMSRUpdate, Finish, ReleaseLock
  <2>. QED
    BY <2>1, <2>2, <2>3, FreshStep DEF Next, Environment
<1>8. CASE pc # "save" /\ ~(CheckForNewCommits \/ RemoveQueueHead \/ PreflightCheck \/ PerformMSRUpdate)
  <2>1. Pending(mem) /\ Pending(status) /\ events' = events
    BY <1>8, SameEvents
  <2>. QED
    BY <1>8, <2>1, SubStates DEF Pending, First
<1>. QED
  BY <1>3, <1>4, <1>5, <1>6, <1>7, <1>8

-----------------------------------------------------------------------------
(***************************************************************************)
(* A pair of events of one second                                          *)
(***************************************************************************)

\* The last event and the new one become the pair.
LEMMA NewPair ==
    ASSUME Types, Bounded, Ordered, CheckForNewCommits, ~CreateNewRevisionEvent(NewSecond)
    PROVE  \E a, b \in Nat : Tied(a, b)'
<1>1. events # <<>> /\ CreateNewRevisionEvent(NewSecond - 1)
  BY DEF CheckForNewCommits
<1>2. PICK a \in DOMAIN events : events[a] = NewSecond - 1
  BY <1>1, NewSeconds
<1>3. PICK b \in Nat : b = RemoteHead
  BY DEF Types, RemoteHead
<1>4. /\ DOMAIN events' = DOMAIN events \cup {b}
      /\ \A r \in DOMAIN events' : events'[r] = IF r = b THEN NewSecond - 1 ELSE events[r]
      /\ b \notin DOMAIN events
  BY <1>1, <1>3, NewEvent DEF CreateNewRevisionEvent
<1>5. \A r \in DOMAIN events : r \in Nat /\ r <= b /\ r # b
  BY <1>4, <1>3 DEF Types, Revisions, RemoteHead
<1>6. /\ a \in Nat /\ b \in Nat /\ NewSecond \in Nat
      /\ \A r \in DOMAIN events : r \in Nat /\ r <= b /\ r # b
                                  /\ events[r] \in Nat /\ events[r] < NewSecond
  BY <1>2, <1>5, NewSeconds DEF Types
<1>7. a < b /\ Pair(a, b)'
  BY <1>2, <1>4, <1>6 DEF Pair
<1>8. ASSUME NEW r \in DOMAIN events', NEW s \in DOMAIN events', r < s
      PROVE  events'[r] < events'[s] \/ (r = a /\ s = b)
  <2>1. r \in DOMAIN events /\ events'[r] = events[r]
    BY <1>4, <1>6, <1>8
  <2>2. CASE s # b
    BY <1>4, <1>8, <2>1, <2>2 DEF Ordered, SecondsIncrease
  <2>3. CASE s = b /\ r # a
    <3>1. r < a \/ a < r
      BY <1>6, <2>1, <2>3
    <3>2. events[r] # events[a]
      BY <1>2, <1>6, <2>1, <3>1 DEF Ordered, SecondsIncrease
    <3>3. events[r] < NewSecond - 1
      BY <1>2, <1>6, <2>1, <3>2
    <3>. QED
      BY <1>4, <2>1, <2>3, <3>3
  <2>. QED
    BY <2>2, <2>3
<1>9. PairInOrder(a, b)'
  BY <1>7, <1>8 DEF PairInOrder
<1>10. queue' = <<>> /\ pc' = "release" /\ fresh' /\ UNCHANGED <<msr, status>>
      /\ mem'.revState = status.revState
  BY NewEvent DEF requests
<1>11. PairAtHead(a, b)'
  BY <1>10 DEF PairAtHead
<1>12. PairCalm(a, b)'
  <2>1. msr.commit <= a
    BY DEF Ordered, NoneBehind
  <2>2. NoneBehind'
    BY BehindStep DEF Ordered, Next, Reconcile
  <2>. QED
    BY <1>10, <2>1, <2>2 DEF PairCalm, PairPending
<1>. QED
  BY <1>6, <1>9, <1>11, <1>12 DEF Tied

\* The head of a new list is the first event, or the second of a pair that is first.
LEMMA PairOfListed ==
    ASSUME Types, NEW a, NEW b, PairInOrder(a, b), NEW q \in SortedEvents, q # <<>>
    PROVE  AtFront(a, b, Head(q))
<1>1. Head(q) \in DOMAIN events /\ \A r \in DOMAIN events : events[Head(q)] <= events[r]
  BY HeadIsEarliest
<1>2. \A r \in DOMAIN events : events[r] \in Nat
  BY DEF Types
<1>3. ASSUME NEW r \in DOMAIN events, r < Head(q)
      PROVE  r = a /\ Head(q) = b /\ Pair(a, b)
  <2>1. ~(events[r] < events[Head(q)])
    BY <1>1, <1>2
  <2>. QED
    BY <1>1, <1>3, <2>1 DEF PairInOrder
<1>. QED
  BY <1>3 DEF AtFront

\* No second pair comes about.
LEMMA PairOrderStep ==
    ASSUME Types, Bounded, NEW a \in Nat, NEW b \in Nat, PairInOrder(a, b), Next,
           CheckForNewCommits => CreateNewRevisionEvent(NewSecond)
    PROVE  PairInOrder(a, b)'
<1>1. CASE CheckForNewCommits
  <2>1. /\ DOMAIN events' = DOMAIN events \cup {RemoteHead}
        /\ \A r \in DOMAIN events' : events'[r] = IF r = RemoteHead THEN NewSecond ELSE events[r]
        /\ RemoteHead \notin DOMAIN events
    BY <1>1, NewEvent DEF CreateNewRevisionEvent
  <2>2. RemoteHead \in Nat /\ \A r \in DOMAIN events : r \in Nat /\ r <= RemoteHead /\ r # RemoteHead
                                                      /\ events[r] < NewSecond
    BY <1>1, <2>1, NewEvent, NewSeconds DEF Types, Revisions, RemoteHead
  <2>3. ASSUME NEW r \in DOMAIN events', NEW s \in DOMAIN events', r < s
        PROVE  events'[r] < events'[s] \/ (r = a /\ s = b /\ Pair(a, b)')
    <3>1. r \in DOMAIN events /\ events'[r] = events[r]
      BY <2>1, <2>2, <2>3
    <3>2. CASE s = RemoteHead
      BY <2>1, <2>2, <3>1, <3>2
    <3>3. CASE s # RemoteHead
      <4>1. s \in DOMAIN events /\ events'[s] = events[s]
        BY <2>1, <3>3
      <4>2. events[r] < events[s] \/ (r = a /\ s = b /\ Pair(a, b))
        BY <2>3, <3>1, <4>1 DEF PairInOrder
      <4>. QED
        BY <2>1, <3>1, <4>1, <4>2 DEF Pair
    <3>. QED
      BY <3>2, <3>3
  <2>. QED
    BY <2>3 DEF PairInOrder
<1>2. CASE RemoveQueueHead
  BY <1>2, TakenEvent DEF PairInOrder, Pair
<1>3. CASE events' = events
  BY <1>3 DEF PairInOrder, Pair
<1>. QED
  BY <1>1, <1>2, <1>3, SameEvents

\* The head stays the first event, or the second of a pair that is first.
LEMMA PairHeadStep ==
    ASSUME Types, Bounded, NEW a, NEW b, PairInOrder(a, b), PairAtHead(a, b), Next
    PROVE  PairAtHead(a, b)'
<1>1. CASE CheckForNewCommits
  BY <1>1, NewEvent DEF PairAtHead
<1>2. CASE RemoveQueueHead
  BY <1>2, TakenEvent DEF PairAtHead, AtFront, Pair
<1>3. CASE SyncQueue
  <2>1. PICK q \in SortedEvents : queue' = q /\ UNCHANGED <<events, revision, pc>>
    BY <1>3 DEF SyncQueue, worker
  <2>2. q # <<>> => AtFront(a, b, Head(q))
    BY PairOfListed
  <2>. QED
    BY <2>1, <2>2 DEF PairAtHead, AtFront, Pair
<1>4. CASE DispatchRevision
  <2>1. UNCHANGED <<events, queue>> /\ revision' = Head(queue) /\ queue # <<>>
        /\ Head(queue) \in DOMAIN events
    BY <1>4 DEF DispatchRevision
  <2>. QED
    BY <2>1 DEF PairAtHead, AtFront, Pair
<1>5. CASE UNCHANGED <<events, queue>> /\ pc' \in {"idle", "dispatch", "release", "save"}
  BY <1>5 DEF PairAtHead, AtFront, Pair
<1>6. CASE UNCHANGED <<events, queue, pc, revision>>
  BY <1>6 DEF PairAtHead, AtFront, Pair
<1>7. CASE PreflightCheck \/ ReadMCA \/ SkipMSRUpdate \/ Finish
  BY <1>7 DEF PreflightCheck, ReadMCA, SkipMSRUpdate, Finish, Continue, PairAtHead, AtFront, Pair
<1>8. CASE Reconcile /\ ~(CheckForNewCommits \/ RemoveQueueHead \/ DispatchRevision
                          \/ PreflightCheck \/ ReadMCA \/ SkipMSRUpdate \/ Finish)
  BY <1>5, <1>6, <1>8
     DEF Reconcile, LockTimeout, StartNewRevision, ResetAction, WriteStatus, NoNewCommits, vars, worker,
         AcquireLock, QueueIsEmpty, HeadIsDeleted, DispatchAbort, PerformMSRUpdate, SaveRevisionState,
         ReleaseLock, ToRelease, Continue, Return
<1>9. CASE CallFails \/ Crash \/ Environment
  BY <1>5, <1>6, <1>9
     DEF CallFails, Crash, ToRelease, Continue, Return, Environment, DeveloperCommits, EditMRT,
         PublishMSR, ApproveMSR, worker
<1>. QED
  BY <1>1, <1>2, <1>3, <1>4, <1>7, <1>8, <1>9 DEF Next, Reconcile

\* A sub-state that is passed on stays as good as it was.
LEMMA PairKept ==
    ASSUME NEW a, NEW b, NEW st, PairPending(a, b, st), UNCHANGED <<events, msr>>
    PROVE  /\ mem'.revState = st.revState => PairPending(a, b, mem)'
           /\ status'.revState = st.revState => PairPending(a, b, status)'
  BY DEF PairPending, Pair, First, NoneBehind

\* No sub-state is lost, and none passes Preflight ahead of an older event.
LEMMA PairCalmStep ==
    ASSUME Types, Bounded, InHand, NEW a \in Nat, NEW b \in Nat, Tied(a, b), Next,
           mishaps' = mishaps, CheckForNewCommits => CreateNewRevisionEvent(NewSecond)
    PROVE  PairCalm(a, b)'
<1>1. /\ \A r \in DOMAIN events : r \in Nat
      /\ msr.commit \in Nat /\ msr.commit <= RemoteHead /\ RemoteHead \in Nat
      /\ revision \in Nat /\ a < b
      /\ mem \in MRTStatus /\ status \in MRTStatus
  BY DEF Types, Requests, Revisions, RemoteHead, Tied, PairInOrder
<1>2. /\ pc # "idle" => fresh /\ PairPending(a, b, mem)
      /\ pc # "save" => PairPending(a, b, status)
  BY DEF Tied, PairCalm
<1>3. /\ ~CallFails /\ ~Crash /\ ~EditMRT
      /\ pc' # "idle" => fresh'
  BY <1>2, FreshStep
<1>. SUFFICES /\ pc' # "idle" => PairPending(a, b, mem)'
              /\ pc' # "save" => PairPending(a, b, status)'
  BY <1>3 DEF PairCalm
<1>4. CASE CheckForNewCommits
  <2>1. /\ mem'.revState = status.revState /\ UNCHANGED <<status, msr>> /\ PairPending(a, b, status)
        /\ DOMAIN events' = DOMAIN events \cup {RemoteHead}
        /\ \A r \in DOMAIN events' : events'[r] = IF r = RemoteHead THEN NewSecond ELSE events[r]
        /\ \A r \in DOMAIN events : r <= RemoteHead /\ events[r] < NewSecond /\ events[r] \in Nat
    BY <1>2, <1>4, NewEvent, NewSeconds
       DEF CheckForNewCommits, CreateNewRevisionEvent, Types, requests
  <2>2. NewSecond \in Nat
    BY NewSeconds
  <2>3. Pair(a, b)' => Pair(a, b)
    <3>. SUFFICES ASSUME Pair(a, b)' PROVE Pair(a, b)
      OBVIOUS
    <3>1. {a, b} \subseteq DOMAIN events' /\ events'[a] = events'[b]
      BY DEF Pair
    <3>2. a # RemoteHead
      BY <1>1, <2>1, <3>1
    <3>3. a \in DOMAIN events /\ events'[a] = events[a]
      BY <2>1, <3>1, <3>2
    <3>4. b # RemoteHead
      <4>1. events'[a] < NewSecond /\ events'[a] \in Nat
        BY <2>1, <3>3
      <4>2. b = RemoteHead => events'[b] = NewSecond
        BY <2>1, <3>1
      <4>. QED
        BY <2>2, <3>1, <4>1, <4>2
    <3>. QED
      BY <2>1, <3>1, <3>3, <3>4 DEF Pair
  <2>4. First(a) => First(a)'
    BY <2>1 DEF First
  <2>5. NoneBehind => NoneBehind'
    BY <1>1, <2>1 DEF NoneBehind
  <2>. QED
    BY <2>1, <2>3, <2>4, <2>5 DEF PairPending
<1>5. CASE RemoveQueueHead
  <2>1. PairPending(a, b, mem) /\ PairPending(a, b, status) /\ UNCHANGED <<msr, status>>
    BY <1>2, <1>5, TakenEvent DEF RemoveQueueHead, requests
  <2>2. CASE events' = events /\ pc' = "release" /\ mem'.revState = mem.revState
    BY <2>1, <2>2, PairKept
  <2>3. CASE queue # <<>> /\ Head(queue) \in DOMAIN events
    <3>1. DOMAIN events' = DOMAIN events \ {Head(queue)}
          /\ \A r \in DOMAIN events' : events'[r] = events[r]
      BY <1>5, <2>3 DEF RemoveQueueHead, Restrict
    <3>2. pc' = "save" /\ mem'.revState \in {"Empty", "Abort"}
      BY <1>1, <1>5, <2>3 DEF RemoveQueueHead, Continue, MRTStatus
    <3>3. Pair(a, b)' => Pair(a, b) /\ Head(queue) # a /\ Head(queue) # b
      BY <3>1 DEF Pair
    <3>4. First(a) => Head(queue) = a \/ Head(queue) = b
      BY <1>1, <2>3 DEF First, Tied, PairAtHead, AtFront
    <3>. QED
      BY <2>1, <3>2, <3>3, <3>4 DEF PairPending
  <2>. QED
    BY <1>5, <2>2, <2>3, RemoveStep DEF RemoveQueueHead, ToRelease, Continue
<1>6. CASE PreflightCheck
  <2>1. /\ PairPending(a, b, mem) /\ PairPending(a, b, status) /\ mem.revState = "Empty"
        /\ revision \in DOMAIN events /\ AtFront(a, b, revision)
    BY <1>2, <1>6 DEF PreflightCheck, InHand, Tied, PairAtHead
  <2>2. revision \in Revisions
    BY <2>1 DEF Types
  <2>3. UNCHANGED <<events, msr, status>>
    BY <1>6, <2>2, PreflightStep
  <2>4. PairPending(a, b, status)'
    BY <2>1, <2>3, PairKept
  <2>5. CASE mem'.revState = mem.revState
    BY <2>1, <2>3, <2>4, <2>5, PairKept
  <2>6. CASE mem'.revState = "UpdateMSRSpec" /\ msr.commit < revision
    <3>1. Pair(a, b) => msr.commit <= a
      BY <2>1 DEF PairPending
    <3>2. NoneBehind
      <4>1. ASSUME NEW r \in DOMAIN events
            PROVE  msr.commit <= r
        <5>1. CASE r < revision
          BY <2>1, <3>1, <5>1 DEF AtFront
        <5>2. CASE ~(r < revision)
          BY <1>1, <2>6, <5>2
        <5>. QED
          BY <5>1, <5>2
      <4>. QED
        BY <4>1 DEF NoneBehind
    <3>. QED
      BY <2>3, <2>4, <2>6, <3>1, <3>2 DEF PairPending, Pair, NoneBehind
  <2>. QED
    BY <1>6, <2>2, <2>5, <2>6, PreflightStep
<1>7. CASE PerformMSRUpdate
  <2>1. /\ UNCHANGED events /\ pc' = "save" /\ mem'.revState = "AfterMSRUpdate"
        /\ msr'.commit = revision /\ revision \in DOMAIN events /\ AtFront(a, b, revision)
    BY <1>7, UpdateStep DEF PerformMSRUpdate, Tied, PairAtHead
  <2>2. ASSUME Pair(a, b), ~(revision <= a)
        PROVE  First(a)
    <3>1. a \in DOMAIN events /\ a < revision
      BY <1>1, <2>2 DEF Pair
    <3>2. revision = b
      BY <2>1, <3>1 DEF AtFront
    <3>3. ASSUME NEW r \in DOMAIN events
          PROVE  a <= r
      BY <1>1, <2>1, <3>2, <3>3 DEF AtFront
    <3>. QED
      BY <3>1, <3>3 DEF First
  <2>. QED
    BY <2>1, <2>2 DEF PairPending, Pair, First
<1>8. CASE LockTimeout \/ StartNewRevision \/ ResetAction \/ NoNewCommits
  <2>1. pc = "idle" /\ pc' = "idle" /\ UNCHANGED <<events, msr>> /\ status'.revState = status.revState
    BY <1>1, <1>8
       DEF LockTimeout, StartNewRevision, ResetAction, WriteStatus, NoNewCommits, vars, worker, requests,
           MRTStatus
  <2>. QED
    BY <1>2, <2>1, PairKept
<1>9. CASE AcquireLock
  <2>1. /\ pc = "idle" /\ UNCHANGED <<events, msr>>
        /\ status'.revState = status.revState /\ mem'.revState = status.revState
    BY <1>1, <1>9 DEF AcquireLock, requests, MRTStatus
  <2>. QED
    BY <1>2, <2>1, PairKept
<1>10. CASE QueueIsEmpty \/ DispatchRevision \/ ReadMCA \/ SkipMSRUpdate \/ Finish
  <2>1. pc \notin {"idle", "save"} /\ UNCHANGED <<events, msr, status>> /\ mem'.revState = mem.revState
    BY <1>1, <1>10
       DEF QueueIsEmpty, DispatchRevision, ReadMCA, SkipMSRUpdate, Finish, ToRelease, Continue,
           requests, MRTStatus
  <2>. QED
    BY <1>2, <2>1, PairKept
<1>11. CASE DispatchAbort
  <2>1. /\ pc = "dispatch" /\ UNCHANGED <<events, msr, status>>
        /\ mem.revState = "Abort" /\ mem'.revState = "Empty"
    BY <1>1, <1>11 DEF DispatchAbort, ToRelease, Continue, requests, MRTStatus
  <2>. QED
    BY <1>2, <2>1 DEF PairPending, Pair, First, NoneBehind
<1>12. CASE HeadIsDeleted \/ ReleaseLock
  <2>1. /\ pc \in {"dispatch", "release"} /\ pc' = "idle" /\ UNCHANGED <<events, msr>>
        /\ status' \in {status, mem}
    BY <1>12 DEF HeadIsDeleted, ReleaseLock, Return, requests
  <2>. QED
    BY <1>2, <2>1, PairKept
<1>13. CASE SaveRevisionState
  <2>1. UNCHANGED <<events, msr>> /\ status' = mem /\ pc = "save"
    BY <1>2, <1>13 DEF SaveRevisionState, requests
  <2>2. mem'.revState = mem.revState
    BY <1>1, <1>13, Released DEF SaveRevisionState, ActionStates
  <2>. QED
    BY <1>2, <2>1, <2>2, PairKept
<1>14. CASE SyncQueue \/ Environment
  <2>1. UNCHANGED <<events, msr, mem, status, pc>>
    BY <1>3, <1>14
       DEF SyncQueue, Environment, DeveloperCommits, PublishMSR, ApproveMSR, worker, requests
  <2>. QED
    BY <1>2, <2>1, PairKept
<1>. QED
  BY <1>3, <1>4, <1>5, <1>6, <1>7, <1>8, <1>9, <1>10, <1>11, <1>12, <1>13, <1>14 DEF Next, Reconcile

\* Whoever proposes has passed Preflight: no proposal is older than the one before.
LEMMA TiedStep ==
    ASSUME Types, Bounded, InHand, NEW a \in Nat, NEW b \in Nat, Tied(a, b), Next,
           mishaps' = mishaps, CheckForNewCommits => CreateNewRevisionEvent(NewSecond)
    PROVE  Tied(a, b)' /\ (PerformMSRUpdate => msr.commit <= revision)
<1>1. PerformMSRUpdate => msr.commit <= revision
  BY DEF PerformMSRUpdate, InHand, Tied, PairAtHead, PairCalm, PairPending, NoneBehind
<1>. QED
  BY <1>1, PairOrderStep, PairHeadStep, PairCalmStep DEF Tied

-----------------------------------------------------------------------------
(***************************************************************************)
(* The invariant                                                           *)
(***************************************************************************)

\* The invariant holds at first.
LEMMA InvInit == Init => IInv
<1>. SUFFICES ASSUME Init PROVE IInv
  OBVIOUS
<1>1. /\ pc = "idle" /\ events = <<>> /\ queue = <<>> /\ mem.revState = "Empty"
      /\ DOMAIN events = {} /\ mca = 1 /\ msr.commit = 1 /\ approved = {1} /\ mishaps = 0
  BY NewStatusType DEF Init
<1>2. status.revState = "Empty"
  BY NewStatusType DEF Init, NewStatus
<1>3. InHand
  BY <1>1 DEF InHand
<1>4. Ordered
  BY <1>1 DEF Ordered, SecondsIncrease, HeadIsFirst, NoneBehind
<1>5. Approvals
  BY <1>1 DEF Approvals
<1>6. Undisturbed
  BY <1>1, <1>2 DEF Undisturbed, Pending
<1>7. OneMishap
  BY <1>1 DEF OneMishap
<1>. QED
  BY <1>3, <1>4, <1>5, <1>6, <1>7, TypesInit DEF IInv, InOrder

\* Whatever the single mishap was.
LEMMA OneMishapStep ==
    ASSUME IInv, Next
    PROVE  OneMishap'
<1>. SUFFICES ASSUME mishaps' = 1, MaxMishaps = 1
              PROVE  (Approvals /\ (Ordered \/ \E a, b \in Nat : Tied(a, b)))'
  BY DEF OneMishap
<1>1. mishaps \in Nat /\ (mishaps = 0 \/ mishaps = 1)
  BY CalmBefore DEF IInv, Types
<1>2. ASSUME Ordered, Approvals
      PROVE  (Approvals /\ (Ordered \/ \E a, b \in Nat : Tied(a, b)))'
  <2>1. CASE CheckForNewCommits => CreateNewRevisionEvent(NewSecond)
    BY <1>2, <2>1, OrderedStep, ApprovalsStep DEF IInv
  <2>2. CASE CheckForNewCommits /\ ~CreateNewRevisionEvent(NewSecond)
    <3>1. \E a, b \in Nat : Tied(a, b)'
      BY <1>2, <2>2, NewPair DEF IInv
    <3>2. PerformMSRUpdate => msr.commit <= revision
      BY <2>2 DEF CheckForNewCommits, PerformMSRUpdate
    <3>. QED
      BY <1>2, <3>1, <3>2, ApprovalsStep DEF IInv
  <2>. QED
    BY <2>1, <2>2
<1>3. ASSUME mishaps = 1, Approvals, NEW a \in Nat, NEW b \in Nat, Tied(a, b)
      PROVE  (Approvals /\ (Ordered \/ \E x, y \in Nat : Tied(x, y)))'
  <2>1. CheckForNewCommits => CreateNewRevisionEvent(NewSecond)
    BY <1>3, NewEvent DEF IInv, Mishap
  <2>2. Tied(a, b)' /\ (PerformMSRUpdate => msr.commit <= revision)
    BY <1>3, <2>1, TiedStep DEF IInv
  <2>. QED
    BY <1>3, <2>2, ApprovalsStep DEF IInv
<1>4. CASE mishaps = 0
  BY <1>2, <1>4 DEF IInv, InOrder, Distinct
<1>5. CASE mishaps = 1
  BY <1>2, <1>3, <1>5 DEF IInv, OneMishap
<1>. QED
  BY <1>1, <1>4, <1>5

\* Every step keeps the invariant.
LEMMA InvStep == IInv /\ [Next]_vars => IInv'
<1>1. ASSUME IInv, Next
      PROVE  IInv'
  <2>1. Types' /\ Bounded'
    BY <1>1, TypesReconcile, TypesRest DEF IInv, Next
  <2>2. InHand'
    BY <1>1, InHandStep DEF IInv
  <2>3. ASSUME Distinct'
        PROVE  Ordered /\ (Ordered /\ Approvals)'
    <3>1. Distinct /\ (CheckForNewCommits => CreateNewRevisionEvent(NewSecond))
      BY <1>1, <2>3, DistinctBefore DEF IInv
    <3>2. Ordered /\ Approvals
      BY <1>1, <3>1 DEF IInv, InOrder
    <3>. QED
      BY <1>1, <3>1, <3>2, OrderedStep, ApprovalsStep DEF IInv
  <2>4. InOrder'
    BY <2>3 DEF InOrder
  <2>5. ASSUME mishaps' = 0
        PROVE  /\ pc' # "idle" => fresh'
               /\ Pending(mem)' /\ (pc' # "save" => Pending(status)')
    <3>1. mishaps' = mishaps /\ HeadIsFirst
      BY <1>1, <2>3, <2>5, CalmBefore DEF IInv, Distinct, Ordered
    <3>. QED
      BY <1>1, <2>5, <3>1, FreshStep, PendingStep DEF IInv, Undisturbed
  <2>6. Undisturbed'
    BY <2>5 DEF Undisturbed
  <2>. QED
    BY <1>1, <2>1, <2>2, <2>4, <2>6, OneMishapStep DEF IInv
<1>2. ASSUME IInv, UNCHANGED vars
      PROVE  IInv'
  <2>. USE <1>2 DEF vars, worker, requests
  <2>1. (Types /\ Bounded /\ InHand)'
    BY DEF IInv, Types, Revisions, Bounded, Latest, InHand
  <2>2. (InOrder /\ Undisturbed)'
    BY DEF IInv, InOrder, Distinct, Ordered, SecondsIncrease, HeadIsFirst, First, NoneBehind, Approvals,
           Undisturbed, Pending
  <2>3. OneMishap'
    BY DEF IInv, OneMishap, Approvals, Ordered, SecondsIncrease, HeadIsFirst, First, NoneBehind, Tied,
           PairInOrder, PairAtHead, PairCalm, PairPending, Pair, AtFront
  <2>. QED
    BY <2>1, <2>2, <2>3 DEF IInv
<1>. QED
  BY <1>1, <1>2

\* In every reachable state.
THEOREM InvariantHolds == Spec => []IInv
  BY InvInit, InvStep, PTL DEF Spec

-----------------------------------------------------------------------------
(***************************************************************************)
(* What follows                                                            *)
(***************************************************************************)

\* Every variable has its type: whatever is queued, proposed or approved is a commit
\* of the branch.
THEOREM TypeCorrect == Spec => []TypeOK
<1>1. IInv => TypeOK
  <2>. SUFFICES ASSUME Types PROVE TypeOK
    BY DEF IInv
  <2>1. log # <<>>
    BY DEF Types
  <2>. QED
    BY <2>1 DEF Types, TypeOK, PCs, Requests, Contents
<1>. QED
  BY <1>1, InvariantHolds, PTL

\* Unless a mishap came in between, Finish takes off the queue the revision that
\* UpdateMSR proposed.
THEOREM FinishesCorrect == Spec => []FinishesWhatItProposed
<1>1. IInv => FinishesWhatItProposed
  <2>. SUFFICES ASSUME IInv, mishaps = 0, pc = "finish"
                PROVE  revision = msr.commit /\ revision = Head(queue)
    BY DEF FinishesWhatItProposed
  <2>1. First(revision) /\ Head(queue) = revision
    BY DEF IInv, InOrder, Distinct, Ordered, HeadIsFirst
  <2>2. First(msr.commit)
    BY DEF IInv, Undisturbed, Pending, InHand
  <2>3. \A r \in DOMAIN events : r \in Nat
    BY DEF IInv, Types, Revisions
  <2>. QED
    BY <2>1, <2>2, <2>3 DEF First
<1>. QED
  BY <1>1, InvariantHolds, PTL

\* Proposals and approvals where seconds tell events apart, or at most one mishap
\* happens, a pair of one second included.
LEMMA ApprovalsFollow ==
    ASSUME ~SameSecond \/ MaxMishaps <= 1, IInv
    PROVE  Approvals /\ (PerformMSRUpdate => msr.commit <= revision)
<1>1. mishaps \in Nat /\ mishaps <= MaxMishaps /\ MaxMishaps \in Nat
  BY BoundAssumption DEF IInv, Types
<1>2. CASE Distinct
  BY <1>2 DEF IInv, InOrder, Ordered, HeadIsFirst, NoneBehind, PerformMSRUpdate, First
<1>3. CASE ~Distinct
  <2>1. mishaps = 1 /\ MaxMishaps = 1
    BY <1>1, <1>3 DEF Distinct
  <2>2. CASE Ordered
    BY <2>1, <2>2 DEF IInv, OneMishap, Ordered, HeadIsFirst, NoneBehind, PerformMSRUpdate, First
  <2>3. ASSUME NEW a \in Nat, NEW b \in Nat, Tied(a, b)
        PROVE  PerformMSRUpdate => msr.commit <= revision
    BY <2>3 DEF IInv, PerformMSRUpdate, InHand, Tied, PairAtHead, PairCalm, PairPending, NoneBehind
  <2>. QED
    BY <2>1, <2>2, <2>3 DEF IInv, OneMishap
<1>. QED
  BY <1>2, <1>3

\* Proposals never go back along the branch, and repeat a commit only after a
\* mishap: with any number of crashes, failed calls and edits of the MRT if events
\* are told apart by their second, and else with one mishap of any kind.
THEOREM AdvanceCorrect ==
    ASSUME ~SameSecond \/ MaxMishaps <= 1
    PROVE  Spec => ProposalsAdvance
<1>1. ASSUME IInv, Next, msr'.version > msr.version
      PROVE  /\ msr'.commit >= msr.commit
             /\ mishaps = 0 => msr'.commit > msr.commit
  <2>1. CASE PerformMSRUpdate
    <3>1. msr.commit \in Nat /\ revision \in Nat /\ msr.commit <= revision /\ msr'.commit = revision
      BY <1>1, <2>1, ApprovalsFollow, UpdateStep DEF IInv, Types, Requests, Revisions
    <3>2. ASSUME mishaps = 0
          PROVE  msr.commit < revision
      <4>1. mem.revState = "UpdateMSRSpec" /\ Pending(mem)
        BY <1>1, <2>1, <3>2 DEF IInv, Undisturbed, InHand, PerformMSRUpdate
      <4>2. First(revision)
        BY <1>1, <2>1, <3>2 DEF IInv, InOrder, Distinct, Ordered, HeadIsFirst, PerformMSRUpdate
      <4>. QED
        BY <4>1, <4>2 DEF Pending, First
    <3>. QED
      BY <3>1, <3>2
  <2>2. CASE ~PerformMSRUpdate
    <3>1. msr' = msr
      BY <1>1, <2>2, SubStates, TakenEvent DEF IInv, PreflightCheck, RemoveQueueHead, requests
    <3>. QED
      BY <1>1, <3>1 DEF IInv, Types, Requests
  <2>. QED
    BY <2>1, <2>2
<1>2. IInv /\ [Next]_vars =>
          [msr'.version > msr.version =>
              /\ msr'.commit >= msr.commit
              /\ mishaps = 0 => msr'.commit > msr.commit]_msr
  BY <1>1 DEF vars, requests
<1>. QED
  BY <1>2, InvariantHolds, PTL DEF Spec, ProposalsAdvance

\* There a governor approves what changed since an approved commit, with at most one
\* approval after it.
THEOREM ListsCorrect ==
    ASSUME ~SameSecond \/ MaxMishaps <= 1
    PROVE  Spec => ListsChangesSinceApproval
<1>1. ASSUME IInv, Next, mca' # mca
      PROVE  /\ msr.previous \in approved
             /\ Cardinality({r \in approved : r > msr.previous}) <= 1
  <2>1. ApproveMSR
    BY <1>1
       DEF Next, Reconcile, LockTimeout, StartNewRevision, ResetAction, WriteStatus, NoNewCommits, vars,
           CheckForNewCommits, RemoveQueueHead, requests,
           AcquireLock, QueueIsEmpty, HeadIsDeleted, DispatchRevision, DispatchAbort, PreflightCheck,
           ReadMCA, SkipMSRUpdate, PerformMSRUpdate, Finish, SaveRevisionState, ReleaseLock, SyncQueue,
           CallFails, Crash, Environment, DeveloperCommits, EditMRT, PublishMSR
  <2>2. Approvals /\ mca # msr.commit
    BY <1>1, <2>1, ApprovalsFollow DEF ApproveMSR
  <2>. DEFINE later == {r \in approved : r > msr.previous}
  <2>3. later \subseteq {mca}
    BY <2>2 DEF Approvals
  <2>4. Cardinality({mca}) = 1 /\ IsFiniteSet({mca})
    BY FS_Singleton
  <2>5. Cardinality(later) <= 1
    <3>. HIDE DEF later
    <3>. QED
      BY <2>3, <2>4, FS_Subset
  <2>. QED
    BY <2>2, <2>5 DEF Approvals
<1>2. IInv /\ [Next]_vars =>
          [mca' # mca =>
              /\ msr.previous \in approved
              /\ Cardinality({r \in approved : r > msr.previous}) <= 1]_mca
  BY <1>1 DEF vars, requests
<1>. QED
  BY <1>2, InvariantHolds, PTL DEF Spec, ListsChangesSinceApproval
=============================================================================
