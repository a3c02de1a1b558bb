----------------------- MODULE TemplateLifecycleProofs -----------------------
(***************************************************************************)
(* What TemplateLifecycle guarantees for any number of approvals, MRTs,    *)
(* restarts and failed calls: proofs checked by TLAPS.                     *)
(***************************************************************************)
EXTENDS TemplateLifecycle, FiniteSetTheorems, TLAPS

-----------------------------------------------------------------------------
(***************************************************************************)
(* The inductive invariant                                                 *)
(***************************************************************************)

Stages == {"push", "application", "finalizer", "ready"}
Creating == {"msr", "mca", "queue", "saveRef"}
PCs == Initialising \union Creating \union
       {"idle", "release", "fail", "restore", "empty", "unfinalize"}

MRTs == [gen : Nat, action : Initialising, progressing : BOOLEAN, finalizer : BOOLEAN,
         deleting : BOOLEAN, init : Revisions \union {NoApp}, queueRef : BOOLEAN]
Children == [gen : Nat, stage : Stages, version : Nat, finalizer : BOOLEAN,
             deleting : BOOLEAN]
Calls == [call : {"idle", "push", "application"}, object : Children,
          seen : Revisions \union {NoApp}]

Types ==
    /\ mrt \in MRTs
    /\ pc \in PCs
    /\ mine \in Nat /\ fresh \in BOOLEAN
    /\ seen \in Revisions \union {NoApp}
    /\ children \in [Kinds -> Children]
    /\ busy \in [Kinds -> Calls]
    /\ queue \in 0 .. templates
    /\ app \in Revisions \union {NoApp}
    /\ folder \subseteq (Kinds \X (1 .. templates)) \union FoundFiles
    /\ templates \in Nat /\ turns \in 0 .. MaxTurns
    /\ smooth \in BOOLEAN

\* Who exists is one of the templates so far, and versions are approvals so far.
Numbers ==
    /\ templates <= turns + 1
    /\ mrt.gen <= templates /\ mine <= templates
    /\ \A k \in Kinds :
           /\ children[k].gen <= templates /\ children[k].version <= turns
           /\ busy[k].object.gen <= templates /\ busy[k].object.version <= turns

\* What does not exist is nothing, and what is in hand exists or has existed.
Existence ==
    /\ ~Exists(mrt) => ~mrt.finalizer /\ mrt.init = NoApp
    /\ mrt.deleting => mrt.finalizer
    /\ fresh => pc # "idle" /\ mine = mrt.gen
    /\ fresh /\ pc \in Initialising => mrt.action = pc
    /\ fresh /\ pc \in Creating => mrt.action = "CreateResources"
    /\ pc # "idle" => mine # 0
    /\ \A k \in Kinds :
           /\ ~Exists(children[k]) => children[k] = NoChild
           /\ busy[k].call = "idle" => busy[k] = Idle
           /\ busy[k].call # "idle" => Exists(busy[k].object)

\* Nothing is created beside files that the check of the folder can read.
Foreign == AlienFile \in folder =>
    /\ folder \subseteq FoundFiles
    /\ ~mrt.finalizer /\ mrt.action \notin {"CreateResources", "SetFinalizer"}
    /\ pc \in {"idle", "SaveRevision", "CheckFolder", "release", "fail"}
    /\ pc = "release" /\ fresh => mrt.action # "CheckFolder"
    /\ \A k \in Kinds : ~Exists(children[k]) /\ busy[k] = Idle

Clean == app \in {Initial, NoApp} /\ folder \subseteq FoundFiles
Settled == \A k \in Kinds : children[k].stage = "ready" /\ busy[k] = Idle
Own(k) == children[k].gen = mrt.gen /\ ~children[k].deleting
OwnFolder == folder \subseteq (Kinds \X {mrt.gen}) \union {AlienText}

\* Without an MRT.
Gone == ~Exists(mrt) => pc = "idle" /\ Clean /\ Settled

\* Up to the check of the folder nothing has been created.
Beginning ==
    Exists(mrt) /\ ~mrt.finalizer /\ mrt.action \in {"Empty", "SaveRevision", "CheckFolder"} =>
        /\ Clean
        /\ queue = 0
        /\ \A k \in Kinds : ~Exists(children[k]) /\ busy[k] = Idle
        /\ pc \in {"idle", "SaveRevision", "CheckFolder", "release", "fail"}
        /\ pc \in {"SaveRevision", "CheckFolder"} => mrt.action = pc
        /\ pc = "release" /\ mrt.action = "CheckFolder" => AlienFile \notin folder

\* While resources are created, those the worker has passed exist.
Creation ==
    Exists(mrt) /\ ~mrt.finalizer /\ mrt.action = "CreateResources" =>
        /\ OwnFolder
        /\ pc \in Creating \union {"idle", "release", "fail"}
        /\ \A k \in Kinds : Exists(children[k]) => Own(k)
        /\ queue \in {0, mrt.gen}
        /\ pc \in {"mca", "queue", "saveRef", "release"} => Own("msr")
        /\ pc \in {"queue", "saveRef", "release"} => Own("mca")
        /\ pc \in {"saveRef", "release"} => queue = mrt.gen
        /\ pc = "release" => mrt.queueRef

Created ==
    Exists(mrt) /\ (mrt.finalizer \/ mrt.action = "SetFinalizer") =>
        /\ OwnFolder
        /\ mrt.queueRef /\ queue = mrt.gen
        /\ \A k \in Kinds : Own(k)
        /\ ~mrt.finalizer => pc \in {"idle", "SetFinalizer", "fail"}
        /\ mrt.finalizer /\ ~mrt.deleting => pc \in {"idle", "release"}

\* Deletion finds everything at rest, and nobody else sets the Application.
Deletion ==
    mrt.deleting =>
        /\ Settled
        /\ pc \in {"idle", "restore", "empty", "unfinalize"}
        /\ pc = "restore" => app \in {seen, NoApp}
        /\ pc \in {"empty", "unfinalize"} => app \in {Initial, NoApp}
        /\ pc = "unfinalize" => folder = {}

\* As long as creations, deletions and approvals come one after the other.
Ordered ==
    /\ pc # "idle" => fresh
    /\ mrt.init \in {NoApp, Initial}
    /\ \A k \in Kinds : busy[k].call # "idle" =>
           Exists(mrt) /\ Exists(children[k]) /\ busy[k].object.gen = mrt.gen
    /\ Gone /\ Beginning /\ Creation /\ Created /\ Deletion

Smooth == smooth => Ordered

IInv == Types /\ Numbers /\ Existence /\ Foreign /\ Smooth

-----------------------------------------------------------------------------
(***************************************************************************)
(* Types                                                                   *)
(***************************************************************************)

\* Every number a revision may be is one.
LEMMA RevisionNumbers ==
    /\ MaxTurns \in Nat
    /\ Revisions \subseteq Nat
    /\ Initial \in Revisions /\ NoApp \notin Revisions
    /\ \A n \in 0 .. MaxTurns : 2 + n \in Revisions
  BY BoundAssumption DEF Revisions, Initial, NoApp

\* The records of what does not exist, and of what has just been created.
LEMMA NullRecords ==
    /\ NoMRT \in MRTs /\ NoChild \in Children /\ Idle \in Calls
    /\ \A g \in Nat : NewMRT(g) \in MRTs /\ NewMRT(g) = [NoMRT EXCEPT !.gen = g]
    /\ \A g \in Nat : NewChild(g) \in Children
  BY RevisionNumbers DEF NoMRT, NoChild, Idle, MRTs, Children, Calls, NewMRT, NewChild,
     Initialising, Stages, NoApp

\* A write of the MRT's own fields keeps its type.
LEMMA MRTWrites ==
    ASSUME NEW m \in MRTs
    PROVE  /\ \A b \in BOOLEAN : /\ [m EXCEPT !.progressing = b] \in MRTs
                                 /\ [m EXCEPT !.finalizer = b] \in MRTs
                                 /\ [m EXCEPT !.deleting = b] \in MRTs
                                 /\ [m EXCEPT !.queueRef = b] \in MRTs
           /\ \A r \in Revisions : [m EXCEPT !.init = r] \in MRTs
           /\ \A a \in Initialising, b \in BOOLEAN :
                  [m EXCEPT !.action = a, !.progressing = b] \in MRTs
           /\ Following(m.action) \in Initialising
  BY DEF MRTs, Following, Initialising

\* So does a write of a child's fields.
LEMMA ChildWrites ==
    ASSUME NEW c \in [Kinds -> Children], NEW k \in Kinds
    PROVE  /\ \A o \in Children : [c EXCEPT ![k] = o] \in [Kinds -> Children]
           /\ \A s \in Stages : [c EXCEPT ![k].stage = s] \in [Kinds -> Children]
           /\ \A s \in Stages, b \in BOOLEAN :
                  [c EXCEPT ![k].finalizer = b, ![k].stage = s] \in [Kinds -> Children]
           /\ \A s \in Stages : [c EXCEPT ![k].version = @ + 1, ![k].stage = s]
                                    \in [Kinds -> Children]
           /\ [c[k] EXCEPT !.deleting = TRUE] \in Children
           /\ After(k, c[k]) \in Stages
<1>1. c[k] \in Children
  OBVIOUS
<1>2. /\ [c[k] EXCEPT !.deleting = TRUE] \in Children
      /\ \A s \in Stages : [c[k] EXCEPT !.stage = s] \in Children
      /\ \A s \in Stages, b \in BOOLEAN : [c[k] EXCEPT !.finalizer = b, !.stage = s] \in Children
      /\ \A s \in Stages, n \in Nat : [c[k] EXCEPT !.version = n, !.stage = s] \in Children
  BY <1>1 DEF Children
<1>3. After(k, c[k]) \in Stages
  BY DEF After, Stages
<1>4. \A o \in Children : [c EXCEPT ![k] = o] \in [Kinds -> Children]
  OBVIOUS
<1>5. \A s \in Stages : [c EXCEPT ![k].stage = s] \in [Kinds -> Children]
  BY <1>2, <1>4
<1>6. \A s \in Stages, b \in BOOLEAN :
          [c EXCEPT ![k].finalizer = b, ![k].stage = s] \in [Kinds -> Children]
  BY <1>2, <1>4
<1>7. \A s \in Stages : [c EXCEPT ![k].version = @ + 1, ![k].stage = s] \in [Kinds -> Children]
  <2>1. c[k].version + 1 \in Nat
    BY <1>1 DEF Children
  <2>. QED
    BY <1>2, <1>4, <2>1
<1>. QED
  BY <1>2, <1>3, <1>4, <1>5, <1>6, <1>7

LEMMA TypesInit == Init => Types
<1>. SUFFICES ASSUME Init PROVE Types
  OBVIOUS
<1>1. busy \in [Kinds -> Calls] /\ children \in [Kinds -> Children] /\ mrt \in MRTs
  BY NullRecords DEF Init, Idle
<1>2. queue \in 0 .. templates /\ turns \in 0 .. MaxTurns
  BY RevisionNumbers DEF Init
<1>3. folder \subseteq (Kinds \X (1 .. templates)) \union FoundFiles
  BY DEF Init
<1>. QED
  BY <1>1, <1>2, <1>3, RevisionNumbers DEF Init, Types, PCs, NoApp

\* A step of the MRT's worker keeps every type.
LEMMA TypesTemplate ==
    ASSUME Types, Numbers, ReconcileTemplate
    PROVE  Types'
<1>. USE DEF Types, PCs, Initialising, Creating, worker, owned, outside, past
<1>1. CASE LockTimeout
  BY <1>1, MRTWrites DEF LockTimeout
<1>2. CASE AcquireLock
  <2>. DEFINE state == IF mrt.action = "Empty" THEN Following("Empty") ELSE mrt.action
  <2>1. state \in Initialising /\ mrt.gen \in Nat
    BY DEF MRTs, Following
  <2>2. mrt' = [mrt EXCEPT !.action = state, !.progressing = TRUE] /\ mine' = mrt.gen /\ fresh'
    BY <1>2 DEF AcquireLock
  <2>3. mrt' \in MRTs
    BY <2>1, <2>2, MRTWrites
  <2>4. pc' \in {"msr", state}
    BY <1>2 DEF AcquireLock
  <2>. QED
    BY <1>2, <2>1, <2>2, <2>3, <2>4 DEF AcquireLock
<1>3. CASE SaveArgoCDTargetRevision
  BY <1>3, MRTWrites DEF SaveArgoCDTargetRevision, Write, HandlerFails, NoApp
<1>4. CASE CheckGovernancePathEmpty
  BY <1>4 DEF CheckGovernancePathEmpty, HandlerFails
<1>5. CASE ApplicationNotFound
  BY <1>5 DEF ApplicationNotFound, HandlerFails
<1>6. ASSUME NEW k \in Kinds, NEW next \in {"mca", "queue"}, CreateChild(k, next)
      PROVE  Types'
  BY <1>6, NullRecords, ChildWrites DEF CreateChild
<1>7. CASE CreateQueue
  BY <1>7 DEF CreateQueue, Numbers
<1>8. CASE SaveQueueRef
  BY <1>8, MRTWrites DEF SaveQueueRef, Write, HandlerFails
<1>9. CASE Finalizing
  BY <1>9, MRTWrites DEF Finalizing, Write, HandlerFails
<1>10. CASE ReleaseLock
  <2>1. Following(mrt.action) \in Initialising /\ mrt.action \in Initialising
    <3>1. mrt \in MRTs
      OBVIOUS
    <3>. HIDE DEF Types, PCs, Initialising
    <3>2. mrt.action \in Initialising
      BY <3>1 DEF MRTs
    <3>. QED
      BY <3>1, <3>2, MRTWrites
  <2>2. mrt' \in MRTs
    BY <1>10, <2>1, MRTWrites DEF ReleaseLock
  <2>. QED
    BY <1>10, <2>2 DEF ReleaseLock, Return, NoApp
<1>11. CASE StartDelete
  BY <1>11 DEF StartDelete, MRTs
<1>12. CASE RestoreArgoCD
  <2>1. app' \in Revisions \union {NoApp}
    BY <1>12 DEF RestoreArgoCD, MRTs
  <2>2. CASE pc' = "empty" /\ UNCHANGED <<mine, fresh, seen, mrt, owned, folder, past>>
    BY <2>1, <2>2
  <2>3. CASE Return /\ UNCHANGED <<mrt, owned, folder, past>>
    BY <2>1, <2>3 DEF Return, NoApp
  <2>. QED
    BY <1>12, <2>2, <2>3 DEF RestoreArgoCD
<1>13. CASE RemoveGovernanceFolder
  BY <1>13 DEF RemoveGovernanceFolder
<1>14. CASE RemoveFinalizer
  BY <1>14, NullRecords DEF RemoveFinalizer, Return, NoApp
<1>. QED
  BY <1>1, <1>2, <1>3, <1>4, <1>5, <1>6, <1>7, <1>8, <1>9, <1>10, <1>11, <1>12, <1>13, <1>14
     DEF ReconcileTemplate, CreateClusterResources, Kinds

\* What a child's worker may have in hand.
LEMMA CallRecords ==
    ASSUME NEW c \in {"push", "application"}, NEW o \in Children,
           NEW r \in Revisions \union {NoApp}
    PROVE  [call |-> c, object |-> o, seen |-> r] \in Calls
  BY DEF Calls

\* The end of a child's call writes its next stage, or nothing.
LEMMA EndOfCall ==
    ASSUME Types, NEW k \in Kinds, EndCall(k)
    PROVE  /\ busy' = [busy EXCEPT ![k] = Idle] /\ busy' \in [Kinds -> Calls]
           /\ \/ UNCHANGED children
              \/ children' = [children EXCEPT ![k].stage = After(k, children[k])]
           /\ children' \in [Kinds -> Children]
           /\ UNCHANGED <<mrt, worker, queue, smooth, templates>>
           /\ turns' \in 0 .. MaxTurns /\ turns' \in {turns, turns + 1}
<1>1. busy' = [busy EXCEPT ![k] = Idle] /\ busy' \in [Kinds -> Calls]
  BY NullRecords DEF EndCall, Types
<1>2. \/ UNCHANGED children
      \/ children' = [children EXCEPT ![k].stage = After(k, children[k])]
  BY DEF EndCall
<1>3. children' \in [Kinds -> Children]
  <2>1. children \in [Kinds -> Children]
    BY DEF Types
  <2>2. After(k, children[k]) \in Stages
    BY <2>1, ChildWrites
  <2>3. [children EXCEPT ![k].stage = After(k, children[k])] \in [Kinds -> Children]
    BY <2>1, <2>2, ChildWrites
  <2>. QED
    BY <1>2, <2>1, <2>3
<1>4. turns' \in 0 .. MaxTurns /\ turns' \in {turns, turns + 1} /\ templates' = templates
  BY RevisionNumbers DEF EndCall, Mishap, Turn, Types
<1>. QED
  BY <1>1, <1>2, <1>3, <1>4 DEF EndCall

\* A step of a child's worker keeps every type.
LEMMA TypesChild ==
    ASSUME Types, Numbers, Existence, NEW k \in Kinds, ReconcileChild(k)
    PROVE  Types'
<1>. USE DEF Types, worker, owned, outside, past
<1>1. ASSUME NEW call \in {"push", "application"}, NEW read \in Revisions \union {NoApp},
             NEW j \in Kinds, StartCall(j, call, read)
      PROVE  Types'
  <2>1. busy' \in [Kinds -> Calls]
    BY <1>1, CallRecords DEF StartCall
  <2>. QED
    BY <1>1, <2>1 DEF StartCall
<1>2. CASE Push(k)
  <2>1. <<k, busy[k].object.gen>> \in Kinds \X (1 .. templates)
    BY <1>2 DEF Push, Numbers, Existence, Exists, Calls, Children
  <2>. QED
    BY <1>2, <2>1, EndOfCall DEF Push
<1>3. CASE SetChildFinalizer(k)
  BY <1>3, ChildWrites DEF SetChildFinalizer, Stages
<1>4. CASE RemoveChildFinalizer(k)
  BY <1>4, ChildWrites, NullRecords DEF RemoveChildFinalizer
<1>5. CASE k = "mca" /\ UpdateArgoCD
  <2>1. Approved(busy["mca"].object) \in Revisions
    BY RevisionNumbers DEF Approved, Numbers, Calls, Children, Kinds
  <2>2. app' \in Revisions \union {NoApp}
    BY <1>5, <2>1 DEF UpdateArgoCD
  <2>. QED
    BY <1>5, <2>2, EndOfCall DEF UpdateArgoCD
<1>. QED
  BY <1>1, <1>2, <1>3, <1>4, <1>5 DEF ReconcileChild, StartPush, StartUpdateArgoCD, Kinds

\* So does the garbage collector.
LEMMA TypesGarbage ==
    ASSUME Types, CollectGarbage
    PROVE  Types'
<1>1. children' \in [Kinds -> Children]
  <2>1. ASSUME NEW k \in Kinds,
               children' = [children EXCEPT ![k] =
                               IF @.finalizer THEN [@ EXCEPT !.deleting = TRUE] ELSE NoChild]
        PROVE  children' \in [Kinds -> Children]
    BY <2>1, ChildWrites, NullRecords DEF Types
  <2>. QED
    BY <2>1 DEF CollectGarbage, Types
<1>2. queue' \in 0 .. templates
  BY DEF CollectGarbage, Types
<1>. QED
  BY <1>1, <1>2 DEF CollectGarbage, Types, worker, outside, past

\* And everything that comes from outside.
LEMMA TypesEnvironment ==
    ASSUME Types, Numbers, Environment
    PROVE  Types'
<1>. USE DEF Types, worker, owned, outside, past
<1>1. CASE CreateTemplate
  <2>1. templates' = templates + 1 /\ turns' \in 0 .. MaxTurns
    BY <1>1, RevisionNumbers DEF CreateTemplate, Turn
  <2>2. mrt' \in MRTs
    BY <1>1, <2>1, NullRecords DEF CreateTemplate
  <2>3. folder' \subseteq (Kinds \X (1 .. templates')) \union FoundFiles
    BY <1>1, <2>1 DEF CreateTemplate
  <2>. QED
    BY <1>1, <2>1, <2>2, <2>3 DEF CreateTemplate
<1>2. CASE DeleteTemplate
  <2>1. mrt' \in MRTs
    BY <1>2, MRTWrites, NullRecords DEF DeleteTemplate
  <2>. QED
    BY <1>2, <2>1 DEF DeleteTemplate
<1>3. CASE Approve
  <2>1. children' \in [Kinds -> Children]
    BY <1>3, ChildWrites DEF Approve, Kinds, Stages
  <2>. QED
    BY <1>3, <2>1, RevisionNumbers DEF Approve, Turn
<1>4. CASE RemoveFolderFails
  <2>1. turns' \in 0 .. MaxTurns /\ templates' = templates
    BY <1>4, RevisionNumbers DEF RemoveFolderFails, Mishap, Turn
  <2>2. pc' \in PCs /\ smooth' \in BOOLEAN
    BY <1>4 DEF RemoveFolderFails, PCs
  <2>. QED
    BY <1>4, <2>1, <2>2 DEF RemoveFolderFails
<1>5. CASE CallFails
  <2>1. turns' \in 0 .. MaxTurns /\ templates' = templates
    BY <1>5, RevisionNumbers DEF CallFails, Mishap, Turn
  <2>2. CASE Return /\ UNCHANGED mrt
    BY <1>5, <2>1, <2>2 DEF CallFails, Return, PCs, NoApp
  <2>3. CASE HandlerFails
    BY <1>5, <2>1, <2>3 DEF CallFails, HandlerFails, PCs
  <2>. QED
    BY <1>5, <2>2, <2>3 DEF CallFails
<1>6. CASE Crash
  <2>1. turns' \in 0 .. MaxTurns /\ templates' = templates
    BY <1>6, RevisionNumbers DEF Crash, Mishap, Turn
  <2>2. busy' \in [Kinds -> Calls]
    BY <1>6, NullRecords DEF Crash
  <2>. QED
    BY <1>6, <2>1, <2>2 DEF Crash, Return, PCs, NoApp
<1>7. CASE DeleteApplication
  BY <1>7, RevisionNumbers DEF DeleteApplication, Mishap, Turn
<1>. QED
  BY <1>1, <1>2, <1>3, <1>4, <1>5, <1>6, <1>7 DEF Environment

-----------------------------------------------------------------------------
(***************************************************************************)
(* Numbers, Existence and Foreign                                          *)
(***************************************************************************)

Plain == Numbers /\ Existence /\ Foreign

\* The fields of the records, spelled out.
LEMMA Fields ==
    /\ Kinds = {"msr", "mca"}
    /\ NoMRT.gen = 0 /\ NoMRT.action = "Empty" /\ ~NoMRT.progressing /\ ~NoMRT.finalizer
    /\ ~NoMRT.deleting /\ NoMRT.init = NoApp /\ ~NoMRT.queueRef
    /\ NoChild.gen = 0 /\ NoChild.stage = "ready" /\ NoChild.version = 0
    /\ ~NoChild.finalizer /\ ~NoChild.deleting
    /\ Idle.call = "idle" /\ Idle.object = NoChild /\ Idle.seen = NoApp
    /\ \A g \in Nat : /\ NewMRT(g).gen = g /\ NewMRT(g).action = "Empty"
                      /\ ~NewMRT(g).finalizer /\ ~NewMRT(g).deleting
                      /\ ~NewMRT(g).progressing /\ ~NewMRT(g).queueRef
                      /\ NewMRT(g).init = NoApp
    /\ \A g \in Nat : /\ NewChild(g).gen = g /\ NewChild(g).stage = "push"
                      /\ NewChild(g).version = 0 /\ ~NewChild(g).deleting
  BY DEF Kinds, NoMRT, NoChild, Idle, NewMRT, NewChild

LEMMA PlainInit == Init => Plain
<1>. SUFFICES ASSUME Init PROVE Plain
  OBVIOUS
<1>1. /\ \A k \in Kinds : children[k] = NoChild /\ busy[k] = Idle
      /\ mrt = NoMRT
  BY DEF Init, Idle
<1>. QED
  BY <1>1, Fields DEF Init, Plain, Numbers, Existence, Foreign, Exists, Creating, Initialising

LEMMA PlainLockTimeout ==
    ASSUME Types, Plain, LockTimeout
    PROVE  Plain'
  BY DEF Types, Plain, Numbers, Existence, Foreign, Exists, LockTimeout, worker, owned, outside, past,
         MRTs

LEMMA PlainAcquireLock ==
    ASSUME Types, Plain, AcquireLock
    PROVE  Plain'
<1>. DEFINE state == IF mrt.action = "Empty" THEN "SaveRevision" ELSE mrt.action
<1>1. /\ mrt' = [mrt EXCEPT !.action = state, !.progressing = TRUE]
      /\ pc' = IF state = "CreateResources" THEN "msr" ELSE state
      /\ mine' = mrt.gen /\ fresh'
      /\ UNCHANGED <<owned, outside, past>>
      /\ mrt.gen # 0 /\ ~mrt.deleting /\ ~mrt.finalizer
  BY DEF AcquireLock, Following, Exists
<1>2. /\ mrt'.gen = mrt.gen /\ mrt'.finalizer = mrt.finalizer /\ mrt'.deleting = mrt.deleting
      /\ mrt'.init = mrt.init /\ mrt'.action = state
      /\ state \in Initialising \ {"Empty"}
  BY <1>1 DEF Types, MRTs, Initialising
<1>. HIDE DEF state
<1>3. Numbers'
  BY <1>1, <1>2 DEF Plain, Numbers, owned, past
<1>4. Existence'
  BY <1>1, <1>2 DEF Plain, Existence, Exists, owned, Creating, Initialising
<1>5. Foreign'
  <2>1. state # "Empty" /\ (mrt.action # "Empty" => state = mrt.action)
        /\ (mrt.action = "Empty" => state = "SaveRevision")
    BY <1>2 DEF state
  <2>. QED
    BY <1>1, <1>2, <2>1 DEF Plain, Foreign, Exists, owned, outside, Initialising
<1>. QED
  BY <1>3, <1>4, <1>5 DEF Plain

LEMMA PlainSaveRevision ==
    ASSUME Types, Plain, SaveArgoCDTargetRevision
    PROVE  Plain'
<1>1. /\ mrt'.gen = mrt.gen /\ mrt'.finalizer = mrt.finalizer /\ mrt'.deleting = mrt.deleting
      /\ mrt'.action = mrt.action /\ (mrt'.init = mrt.init \/ fresh)
      /\ pc' \in {"release", "fail"} /\ pc = "SaveRevision"
      /\ UNCHANGED <<mine, fresh, owned, outside, past>>
  BY DEF Types, MRTs, SaveArgoCDTargetRevision, Write, HandlerFails
<1>2. Numbers'
  BY <1>1 DEF Plain, Numbers, owned, past
<1>3. Existence'
  BY <1>1 DEF Plain, Existence, Exists, owned, Creating, Initialising
<1>4. Foreign'
  BY <1>1 DEF Plain, Existence, Foreign, Exists, owned, outside, Initialising
<1>. QED
  BY <1>2, <1>3, <1>4 DEF Plain

LEMMA PlainCheckFolder ==
    ASSUME Types, Plain, CheckGovernancePathEmpty
    PROVE  Plain'
<1>1. /\ UNCHANGED <<mrt, mine, fresh, owned, outside, past>>
      /\ pc = "CheckFolder" /\ pc' \in {"release", "fail"} /\ (pc' = "release" => AlienFile \notin folder)
  BY DEF CheckGovernancePathEmpty, GovernancePathEmpty, ChangedFiles, AlienFile, AlienText,
     HandlerFails
<1>2. Numbers'
  BY <1>1 DEF Plain, Numbers, owned, past
<1>3. Existence'
  BY <1>1 DEF Plain, Existence, Exists, owned, Creating, Initialising
<1>4. Foreign'
  BY <1>1 DEF Plain, Foreign, Exists, owned, outside
<1>. QED
  BY <1>2, <1>3, <1>4 DEF Plain

LEMMA PlainCreateChild ==
    ASSUME Types, Plain, NEW k \in Kinds, NEW next \in {"mca", "queue"}, CreateChild(k, next)
    PROVE  Plain'
<1>1. /\ UNCHANGED <<mrt, mine, fresh, seen, busy, queue, outside, past>>
      /\ pc = k /\ pc' = next
      /\ \A j \in Kinds : children'[j] = children[j] \/ children'[j] = NewChild(mine)
  BY DEF CreateChild, Types
<1>2. mine \in Nat /\ mine # 0
  BY <1>1 DEF Types, Plain, Existence, Kinds
<1>3. Numbers'
  <2>1. turns \in Nat
    BY RevisionNumbers DEF Types
  <2>. QED
    BY <1>1, <1>2, <2>1, Fields DEF Plain, Numbers, past
<1>4. Existence'
  <2>1. \A j \in Kinds : Exists(NewChild(mine))
    BY <1>2, Fields DEF Exists
  <2>2. \A j \in Kinds : ~Exists(children'[j]) => children'[j] = NoChild
    BY <1>1, <2>1 DEF Plain, Existence
  <2>. QED
    BY <1>1, <1>2, <2>2 DEF Plain, Existence, Kinds, Creating, Initialising
<1>5. Foreign'
  BY <1>1 DEF Plain, Foreign, Kinds, outside
<1>. QED
  BY <1>3, <1>4, <1>5 DEF Plain

LEMMA PlainCreateQueue ==
    ASSUME Types, Plain, CreateQueue
    PROVE  Plain'
  BY DEF Types, Plain, Numbers, Existence, Foreign, Exists, CreateQueue, Creating, Initialising, outside,
         past

\* Writes of the queue's reference and of the finalizer.
LEMMA PlainSaves ==
    ASSUME Types, Plain, SaveQueueRef \/ Finalizing
    PROVE  Plain'
<1>1. /\ mrt'.gen = mrt.gen /\ mrt'.deleting = mrt.deleting /\ mrt'.action = mrt.action
      /\ mrt'.init = mrt.init /\ (mrt'.finalizer = mrt.finalizer \/ (mrt'.finalizer /\ fresh))
      /\ pc' \in {"release", "fail"} /\ pc \in {"saveRef", "SetFinalizer"}
      /\ UNCHANGED <<mine, fresh, owned, outside, past>>
  BY DEF Types, MRTs, SaveQueueRef, Finalizing, Write, HandlerFails
<1>2. Numbers'
  BY <1>1 DEF Plain, Numbers, owned, past
<1>3. Existence'
  BY <1>1 DEF Plain, Existence, Exists, owned, Creating, Initialising
<1>4. Foreign'
  BY <1>1 DEF Plain, Foreign, outside
<1>. QED
  BY <1>2, <1>3, <1>4 DEF Plain

LEMMA PlainApplicationNotFound ==
    ASSUME Types, Plain, ApplicationNotFound
    PROVE  Plain'
  BY DEF Types, Plain, Numbers, Existence, Foreign, Exists, ApplicationNotFound, HandlerFails, Creating,
         Initialising, owned, outside, past

LEMMA PlainReleaseLock ==
    ASSUME Types, Plain, ReleaseLock
    PROVE  Plain'
<1>1. /\ mrt'.gen = mrt.gen /\ mrt'.deleting = mrt.deleting /\ mrt'.init = mrt.init
      /\ mrt'.finalizer = mrt.finalizer
      /\ mrt'.action \in {mrt.action, Following(mrt.action)}
      /\ mrt'.action # mrt.action => fresh /\ pc = "release"
      /\ pc \in {"release", "fail"}
      /\ pc' = "idle" /\ mine' = 0 /\ ~fresh'
      /\ UNCHANGED <<owned, outside, past>>
  BY DEF Types, MRTs, ReleaseLock, Return
<1>2. Numbers'
  BY <1>1 DEF Types, Plain, Numbers, owned, past
<1>3. Existence'
  BY <1>1 DEF Plain, Existence, Exists, owned, Creating, Initialising
<1>4. Foreign'
  <2>1. mrt.action \in Initialising
    BY DEF Types, MRTs
  <2>2. mrt.action \notin {"CheckFolder", "CreateResources"}
        => Following(mrt.action) \notin {"CreateResources", "SetFinalizer"}
    BY <2>1 DEF Following, Initialising
  <2>. QED
    BY <1>1, <2>2 DEF Plain, Foreign, Exists, owned, outside
<1>. QED
  BY <1>2, <1>3, <1>4 DEF Plain

\* The steps of a deletion.
LEMMA PlainDelete ==
    ASSUME Types, Plain,
           StartDelete \/ RestoreArgoCD \/ RemoveGovernanceFolder \/ RemoveFinalizer
    PROVE  Plain'
<1>. USE DEF Types, Plain, owned, past
<1>1. CASE StartDelete
  <2>1. mrt.finalizer /\ mrt.gen # 0 /\ mine' = mrt.gen /\ pc' = "restore"
    BY <1>1 DEF StartDelete, MayDelete, Existence, Exists
  <2>2. Numbers'
    BY <1>1 DEF StartDelete, Numbers
  <2>3. Existence'
    BY <1>1, <2>1 DEF StartDelete, Existence, Exists, Initialising, Creating
  <2>4. Foreign'
    BY <1>1, <2>1 DEF StartDelete, Foreign, outside
  <2>. QED
    BY <2>2, <2>3, <2>4
<1>2. CASE RestoreArgoCD
  <2>1. /\ UNCHANGED <<mrt, children, busy, queue, folder, templates, turns>>
        /\ pc = "restore" /\ pc' \in {"empty", "idle"}
        /\ \/ pc' = "idle" /\ mine' = 0 /\ ~fresh'
           \/ pc' = "empty" /\ UNCHANGED <<mine, fresh>>
    BY <1>2 DEF RestoreArgoCD, Return
  <2>2. Numbers'
    BY <2>1 DEF Numbers
  <2>3. Existence'
    BY <2>1 DEF Existence, Exists, Initialising, Creating
  <2>4. Foreign'
    BY <2>1 DEF Foreign
  <2>. QED
    BY <2>2, <2>3, <2>4
<1>3. CASE RemoveGovernanceFolder
  BY <1>3 DEF RemoveGovernanceFolder, Numbers, Existence, Exists, Foreign, Initialising, Creating
<1>4. CASE RemoveFinalizer
  <2>1. mrt' = NoMRT /\ pc' = "idle" /\ mine' = 0 /\ ~fresh' /\ pc = "unfinalize"
        /\ UNCHANGED <<owned, outside, past>>
    BY <1>4 DEF RemoveFinalizer, Return
  <2>2. Numbers'
    BY <2>1, Fields DEF Numbers
  <2>3. Existence'
    BY <2>1, Fields DEF Existence, Exists, Initialising, Creating
  <2>4. Foreign'
    BY <2>1 DEF Foreign, outside
  <2>. QED
    BY <2>2, <2>3, <2>4
<1>. QED
  BY <1>1, <1>2, <1>3, <1>4

LEMMA PlainTemplate ==
    ASSUME Types, Plain, ReconcileTemplate
    PROVE  Plain'
  BY PlainLockTimeout, PlainAcquireLock, PlainSaveRevision, PlainCheckFolder, PlainCreateChild,
     PlainCreateQueue, PlainSaves, PlainApplicationNotFound, PlainReleaseLock, PlainDelete
     DEF ReconcileTemplate, CreateClusterResources, Kinds

LEMMA PlainStartCall ==
    ASSUME Types, Plain, NEW k \in Kinds, NEW call \in {"push", "application"}, NEW read,
           StartCall(k, call, read)
    PROVE  Plain'
<1>1. /\ UNCHANGED <<mrt, worker, children, queue, outside, past>>
      /\ \A j \in Kinds : \/ busy'[j] = busy[j]
                          \/ /\ busy'[j].object = children[j] /\ busy'[j].call = call
                             /\ Exists(children[j])
  BY DEF StartCall, Types
<1>2. Numbers'
  BY <1>1 DEF Plain, Numbers, worker, past
<1>3. Existence'
  <2>1. \A j \in Kinds : /\ busy'[j].call = "idle" => busy'[j] = Idle
                         /\ busy'[j].call # "idle" => Exists(busy'[j].object)
    BY <1>1 DEF Plain, Existence
  <2>. QED
    BY <1>1, <2>1 DEF Plain, Existence, worker
<1>4. Foreign'
  BY <1>1 DEF Plain, Foreign, worker, outside
<1>. QED
  BY <1>2, <1>3, <1>4 DEF Plain

LEMMA PlainEndCall ==
    ASSUME Types, Plain, NEW k \in Kinds, Push(k) \/ (k = "mca" /\ UpdateArgoCD)
    PROVE  Plain'
<1>1. /\ busy' = [busy EXCEPT ![k] = Idle]
      /\ \/ UNCHANGED children
         \/ children' = [children EXCEPT ![k].stage = After(k, children[k])]
      /\ UNCHANGED <<mrt, worker, queue, smooth, templates>>
      /\ turns' \in {turns, turns + 1} /\ turns' \in Nat
      /\ busy[k].call # "idle"
  BY EndOfCall DEF Push, UpdateArgoCD
<1>2. \A j \in Kinds : busy'[j] = busy[j] \/ busy'[j] = Idle
  BY <1>1 DEF Types
<1>3. \A j \in Kinds : /\ children'[j].gen = children[j].gen
                       /\ children'[j].version = children[j].version
                       /\ children'[j] = children[j] \/ j = k
  <2>1. children \in [Kinds -> Children]
    BY DEF Types
  <2>. QED
    BY <1>1, <2>1 DEF Children
<1>4. Numbers'
  <2>1. turns \in Nat /\ turns <= turns'
    BY <1>1, RevisionNumbers DEF Types
  <2>2. \A j \in Kinds : children[j].version \in Nat /\ busy[j].object.version \in Nat
    BY DEF Types, Calls, Children
  <2>3. \A j \in Kinds : /\ children'[j].version <= turns'
                         /\ busy'[j].object.version <= turns'
    BY <1>1, <1>2, <1>3, <2>1, <2>2, Fields DEF Plain, Numbers
  <2>4. templates' <= turns' + 1
    BY <1>1, <2>1 DEF Plain, Numbers, Types
  <2>5. \A j \in Kinds : children'[j].gen <= templates' /\ busy'[j].object.gen <= templates'
    BY <1>1, <1>2, <1>3, Fields DEF Plain, Numbers, Types
  <2>. QED
    BY <1>1, <2>3, <2>4, <2>5 DEF Plain, Numbers, worker
<1>5. Existence'
  <2>1. \A j \in Kinds : ~Exists(children'[j]) => children'[j] = NoChild
    <3>1. ASSUME NEW j \in Kinds, ~Exists(children'[j]), j = k
          PROVE  children'[j] = NoChild
      <4>1. children[k] = NoChild
        BY <1>3, <3>1 DEF Exists, Plain, Existence
      <4>2. After(k, children[k]) = children[k].stage
        BY <4>1, Fields DEF After
      <4>3. children'[k] = children[k]
        <5>1. children \in [Kinds -> Children]
          BY DEF Types
        <5>. QED
          BY <1>1, <4>2, <5>1 DEF Children
      <4>. QED
        BY <3>1, <4>1, <4>3
    <3>2. ASSUME NEW j \in Kinds, ~Exists(children'[j]), children'[j] = children[j]
          PROVE  children'[j] = NoChild
      BY <3>2 DEF Plain, Existence
    <3>. QED
      BY <1>3, <3>1, <3>2
  <2>2. \A j \in Kinds : /\ busy'[j].call = "idle" => busy'[j] = Idle
                         /\ busy'[j].call # "idle" => Exists(busy'[j].object)
    BY <1>2, Fields DEF Plain, Existence
  <2>. QED
    BY <1>1, <2>1, <2>2 DEF Plain, Existence, worker
<1>6. Foreign'
  <2>1. AlienFile \notin folder
    BY <1>1, Fields DEF Plain, Foreign
  <2>2. AlienFile \notin folder'
    BY <2>1, Fields DEF Push, UpdateArgoCD, AlienFile
  <2>. QED
    BY <2>2 DEF Foreign
<1>. QED
  BY <1>4, <1>5, <1>6 DEF Plain

\* What a child's worker writes in one step: its finalizer, or its end.
LEMMA PlainFinalizers ==
    ASSUME Types, Plain, NEW k \in Kinds, SetChildFinalizer(k) \/ RemoveChildFinalizer(k)
    PROVE  Plain'
<1>1. UNCHANGED <<mrt, worker, busy, queue, outside, past>>
  BY DEF SetChildFinalizer, RemoveChildFinalizer
<1>2. \A j \in Kinds : \/ children'[j] = children[j]
                       \/ children'[j] = NoChild
                       \/ /\ children'[j].gen = children[j].gen
                          /\ children'[j].version = children[j].version
                          /\ Exists(children[j])
  BY DEF SetChildFinalizer, RemoveChildFinalizer, Types, Children
<1>3. turns \in Nat /\ templates \in Nat
  BY RevisionNumbers DEF Types
<1>4. Numbers'
  BY <1>1, <1>2, <1>3, Fields DEF Plain, Numbers, worker, past
<1>5. Existence'
  BY <1>1, <1>2 DEF Plain, Existence, Exists, worker
<1>6. Foreign'
  BY <1>1, <1>2, Fields DEF Plain, Foreign, Exists, worker, outside
<1>. QED
  BY <1>4, <1>5, <1>6 DEF Plain

LEMMA PlainChild ==
    ASSUME Types, Plain, NEW k \in Kinds, ReconcileChild(k)
    PROVE  Plain'
  BY PlainStartCall, PlainEndCall, PlainFinalizers
     DEF ReconcileChild, StartPush, StartUpdateArgoCD, Kinds

LEMMA PlainGarbage ==
    ASSUME Types, Plain, CollectGarbage
    PROVE  Plain'
<1>1. UNCHANGED <<mrt, worker, busy, outside, past>> /\ queue' \in {queue, 0}
  BY DEF CollectGarbage
<1>2. \A j \in Kinds : \/ children'[j] = children[j]
                       \/ children'[j] = NoChild
                       \/ /\ children'[j].gen = children[j].gen
                          /\ children'[j].version = children[j].version
                          /\ Exists(children[j])
  BY DEF CollectGarbage, Orphan, Types, Children
<1>3. turns \in Nat /\ templates \in Nat
  BY RevisionNumbers DEF Types
<1>4. Numbers'
  BY <1>1, <1>2, <1>3, Fields DEF Plain, Numbers, worker, past
<1>5. Existence'
  BY <1>1, <1>2 DEF Plain, Existence, Exists, worker
<1>6. Foreign'
  BY <1>1, <1>2, Fields DEF Plain, Foreign, Exists, worker, outside
<1>. QED
  BY <1>4, <1>5, <1>6 DEF Plain

LEMMA PlainCreateTemplate ==
    ASSUME Types, Plain, CreateTemplate
    PROVE  Plain'
<1>. DEFINE g == templates + 1
<1>1. /\ mrt' = NewMRT(g) /\ templates' = g /\ g \in Nat
      /\ UNCHANGED <<worker, owned, outside>> /\ mrt.gen = 0
      /\ turns' \in Nat /\ turns <= turns' /\ templates' <= turns' + 1
  BY RevisionNumbers DEF CreateTemplate, Turn, Types, Plain, Numbers, Exists
<1>2. mrt'.gen = g /\ mrt'.action = "Empty" /\ ~mrt'.finalizer /\ ~mrt'.deleting
      /\ mrt'.init = NoApp
  BY <1>1, Fields
<1>3. ~fresh
  BY <1>1 DEF Plain, Existence
<1>4. Numbers'
  <2>1. \A k \in Kinds : /\ children[k].gen \in Nat /\ children[k].version \in Nat
                         /\ busy[k].object.gen \in Nat /\ busy[k].object.version \in Nat
    BY DEF Types, Children, Calls
  <2>2. turns \in Nat /\ templates \in Nat /\ mine \in Nat
    BY RevisionNumbers DEF Types
  <2>3. \A k \in Kinds :
           /\ children'[k].gen <= templates' /\ children'[k].version <= turns'
           /\ busy'[k].object.gen <= templates' /\ busy'[k].object.version <= turns'
    BY <1>1, <2>1, <2>2 DEF Plain, Numbers, owned
  <2>. QED
    <3>1. mine' <= templates'
      BY <1>1, <2>2 DEF Plain, Numbers, worker
    <3>2. mrt'.gen <= templates'
      <4>. HIDE DEF g
      <4>. QED
        BY <1>1, <1>2
    <3>. QED
      BY <1>1, <2>3, <3>1, <3>2 DEF Numbers
<1>5. Existence'
  BY <1>1, <1>2, <1>3 DEF Plain, Existence, Exists, worker, owned
<1>6. Foreign'
  BY <1>1, <1>2, <1>3 DEF Plain, Foreign, Exists, worker, owned, outside
<1>. QED
  BY <1>4, <1>5, <1>6 DEF Plain

LEMMA PlainDeleteTemplate ==
    ASSUME Types, Plain, DeleteTemplate
    PROVE  Plain'
<1>1. /\ \/ mrt' = NoMRT
         \/ mrt' = [mrt EXCEPT !.deleting = TRUE] /\ mrt.finalizer
      /\ ~fresh' /\ UNCHANGED <<pc, mine, seen, owned, outside, templates, turns>>
  BY DEF DeleteTemplate
<1>2. \/ mrt'.gen = 0 /\ ~mrt'.finalizer /\ ~mrt'.deleting /\ mrt'.init = NoApp
         /\ mrt'.action = "Empty"
      \/ mrt'.gen = mrt.gen /\ mrt'.finalizer /\ mrt.finalizer
  BY <1>1, Fields DEF Types, MRTs
<1>3. Numbers'
  BY <1>1, <1>2 DEF Types, Plain, Numbers, owned
<1>4. Existence'
  BY <1>1, <1>2 DEF Plain, Existence, Exists, owned
<1>5. Foreign'
  BY <1>1, <1>2 DEF Plain, Foreign, Exists, owned, outside
<1>. QED
  BY <1>3, <1>4, <1>5 DEF Plain

LEMMA PlainApprove ==
    ASSUME Types, Plain, Approve
    PROVE  Plain'
<1>1. UNCHANGED <<mrt, worker, busy, queue, outside, templates>> /\ turns' = turns + 1
      /\ Exists(children["msr"])
  BY DEF Approve, Turn
<1>2. \A k \in Kinds : \/ children'[k] = children[k]
                       \/ /\ children'[k].gen = children[k].gen
                          /\ children'[k].version = children[k].version + 1
                          /\ children[k].finalizer
  BY DEF Approve, Types, Children, Kinds
<1>3. Numbers'
  <2>1. turns \in Nat /\ templates \in Nat
    BY RevisionNumbers DEF Types
  <2>2. \A k \in Kinds : /\ children[k].gen \in Nat /\ children[k].version \in Nat
                         /\ busy[k].object.gen \in Nat /\ busy[k].object.version \in Nat
    BY DEF Types, Children, Calls
  <2>3. \A k \in Kinds :
           /\ children'[k].gen <= templates' /\ children'[k].version <= turns'
           /\ busy'[k].object.gen <= templates' /\ busy'[k].object.version <= turns'
    BY <1>1, <1>2, <2>1, <2>2 DEF Plain, Numbers
  <2>. QED
    BY <1>1, <2>1, <2>3 DEF Plain, Numbers, worker
<1>4. Existence'
  <2>1. \A k \in Kinds : ~Exists(children'[k]) => children'[k] = NoChild
    BY <1>2, Fields DEF Plain, Existence, Exists
  <2>. QED
    BY <1>1, <2>1 DEF Plain, Existence, worker
<1>5. Foreign'
  BY <1>1, Fields DEF Plain, Foreign, outside
<1>. QED
  BY <1>3, <1>4, <1>5 DEF Plain

\* Failed calls, restarts and a deleted Application.
LEMMA PlainMishaps ==
    ASSUME Types, Plain, RemoveFolderFails \/ CallFails \/ Crash \/ DeleteApplication
    PROVE  Plain'
<1>1. /\ UNCHANGED <<mrt, children, queue, folder, templates>>
      /\ turns \in Nat /\ turns' = turns + 1
      /\ \A k \in Kinds : busy'[k] = busy[k] \/ busy'[k] = Idle
  BY RevisionNumbers
     DEF RemoveFolderFails, CallFails, Crash, DeleteApplication, Mishap, Turn, HandlerFails,
         owned, outside, worker, Types
<1>2. \/ pc' \in {pc, "fail"} /\ UNCHANGED <<mine, fresh>> /\ (pc' # "idle" <=> pc # "idle")
      \/ pc' = "idle" /\ mine' = 0 /\ ~fresh'
      \/ pc = "empty" /\ pc' = "unfinalize" /\ UNCHANGED <<mine, fresh>>
  BY DEF RemoveFolderFails, CallFails, Crash, DeleteApplication, HandlerFails, Return, worker
<1>3. Numbers'
  <2>1. \A k \in Kinds : /\ children[k].version \in Nat /\ busy[k].object.version \in Nat
    BY DEF Types, Children, Calls
  <2>2. \A k \in Kinds :
           /\ children'[k].gen <= templates' /\ children'[k].version <= turns'
           /\ busy'[k].object.gen <= templates' /\ busy'[k].object.version <= turns'
    BY <1>1, <2>1, Fields DEF Plain, Numbers, Types
  <2>. QED
    BY <1>1, <1>2, <2>2 DEF Plain, Numbers, Types
<1>4. Existence'
  BY <1>1, <1>2, Fields DEF Plain, Existence, Creating, Initialising
<1>5. Foreign'
  BY <1>1, <1>2 DEF Plain, Foreign
<1>. QED
  BY <1>3, <1>4, <1>5 DEF Plain

LEMMA PlainEnvironment ==
    ASSUME Types, Plain, Environment
    PROVE  Plain'
  BY PlainCreateTemplate, PlainDeleteTemplate, PlainApprove, PlainMishaps DEF Environment

-----------------------------------------------------------------------------
(***************************************************************************)
(* Ordered                                                                 *)
(***************************************************************************)

LEMMA OrderedInit == Init => Ordered
<1>. SUFFICES ASSUME Init PROVE Ordered
  OBVIOUS
<1>1. /\ \A k \in Kinds : children[k] = NoChild /\ busy[k] = Idle
      /\ mrt = NoMRT /\ pc = "idle" /\ app = Initial /\ folder \subseteq FoundFiles
  BY DEF Init, Idle
<1>. QED
  BY <1>1, Fields DEF Ordered, Gone, Beginning, Creation, Created, Deletion, Clean, Settled, Exists

\* An MRT is where its fields say it is.
LEMMA Places ==
    ASSUME Types, Plain, Ordered
    PROVE  /\ pc \in {"SaveRevision", "CheckFolder"} =>
                  Exists(mrt) /\ ~mrt.finalizer /\ mrt.action = pc
           /\ pc \in Creating => Exists(mrt) /\ ~mrt.finalizer /\ mrt.action = "CreateResources"
           /\ pc = "SetFinalizer" => Exists(mrt) /\ ~mrt.finalizer /\ mrt.action = pc
           /\ pc \in {"restore", "empty", "unfinalize"} => mrt.deleting
           /\ pc # "idle" => mine = mrt.gen /\ Exists(mrt)
           /\ pc \notin {"Empty", "CreateResources"}
<1>1. mrt.action \in Initialising
  BY DEF Types, MRTs
<1>2. pc # "idle" => mine = mrt.gen /\ Exists(mrt) /\ fresh
  BY DEF Plain, Existence, Ordered, Exists
<1>3. mrt.finalizer => pc \in {"idle", "release", "restore", "empty", "unfinalize"}
  BY DEF Plain, Existence, Ordered, Created, Deletion
<1>4. pc \in {"restore", "empty", "unfinalize"} => mrt.deleting
  BY <1>1, <1>2 DEF Ordered, Beginning, Creation, Created, Creating, Initialising
<1>5. pc \notin {"Empty", "CreateResources"}
  BY <1>1, <1>2, <1>3 DEF Ordered, Beginning, Creation, Created, Creating, Initialising
<1>. QED
  BY <1>2, <1>3, <1>4, <1>5 DEF Plain, Existence, Creating, Initialising

LEMMA OrderedLockTimeout ==
    ASSUME Types, Plain, Ordered, LockTimeout
    PROVE  Ordered'
<1>1. /\ mrt'.gen = mrt.gen /\ mrt'.deleting = mrt.deleting /\ mrt'.action = mrt.action
      /\ mrt'.init = mrt.init /\ mrt'.finalizer = mrt.finalizer /\ mrt'.queueRef = mrt.queueRef
      /\ UNCHANGED <<worker, owned, outside, past>>
  BY DEF LockTimeout, Types, MRTs
<1>. QED
  BY <1>1 DEF Ordered, Gone, Beginning, Creation, Created, Deletion, Clean, Settled, Exists, Own,
     OwnFolder, worker, owned, outside

LEMMA OrderedAcquireLock ==
    ASSUME Types, Plain, Ordered, AcquireLock
    PROVE  Ordered'
<1>. DEFINE state == IF mrt.action = "Empty" THEN "SaveRevision" ELSE mrt.action
<1>1. /\ mrt' = [mrt EXCEPT !.action = state, !.progressing = TRUE]
      /\ pc' = IF state = "CreateResources" THEN "msr" ELSE state
      /\ mine' = mrt.gen /\ fresh' /\ pc = "idle"
      /\ UNCHANGED <<seen, owned, outside, past>>
      /\ mrt.gen # 0 /\ ~mrt.deleting /\ ~mrt.finalizer
  BY DEF AcquireLock, Following, Exists
<1>2. /\ mrt'.gen = mrt.gen /\ ~mrt'.finalizer /\ ~mrt'.deleting /\ mrt'.queueRef = mrt.queueRef
      /\ mrt'.init = mrt.init /\ mrt'.action = state
      /\ state \in Initialising \ {"Empty"}
      /\ mrt.action # "Empty" => state = mrt.action
      /\ mrt.action = "Empty" => state = "SaveRevision"
  BY <1>1 DEF Types, MRTs, Initialising
<1>. HIDE DEF state
<1>. USE DEF Ordered, Exists, owned, outside, Initialising
<1>3. Gone' /\ Deletion'
  BY <1>1, <1>2 DEF Gone, Deletion
<1>4. Beginning'
  BY <1>1, <1>2 DEF Beginning, Clean
<1>5. Creation'
  BY <1>1, <1>2 DEF Creation, OwnFolder, Own, Creating
<1>6. Created'
  BY <1>1, <1>2 DEF Created, OwnFolder, Own
<1>. QED
  BY <1>1, <1>2, <1>3, <1>4, <1>5, <1>6

LEMMA OrderedSaveRevision ==
    ASSUME Types, Plain, Ordered, SaveArgoCDTargetRevision
    PROVE  Ordered'
<1>1. /\ mrt'.gen = mrt.gen /\ mrt'.finalizer = mrt.finalizer /\ mrt'.deleting = mrt.deleting
      /\ mrt'.action = mrt.action /\ mrt'.queueRef = mrt.queueRef
      /\ mrt'.init = mrt.init \/ (mrt'.init = app /\ app # NoApp)
      /\ pc' \in {"release", "fail"} /\ pc = "SaveRevision"
      /\ UNCHANGED <<mine, fresh, seen, owned, outside, past>>
  BY DEF Types, MRTs, SaveArgoCDTargetRevision, Write, HandlerFails
<1>2. Exists(mrt) /\ ~mrt.finalizer /\ mrt.action = "SaveRevision"
  BY <1>1, Places
<1>. QED
  BY <1>1, <1>2 DEF Ordered, Gone, Beginning, Creation, Created, Deletion, Clean, Exists, owned,
     outside, Plain, Existence

LEMMA OrderedCheckFolder ==
    ASSUME Types, Plain, Ordered, CheckGovernancePathEmpty
    PROVE  Ordered'
<1>1. /\ UNCHANGED <<mrt, mine, fresh, seen, owned, outside, past>>
      /\ pc = "CheckFolder" /\ pc' \in {"release", "fail"} /\ (pc' = "release" => AlienFile \notin folder)
  BY DEF CheckGovernancePathEmpty, GovernancePathEmpty, ChangedFiles, AlienFile, AlienText,
     HandlerFails
<1>2. Exists(mrt) /\ ~mrt.finalizer /\ mrt.action = "CheckFolder"
  BY <1>1, Places
<1>. QED
  BY <1>1, <1>2 DEF Ordered, Gone, Beginning, Creation, Created, Deletion, Clean, Exists, owned,
     outside, Plain, Existence

LEMMA OrderedCreateChild ==
    ASSUME Types, Plain, Ordered, NEW k \in Kinds, NEW next,
           (k = "msr" /\ next = "mca") \/ (k = "mca" /\ next = "queue"), CreateChild(k, next)
    PROVE  Ordered'
<1>1. /\ UNCHANGED <<mrt, mine, fresh, seen, busy, queue, outside, past>>
      /\ pc = k /\ pc' = next
      /\ \A j \in Kinds : j # k => children'[j] = children[j]
      /\ children'[k] = IF Exists(children[k]) THEN children[k] ELSE NewChild(mine)
  BY DEF CreateChild, Types
<1>2. /\ Exists(mrt) /\ ~mrt.finalizer /\ mrt.action = "CreateResources"
      /\ mine = mrt.gen /\ ~mrt.deleting /\ mrt.gen \in Nat
  BY <1>1, Places DEF Creating, Kinds, Plain, Existence, Types, MRTs
<1>3. \A j \in Kinds : Exists(children[j]) => Own(j)
  BY <1>2 DEF Ordered, Creation
<1>4. \A j \in Kinds : j # k \/ Exists(children[j]) => children'[j] = children[j]
  BY <1>1
<1>5. children'[k].gen = mrt.gen /\ ~children'[k].deleting /\ Exists(children'[k])
  BY <1>1, <1>2, <1>3, Fields DEF Own, Exists
<1>6. \A j \in Kinds : /\ Exists(children'[j]) => Own(j)'
                       /\ Exists(children[j]) => Exists(children'[j])
                       /\ Own(j) => Own(j)'
  BY <1>1, <1>3, <1>4, <1>5 DEF Own
<1>7. Creation'
  BY <1>1, <1>2, <1>5, <1>6 DEF Ordered, Creation, OwnFolder, Own, Creating, Kinds, outside
<1>8. (Gone /\ Beginning /\ Created /\ Deletion)'
  BY <1>1, <1>2 DEF Gone, Beginning, Created, Deletion
<1>. QED
  BY <1>1, <1>2, <1>6, <1>7, <1>8 DEF Ordered

LEMMA OrderedCreateQueue ==
    ASSUME Types, Plain, Ordered, CreateQueue
    PROVE  Ordered'
<1>1. /\ UNCHANGED <<mrt, mine, fresh, seen, children, busy, outside, past>>
      /\ pc = "queue" /\ pc' = "saveRef"
      /\ queue' = IF queue = 0 THEN mine ELSE queue
  BY DEF CreateQueue
<1>2. /\ Exists(mrt) /\ ~mrt.finalizer /\ mrt.action = "CreateResources"
      /\ mine = mrt.gen /\ ~mrt.deleting
  BY <1>1, Places DEF Creating, Plain, Existence
<1>. QED
  BY <1>1, <1>2 DEF Ordered, Gone, Beginning, Creation, Created, Deletion, OwnFolder, Own, Creating,
     outside

\* Without the Application, or its object gone stale, the worker goes no further.
LEMMA OrderedHandlerFails ==
    ASSUME Types, Plain, Ordered, HandlerFails, UNCHANGED <<owned, folder>>,
           app' \in {app, NoApp}, pc \in {"msr", "mca", "queue", "saveRef", "SaveRevision",
                                         "CheckFolder", "SetFinalizer"}
    PROVE  Ordered'
<1>1. UNCHANGED <<mrt, mine, fresh, seen, owned, folder>> /\ pc' = "fail"
  BY DEF HandlerFails
<1>2. ~mrt.finalizer /\ Exists(mrt) /\ ~mrt.deleting
  BY Places DEF Plain, Existence, Creating
<1>. QED
  BY <1>1, <1>2 DEF Ordered, Gone, Beginning, Creation, Created, Deletion, OwnFolder, Own, Creating,
     owned, Clean, Exists

LEMMA OrderedSaveQueueRef ==
    ASSUME Types, Plain, Ordered, SaveQueueRef
    PROVE  Ordered'
<1>1. CASE ~fresh
  BY <1>1 DEF Ordered, SaveQueueRef
<1>2. CASE fresh
  <2>1. /\ mrt'.gen = mrt.gen /\ mrt'.finalizer = mrt.finalizer /\ mrt'.deleting = mrt.deleting
        /\ mrt'.action = mrt.action /\ mrt'.init = mrt.init /\ mrt'.queueRef
        /\ pc = "saveRef" /\ pc' = "release"
        /\ UNCHANGED <<mine, fresh, seen, owned, outside, past>>
    BY <1>2 DEF Types, MRTs, SaveQueueRef, Write, HandlerFails
  <2>2. /\ Exists(mrt) /\ ~mrt.finalizer /\ mrt.action = "CreateResources" /\ ~mrt.deleting
    BY <2>1, Places DEF Creating, Plain, Existence
  <2>. QED
    BY <2>1, <2>2 DEF Ordered, Gone, Beginning, Creation, Created, Deletion, OwnFolder, Own,
       Creating, owned, outside, Exists
<1>. QED
  BY <1>1, <1>2

LEMMA OrderedFinalizing ==
    ASSUME Types, Plain, Ordered, Finalizing
    PROVE  Ordered'
<1>1. CASE ~fresh
  BY <1>1 DEF Ordered, Finalizing
<1>2. CASE fresh
  <2>1. /\ mrt'.gen = mrt.gen /\ mrt'.finalizer /\ mrt'.deleting = mrt.deleting
        /\ mrt'.action = mrt.action /\ mrt'.init = mrt.init /\ mrt'.queueRef = mrt.queueRef
        /\ pc = "SetFinalizer" /\ pc' = "release"
        /\ UNCHANGED <<mine, fresh, seen, owned, outside, past>>
    BY <1>2 DEF Types, MRTs, Finalizing, Write, HandlerFails
  <2>2. /\ Exists(mrt) /\ ~mrt.finalizer /\ mrt.action = "SetFinalizer" /\ ~mrt.deleting
    BY <2>1, Places DEF Plain, Existence
  <2>. QED
    BY <2>1, <2>2 DEF Ordered, Gone, Beginning, Creation, Created, Deletion, OwnFolder, Own,
       owned, outside, Exists
<1>. QED
  BY <1>1, <1>2

LEMMA OrderedReleaseLock ==
    ASSUME Types, Plain, Ordered, ReleaseLock
    PROVE  Ordered'
<1>1. /\ mrt'.gen = mrt.gen /\ mrt'.deleting = mrt.deleting /\ mrt'.init = mrt.init
      /\ mrt'.finalizer = mrt.finalizer /\ mrt'.queueRef = mrt.queueRef
      /\ mrt'.action = IF pc = "release" THEN Following(mrt.action) ELSE mrt.action
      /\ pc \in {"release", "fail"} /\ pc' = "idle"
      /\ UNCHANGED <<owned, outside, past>>
  <2>1. fresh
    BY DEF Ordered, ReleaseLock
  <2>. QED
    BY <2>1 DEF Types, MRTs, ReleaseLock, Return
<1>2. Exists(mrt) /\ ~mrt.deleting /\ mrt.action \in Initialising
  BY <1>1, Places DEF Ordered, Deletion, Types, MRTs
<1>. USE DEF Ordered, Exists, owned, outside
<1>3. (Gone /\ Deletion)'
  BY <1>1, <1>2 DEF Gone, Deletion
<1>4. CASE pc = "fail" \/ mrt.finalizer
  <2>1. mrt'.action = mrt.action \/ mrt.finalizer
    BY <1>1, <1>4
  <2>2. Beginning'
    BY <1>1, <1>2, <2>1 DEF Beginning, Clean
  <2>3. Creation'
    BY <1>1, <1>2, <2>1 DEF Creation, OwnFolder, Own, Creating
  <2>4. Created'
    BY <1>1, <1>2, <2>1 DEF Created, OwnFolder, Own
  <2>. QED
    BY <1>1, <1>3, <2>2, <2>3, <2>4
<1>5. CASE pc = "release" /\ ~mrt.finalizer
  <2>1. mrt.action # "SetFinalizer" /\ mrt'.action = Following(mrt.action)
    BY <1>1, <1>2, <1>5 DEF Created
  <2>2. Beginning'
    BY <1>1, <1>2, <1>5, <2>1 DEF Beginning, Clean, Following, Initialising
  <2>3. Creation'
    <3>1. mrt.action = "CheckFolder" => OwnFolder'
      BY <1>1, <1>2, <1>5 DEF Beginning, Clean, FoundFiles, OwnFolder
    <3>. QED
      BY <1>1, <1>2, <1>5, <2>1, <3>1 DEF Beginning, Creation, OwnFolder, Own, Creating, Following,
         Initialising
  <2>4. Created'
    <3>1. mrt.action = "CreateResources" \/ mrt'.action # "SetFinalizer"
      BY <1>2, <2>1 DEF Following, Initialising
    <3>2. mrt.action = "CreateResources" => \A k \in Kinds : Own(k)
      BY <1>2, <1>5 DEF Creation, Kinds
    <3>. QED
      BY <1>1, <1>2, <1>5, <3>1, <3>2 DEF Creation, Created, OwnFolder, Own
  <2>. QED
    BY <1>1, <1>3, <2>2, <2>3, <2>4
<1>. QED
  BY <1>1, <1>4, <1>5

LEMMA OrderedStartDelete ==
    ASSUME Types, Plain, Ordered, StartDelete
    PROVE  Ordered'
<1>1. /\ UNCHANGED <<mrt, owned, outside, past>> /\ pc = "idle" /\ pc' = "restore"
      /\ mrt.deleting /\ mrt.finalizer /\ app # NoApp /\ seen' = app /\ fresh'
  BY DEF StartDelete, MayDelete
<1>2. Exists(mrt)
  BY <1>1 DEF Plain, Existence
<1>. QED
  BY <1>1, <1>2 DEF Ordered, Gone, Beginning, Creation, Created, Deletion, Settled, Clean,
     OwnFolder, Own, owned, outside

LEMMA OrderedRestore ==
    ASSUME Types, Plain, Ordered, RestoreArgoCD
    PROVE  Ordered'
<1>1. /\ UNCHANGED <<mrt, owned, folder, past>> /\ pc = "restore"
      /\ \/ /\ app # NoApp /\ app' = (IF seen = mrt.init THEN app ELSE mrt.init)
            /\ pc' = "empty" /\ UNCHANGED <<mine, fresh, seen>>
         \/ /\ pc' = "idle" /\ UNCHANGED app
  BY DEF RestoreArgoCD, Return
<1>2. Exists(mrt) /\ mrt.deleting /\ mrt.finalizer
  BY <1>1, Places DEF Plain, Existence
<1>3. pc' = "empty" => app' \in {Initial, NoApp}
  BY <1>1, <1>2 DEF Ordered, Deletion
<1>. QED
  BY <1>1, <1>2, <1>3 DEF Ordered, Gone, Beginning, Creation, Created, Deletion, Settled, Clean,
     OwnFolder, Own, owned

LEMMA OrderedRemoveFolder ==
    ASSUME Types, Plain, Ordered, RemoveGovernanceFolder
    PROVE  Ordered'
<1>1. /\ UNCHANGED <<mrt, mine, fresh, seen, owned, app, past>> /\ pc = "empty"
      /\ pc' = "unfinalize" /\ folder' = {}
  BY DEF RemoveGovernanceFolder
<1>2. Exists(mrt) /\ mrt.deleting /\ mrt.finalizer
  BY <1>1, Places DEF Plain, Existence
<1>. QED
  BY <1>1, <1>2 DEF Ordered, Gone, Beginning, Creation, Created, Deletion, Settled, OwnFolder, Own,
     owned

LEMMA OrderedRemoveFinalizer ==
    ASSUME Types, Plain, Ordered, RemoveFinalizer
    PROVE  Ordered'
<1>1. /\ UNCHANGED <<owned, outside, past>> /\ pc = "unfinalize" /\ pc' = "idle"
      /\ mrt' = NoMRT
  BY DEF RemoveFinalizer, Return
<1>2. Exists(mrt) /\ mrt.deleting
  BY <1>1, Places
<1>3. Settled /\ Clean
  BY <1>1, <1>2 DEF Ordered, Deletion, Clean
<1>. QED
  BY <1>1, <1>3, Fields DEF Ordered, Gone, Beginning, Creation, Created, Deletion, Settled, Clean,
     Exists, owned, outside

LEMMA OrderedTemplate ==
    ASSUME Types, Plain, Ordered, ReconcileTemplate
    PROVE  Ordered'
<1>1. CASE ApplicationNotFound
  BY <1>1, OrderedHandlerFails DEF ApplicationNotFound, outside
<1>2. ASSUME NEW k \in Kinds, NEW next,
             (k = "msr" /\ next = "mca") \/ (k = "mca" /\ next = "queue"), CreateChild(k, next)
      PROVE  Ordered'
  BY <1>2, OrderedCreateChild
<1>. QED
  BY <1>1, <1>2, OrderedLockTimeout, OrderedAcquireLock, OrderedSaveRevision, OrderedCheckFolder,
     OrderedCreateQueue, OrderedSaveQueueRef, OrderedFinalizing, OrderedReleaseLock,
     OrderedStartDelete, OrderedRestore, OrderedRemoveFolder, OrderedRemoveFinalizer
     DEF ReconcileTemplate, CreateClusterResources, Kinds

\* A child that has work is one of an MRT that has got as far as creating it.
LEMMA Working ==
    ASSUME Types, Plain, Ordered, NEW k \in Kinds,
           \/ Exists(mrt) /\ Exists(children[k]) /\ children[k].stage # "ready"
           \/ busy[k].call # "idle"
    PROVE  /\ Exists(mrt) /\ ~mrt.deleting /\ Own(k) /\ Exists(children[k])
           /\ mrt.finalizer \/ mrt.action \in {"CreateResources", "SetFinalizer"}
<1>1. Exists(mrt) /\ Exists(children[k])
  BY DEF Ordered
<1>2. ~mrt.deleting
  BY Fields DEF Ordered, Deletion, Settled
<1>3. mrt.action \in Initialising
  BY DEF Types, MRTs
<1>4. mrt.finalizer \/ mrt.action \in {"CreateResources", "SetFinalizer"}
  BY <1>1, <1>3 DEF Ordered, Beginning, Initialising
<1>5. Own(k)
  BY <1>1, <1>4 DEF Ordered, Creation, Created
<1>. QED
  BY <1>1, <1>2, <1>4, <1>5

LEMMA OrderedStartCall ==
    ASSUME Types, Plain, Ordered, NEW k \in Kinds, NEW call \in {"push", "application"}, NEW read,
           StartCall(k, call, read)
    PROVE  Ordered'
<1>1. /\ UNCHANGED <<mrt, worker, children, queue, outside, past>>
      /\ Exists(children[k]) /\ children[k].stage # "ready" /\ Exists(mrt)
      /\ \A j \in Kinds : \/ busy'[j] = busy[j]
                          \/ busy'[j].object = children[j] /\ j = k
  BY DEF StartCall, Types
<1>2. /\ ~mrt.deleting /\ Own(k)
      /\ mrt.finalizer \/ mrt.action \in {"CreateResources", "SetFinalizer"}
  BY <1>1, Working
<1>. QED
  BY <1>1, <1>2 DEF Ordered, Gone, Beginning, Creation, Created, Deletion, OwnFolder, Own, worker,
     outside

LEMMA OrderedEndCall ==
    ASSUME Types, Plain, Ordered, NEW k \in Kinds, Push(k) \/ (k = "mca" /\ UpdateArgoCD)
    PROVE  Ordered'
<1>1. /\ busy' = [busy EXCEPT ![k] = Idle]
      /\ \/ UNCHANGED children
         \/ children' = [children EXCEPT ![k].stage = After(k, children[k])]
      /\ UNCHANGED <<mrt, worker, queue>>
      /\ busy[k].call # "idle"
      /\ folder' \subseteq folder \union {<<k, busy[k].object.gen>>}
  BY EndOfCall DEF Push, UpdateArgoCD
<1>2. /\ Exists(mrt) /\ ~mrt.deleting /\ Own(k)
      /\ mrt.finalizer \/ mrt.action \in {"CreateResources", "SetFinalizer"}
  BY <1>1, Working
<1>3. \A j \in Kinds : busy'[j] = busy[j] \/ busy'[j] = Idle
  BY <1>1 DEF Types
<1>4. \A j \in Kinds : /\ children'[j].gen = children[j].gen
                       /\ children'[j].deleting = children[j].deleting
  <2>1. children \in [Kinds -> Children]
    BY DEF Types
  <2>. QED
    BY <1>1, <2>1 DEF Children
<1>5. OwnFolder => OwnFolder'
  BY <1>1 DEF OwnFolder, Ordered
<1>6. \A j \in Kinds : (Own(j) <=> Own(j)') /\ (Exists(children'[j]) <=> Exists(children[j]))
  BY <1>1, <1>4 DEF Own, Exists
<1>7. \A j \in Kinds : busy'[j].call # "idle" =>
          Exists(mrt') /\ Exists(children'[j]) /\ busy'[j].object.gen = mrt'.gen
  BY <1>1, <1>3, <1>6, Fields DEF Ordered
<1>8. Creation'
  BY <1>1, <1>2, <1>4, <1>5 DEF Ordered, Creation, Own, Exists, Kinds, worker
<1>10. Created'
  BY <1>1, <1>2, <1>4, <1>5 DEF Ordered, Created, Own, Exists, worker
<1>9. (Gone /\ Beginning /\ Deletion)'
  BY <1>1, <1>2 DEF Gone, Beginning, Deletion
<1>. QED
  BY <1>1, <1>7, <1>8, <1>9, <1>10 DEF Ordered, worker

LEMMA OrderedSetChildFinalizer ==
    ASSUME Types, Plain, Ordered, NEW k \in Kinds, SetChildFinalizer(k)
    PROVE  Ordered'
<1>1. /\ UNCHANGED <<mrt, worker, busy, queue, outside, past>>
      /\ Exists(children[k]) /\ children[k].stage # "ready" /\ Exists(mrt)
  BY DEF SetChildFinalizer
<1>2. \A j \in Kinds : /\ children'[j].gen = children[j].gen
                       /\ children'[j].deleting = children[j].deleting
  BY DEF SetChildFinalizer, Types, Children
<1>3. /\ ~mrt.deleting /\ Own(k)
      /\ mrt.finalizer \/ mrt.action \in {"CreateResources", "SetFinalizer"}
  BY <1>1, Working
<1>4. Creation'
  BY <1>1, <1>2, <1>3 DEF Ordered, Creation, OwnFolder, Own, Kinds, Exists, worker, outside
<1>5. Created'
  BY <1>1, <1>2, <1>3 DEF Ordered, Created, OwnFolder, Own, Exists, worker, outside
<1>6. (Gone /\ Beginning /\ Deletion)'
  BY <1>1, <1>3 DEF Gone, Beginning, Deletion
<1>. QED
  BY <1>1, <1>2, <1>4, <1>5, <1>6 DEF Ordered, Exists, worker

\* The end of a child and the garbage collector touch no child of a stored MRT.
LEMMA OrderedCleaning ==
    ASSUME Types, Plain, Ordered,
           CollectGarbage \/ \E k \in Kinds : RemoveChildFinalizer(k)
    PROVE  Ordered'
<1>1. CASE ~Exists(mrt)
  <2>1. UNCHANGED <<mrt, worker, busy, outside, past>>
    BY DEF CollectGarbage, RemoveChildFinalizer
  <2>2. \A k \in Kinds : children[k].stage = "ready" => children'[k].stage = "ready"
    BY Fields DEF CollectGarbage, RemoveChildFinalizer, Types, Children
  <2>3. \A k \in Kinds : busy[k].call = "idle"
    BY <1>1 DEF Ordered
  <2>. QED
    BY <1>1, <2>1, <2>2, <2>3 DEF Ordered, Gone, Beginning, Creation, Created, Deletion, Settled,
       Clean, Exists, worker, outside, Plain, Existence
<1>2. CASE Exists(mrt)
  <2>1. mrt.action \in Initialising
    BY DEF Types, MRTs
  <2>2. \A k \in Kinds : Exists(children[k]) => Own(k)
    BY <1>2, <2>1 DEF Ordered, Beginning, Creation, Created, Initialising
  <2>3. \A k \in Kinds : ~children[k].deleting
    BY <2>2, Fields DEF Own, Plain, Existence
  <2>4. queue \in {0, mrt.gen}
    BY <1>2, <2>1 DEF Ordered, Beginning, Creation, Created, Initialising
  <2>. QED
    BY <2>2, <2>3, <2>4 DEF CollectGarbage, RemoveChildFinalizer, Orphan, Own
<1>. QED
  BY <1>1, <1>2

LEMMA OrderedChild ==
    ASSUME Types, Plain, Ordered, NEW k \in Kinds, ReconcileChild(k)
    PROVE  Ordered'
  BY OrderedStartCall, OrderedEndCall, OrderedSetChildFinalizer, OrderedCleaning
     DEF ReconcileChild, StartPush, StartUpdateArgoCD, Kinds

LEMMA OrderedCreateTemplate ==
    ASSUME Types, Plain, Ordered, CreateTemplate, Stopped
    PROVE  Ordered'
<1>1. /\ mrt' = NewMRT(templates + 1) /\ templates + 1 \in Nat /\ templates + 1 # 0
      /\ UNCHANGED <<worker, owned, outside>>
  BY DEF CreateTemplate, Types
<1>2. mrt'.gen # 0 /\ mrt'.action = "Empty" /\ ~mrt'.finalizer /\ ~mrt'.deleting
      /\ mrt'.init = NoApp
  BY <1>1, Fields
<1>3. Clean
  BY DEF Ordered, Gone, Stopped
<1>. QED
  BY <1>1, <1>2, <1>3, Fields DEF Ordered, Gone, Beginning, Creation, Created, Deletion, Clean,
     Stopped, Exists, worker, owned, outside

LEMMA OrderedDeleteTemplate ==
    ASSUME Types, Plain, Ordered, DeleteTemplate, AtRest
    PROVE  Ordered'
<1>1. /\ mrt' = [mrt EXCEPT !.deleting = TRUE] /\ mrt.finalizer /\ Exists(mrt)
      /\ UNCHANGED <<pc, mine, seen, owned, outside, templates, turns>> /\ pc = "idle"
      /\ Settled
  BY DEF DeleteTemplate, AtRest, Settled
<1>2. /\ mrt'.gen = mrt.gen /\ mrt'.finalizer /\ mrt'.deleting /\ mrt'.init = mrt.init
      /\ mrt'.queueRef = mrt.queueRef
  BY <1>1 DEF Types, MRTs
<1>. QED
  BY <1>1, <1>2 DEF Ordered, Gone, Beginning, Creation, Created, Deletion, OwnFolder, Own, Settled,
     Exists, owned, outside

LEMMA OrderedApprove ==
    ASSUME Types, Plain, Ordered, Approve, ~mrt.deleting
    PROVE  Ordered'
<1>1. /\ UNCHANGED <<mrt, worker, busy, queue, outside>> /\ mrt.finalizer /\ Exists(mrt)
  BY DEF Approve
<1>2. \A k \in Kinds : /\ children'[k].gen = children[k].gen
                       /\ children'[k].deleting = children[k].deleting
  BY DEF Approve, Types, Children, Kinds
<1>3. Created'
  BY <1>1, <1>2 DEF Ordered, Created, OwnFolder, Own, worker, outside
<1>4. (Gone /\ Beginning /\ Creation /\ Deletion)'
  BY <1>1 DEF Gone, Beginning, Creation, Deletion
<1>. QED
  BY <1>1, <1>2, <1>3, <1>4 DEF Ordered, Exists, worker

LEMMA OrderedCallFails ==
    ASSUME Types, Plain, Ordered, CallFails
    PROVE  Ordered'
<1>1. CASE HandlerFails /\ pc \notin {"idle", "fail", "empty", "release", "restore", "unfinalize"}
  <2>1. pc \notin {"Empty", "CreateResources"}
    BY Places
  <2>2. pc \in {"msr", "mca", "queue", "saveRef", "SaveRevision", "CheckFolder", "SetFinalizer"}
    <3>1. pc \in PCs
      BY DEF Types
    <3>. QED
      BY <1>1, <2>1, <3>1 DEF PCs, Creating, Initialising
  <2>. QED
    BY <1>1, <2>2, OrderedHandlerFails DEF CallFails, outside
<1>2. CASE Return /\ UNCHANGED mrt /\ pc \in {"release", "restore", "unfinalize"}
  <2>1. UNCHANGED <<owned, outside, mrt>> /\ pc' = "idle"
    BY <1>2 DEF CallFails, Return
  <2>. QED
    BY <1>2, <2>1 DEF Ordered, Gone, Beginning, Creation, Created, Deletion, OwnFolder, Own,
       Creating, owned, outside, Clean, Settled
<1>. QED
  BY <1>1, <1>2 DEF CallFails

LEMMA OrderedCrash ==
    ASSUME Types, Plain, Ordered, Crash
    PROVE  Ordered'
<1>1. UNCHANGED <<mrt, children, queue, outside>> /\ pc' = "idle"
      /\ \A k \in Kinds : busy'[k] = Idle
  BY DEF Crash, Return
<1>. QED
  BY <1>1, Fields DEF Ordered, Gone, Beginning, Creation, Created, Deletion, OwnFolder, Own,
     Creating, outside, Clean, Settled

LEMMA OrderedDeleteApplication ==
    ASSUME Types, Plain, Ordered, DeleteApplication
    PROVE  Ordered'
<1>1. UNCHANGED <<mrt, worker, owned, folder>> /\ app' = NoApp
  BY DEF DeleteApplication
<1>. QED
  BY <1>1 DEF Ordered, Gone, Beginning, Creation, Created, Deletion, OwnFolder, Own,
     owned, worker, Clean, Settled

-----------------------------------------------------------------------------
(***************************************************************************)
(* The theorems                                                            *)
(***************************************************************************)

LEMMA InvInit == Init => IInv
  BY TypesInit, PlainInit, OrderedInit DEF IInv, Plain, Smooth

\* No step leads out of the invariant, and order once lost is not regained.
LEMMA InvStep ==
    ASSUME IInv, [Next]_vars
    PROVE  IInv'
<1>1. Types /\ Plain /\ (smooth => Ordered)
  BY DEF IInv, Plain, Smooth
<1>2. CASE UNCHANGED vars
  BY <1>2 DEF vars, worker, owned, outside, past, IInv, Types, Numbers, Existence, Foreign, Smooth,
     Ordered, Gone, Beginning, Creation, Created, Deletion, Clean, Settled, Own, OwnFolder
<1>3. CASE ReconcileTemplate
  <2>1. smooth' = smooth
    BY <1>3 DEF ReconcileTemplate, LockTimeout, AcquireLock, SaveArgoCDTargetRevision,
       CheckGovernancePathEmpty, CreateClusterResources, ApplicationNotFound, CreateChild, CreateQueue,
       SaveQueueRef, Finalizing, ReleaseLock, StartDelete, RestoreArgoCD, RemoveGovernanceFolder,
       RemoveFinalizer, past
  <2>. QED
    BY <1>1, <1>3, <2>1, TypesTemplate, PlainTemplate, OrderedTemplate DEF IInv, Plain, Smooth
<1>4. ASSUME NEW k \in Kinds, ReconcileChild(k)
      PROVE  IInv'
  <2>1. smooth' = smooth
    BY <1>4 DEF ReconcileChild, StartPush, StartUpdateArgoCD, StartCall, Push, UpdateArgoCD, EndCall,
       SetChildFinalizer, RemoveChildFinalizer, past
  <2>. QED
    BY <1>1, <1>4, <2>1, TypesChild, PlainChild, OrderedChild DEF IInv, Plain, Smooth
<1>5. CASE CollectGarbage
  <2>1. smooth' = smooth
    BY <1>5 DEF CollectGarbage, past
  <2>. QED
    BY <1>1, <1>5, <2>1, TypesGarbage, PlainGarbage, OrderedCleaning DEF IInv, Plain, Smooth
<1>6. CASE Environment
  <2>1. Smooth'
    <3>1. CASE CreateTemplate
      BY <1>1, <3>1, OrderedCreateTemplate DEF CreateTemplate, Smooth, Types
    <3>2. CASE DeleteTemplate
      BY <1>1, <3>2, OrderedDeleteTemplate DEF DeleteTemplate, Smooth, Types
    <3>3. CASE Approve
      BY <1>1, <3>3, OrderedApprove DEF Approve, Smooth, Types
    <3>4. CASE RemoveFolderFails
      BY <3>4 DEF RemoveFolderFails, Smooth
    <3>5. CASE CallFails
      BY <1>1, <3>5, OrderedCallFails DEF CallFails, Smooth
    <3>6. CASE Crash
      BY <1>1, <3>6, OrderedCrash DEF Crash, Smooth
    <3>7. CASE DeleteApplication
      BY <1>1, <3>7, OrderedDeleteApplication DEF DeleteApplication, Smooth
    <3>. QED
      BY <1>6, <3>1, <3>2, <3>3, <3>4, <3>5, <3>6, <3>7 DEF Environment
  <2>. QED
    BY <1>1, <1>6, <2>1, TypesEnvironment, PlainEnvironment DEF IInv, Plain
<1>. QED
  BY <1>2, <1>3, <1>4, <1>5, <1>6 DEF Next

\* The inductive invariant holds in every state.
THEOREM InvariantHolds == Spec => []IInv
  BY InvInit, InvStep, PTL DEF Spec

\* Every variable has its type.
THEOREM TypeCorrect == Spec => []TypeOK
<1>1. ASSUME IInv
      PROVE  TypeOK
  <2>. USE <1>1 DEF IInv
  <2>1. templates \in 0 .. MaxTurns + 1 /\ turns \in 0 .. MaxTurns
    BY RevisionNumbers DEF Types, Numbers
  <2>2. mrt.gen \in 0 .. templates /\ mine \in 0 .. templates
    BY DEF Types, Numbers, MRTs
  <2>3. mrt.action \in Initialising /\ mrt.init \in Revisions \union {NoApp}
    BY DEF Types, MRTs
  <2>4. /\ mrt.deleting => mrt.finalizer
        /\ fresh => pc # "idle" /\ mine = mrt.gen
    BY DEF Existence
  <2>5. pc \in Initialising \union
            {"idle", "msr", "mca", "queue", "saveRef", "release", "fail",
             "restore", "empty", "unfinalize"}
    BY DEF Types, PCs, Creating
  <2>6. \A k \in Kinds :
            /\ children[k].stage \in {"push", "application", "finalizer", "ready"}
            /\ busy[k].call \in {"idle", "push", "application"}
    BY DEF Types, Children, Stages, Calls
  <2>. QED
    BY <2>1, <2>2, <2>3, <2>4, <2>5, <2>6 DEF TypeOK, Types
<1>. QED
  BY <1>1, InvariantHolds, PTL

\* What deletion restores was read before governance began.
THEOREM SavedRevisionCorrect == Spec => []SavedRevisionIsInitial
<1>1. IInv => SavedRevisionIsInitial
  BY DEF IInv, Smooth, Ordered, SavedRevisionIsInitial
<1>. QED
  BY <1>1, InvariantHolds, PTL

\* An initialised MRT has its MSR, its MCA and its queue.
THEOREM InitialisedCorrect == Spec => []InitialisedIsComplete
<1>1. IInv => InitialisedIsComplete
  BY DEF IInv, Existence, Smooth, Ordered, Created, Own, InitialisedIsComplete
<1>. QED
  BY <1>1, InvariantHolds, PTL

\* A governance folder holds files of one MRT only, and what it held before unless
\* the check of the folder can read that.
THEOREM FolderCorrect == Spec => []FolderIsItsOwn
<1>1. ASSUME IInv
      PROVE  FolderIsItsOwn
  <2>. DEFINE mrts == {f[2] : f \in folder \ FoundFiles}
  <2>1. AlienFile \in folder => folder \subseteq FoundFiles
    BY <1>1 DEF IInv, Foreign
  <2>2. ASSUME smooth
        PROVE  Cardinality(mrts) <= 1
    <3>1. mrts \subseteq {mrt.gen}
      <4>1. mrt.action \in Initialising
        BY <1>1 DEF IInv, Types, MRTs
      <4>2. Clean \/ OwnFolder
        BY <1>1, <2>2, <4>1 DEF IInv, Smooth, Ordered, Gone, Beginning, Creation, Created, Initialising
      <4>3. Clean => mrts = {}
        BY DEF Clean
      <4>4. OwnFolder => mrts \subseteq {mrt.gen}
        BY DEF OwnFolder, FoundFiles
      <4>. QED
        BY <4>2, <4>3, <4>4
    <3>2. IsFiniteSet({mrt.gen}) /\ Cardinality({mrt.gen}) = 1
      BY FS_Singleton
    <3>3. Cardinality(mrts) <= Cardinality({mrt.gen})
      BY <3>1, <3>2, FS_Subset
    <3>. QED
      BY <3>2, <3>3
  <2>. QED
    BY <2>1, <2>2 DEF FolderIsItsOwn
<1>. QED
  BY <1>1, InvariantHolds, PTL

\* Deletion undoes what governance did to the Application and the folder.
THEOREM StopCorrect == Spec => []StopCleansUp
<1>1. IInv => StopCleansUp
  BY DEF IInv, Smooth, Ordered, Gone, Clean, Stopped, StopCleansUp
<1>. QED
  BY <1>1, InvariantHolds, PTL
=============================================================================
