-------------------------- MODULE TemplateLifecycle --------------------------
(***************************************************************************)
(* The life of a ManifestRequestTemplate (MRT), before and after the       *)
(* normal path that RevisionQueue models: reconcileCreate and              *)
(* reconcileDelete of manifestrequesttemplate_controller.go, together with *)
(* the first steps of the MSR and the MCA it creates, which push to the    *)
(* same governance folder and set the same Argo CD Application.            *)
(*                                                                         *)
(* An MRT is initialised in four locked steps, of which the last sets its  *)
(* finalizer.  Once it is deleted, its controller puts the Application     *)
(* back, empties the governance folder and takes the finalizer off, while  *)
(* the MSR and MCA controllers go on until the garbage collector marks     *)
(* what the MRT owned.  An MRT may be created again under the same name.   *)
(*                                                                         *)
(* A target revision is 1 before governance, or 2 + the version of the MCA *)
(* that set it; 0 stands for none.  A governance file is <<whose,          *)
(* generation of the MRT>>; files found there have generation 0.           *)
(***************************************************************************)
EXTENDS Naturals, FiniteSets

CONSTANTS
    DeletedBy,      \* "anyone" at any time, or "sync": Argo CD, once it syncs
                    \* an approved commit without the MRT's manifest
    MaxTurns        \* bound: approvals after version 0, MRTs after the first,
                    \* restarts, failed calls and a deleted Application, in all

ASSUME BoundAssumption ==
    DeletedBy \in {"anyone", "sync"} /\ MaxTurns \in Nat

VARIABLES
    mrt,        \* the stored MRT
    pc,         \* the next call of its worker, "idle" outside Reconcile
    mine,       \* generation of the MRT in its hands
    fresh,      \* its copy is what is stored
    seen,       \* target revision the worker read from the Application
    children,   \* the stored MSR and MCA
    busy,       \* the call a child's worker is in, and the object in its hands
    queue,      \* generation of the MRT that owns the queue, 0 without one
    app,        \* target revision of the Application
    folder,     \* files in the governance folder of the repository
    templates,  \* MRTs created so far
    turns,      \* bounded events so far
    smooth      \* no deletion, creation or approval came amid another

worker == <<pc, mine, fresh, seen>>
owned == <<children, busy, queue>>
outside == <<app, folder>>
past == <<templates, turns, smooth>>
vars == <<mrt, worker, owned, outside, past>>

-----------------------------------------------------------------------------

Kinds == {"msr", "mca"}
NoApp == 0
Initial == 1
Revisions == Initial .. MaxTurns + 2

\* States of the initialisation, in order; an initialised MRT is back at "Empty".
Initialising == {"Empty", "SaveRevision", "CheckFolder", "CreateResources", "SetFinalizer"}

NoMRT == [gen |-> 0, action |-> "Empty", progressing |-> FALSE, finalizer |-> FALSE,
          deleting |-> FALSE, init |-> NoApp, queueRef |-> FALSE]
NoChild == [gen |-> 0, stage |-> "ready", version |-> 0, finalizer |-> FALSE,
            deleting |-> FALSE]
NewMRT(g) == [NoMRT EXCEPT !.gen = g]
NewChild(g) == [NoChild EXCEPT !.gen = g, !.stage = "push"]

Exists(object) == object.gen # 0

\* What the MCA sets the Application to.
Approved(mca) == 2 + mca.version

\* Files that were there before any governance: one that can be unmarshalled into
\* the metadata of an object, and one that cannot, such as a text or a picture.
AlienFile == <<"object", 0>>
AlienText == <<"text", 0>>
FoundFiles == {AlienFile, AlienText}

Init ==
    /\ mrt = NoMRT
    /\ pc = "idle" /\ mine = 0 /\ fresh = FALSE /\ seen = NoApp
    /\ children = [k \in Kinds |-> NoChild]
    /\ busy = [k \in Kinds |-> [call |-> "idle", object |-> NoChild, seen |-> NoApp]]
    /\ queue = 0
    /\ app = Initial
    /\ folder \in SUBSET FoundFiles
    /\ templates = 0
    /\ turns = 0
    /\ smooth = TRUE

Turn == turns < MaxTurns /\ turns' = turns + 1
Mishap == Turn /\ UNCHANGED templates

\* Mutant: the next Reconcile goes on with the copy of the last.
KeepsCopy == pc' = "idle" /\ mine' = 0 /\ seen' = NoApp /\ UNCHANGED fresh

Return == pc' = "idle" /\ mine' = 0 /\ fresh' = FALSE /\ seen' = NoApp

\* A write of the worker's copy; it conflicts with whatever was written since.
Write(m) ==
    /\ fresh
    /\ mrt' = m
    /\ UNCHANGED <<mine, fresh, seen>>

(***************************************************************************)
(* Reconcile, before anything else                                         *)
(***************************************************************************)

\* Mutant: a lock that was never released stays.
NoTimeout == FALSE /\ UNCHANGED vars

\* isLockForMoreThan(30s)
LockTimeout ==
    /\ pc = "idle"
    /\ mrt.progressing
    /\ mrt' = [mrt EXCEPT !.progressing = FALSE]
    /\ UNCHANGED <<worker, owned, outside, past>>

(***************************************************************************)
(* reconcileCreate                                                         *)
(***************************************************************************)

\* Mutant: the initial revision is saved once the MCA exists.
SavesLast(action) ==
    CASE action = "Empty" -> "CheckFolder"
      [] action = "CheckFolder" -> "CreateResources"
      [] action = "CreateResources" -> "SaveRevision"
      [] action = "SaveRevision" -> "SetFinalizer"
      [] OTHER -> "Empty"

Following(action) ==
    CASE action = "Empty" -> "SaveRevision"
      [] action = "SaveRevision" -> "CheckFolder"
      [] action = "CheckFolder" -> "CreateResources"
      [] action = "CreateResources" -> "SetFinalizer"
      [] OTHER -> "Empty"

\* acquireLock of withLock, in the state the MRT is in.
AcquireLock ==
    LET state == IF mrt.action = "Empty" THEN Following("Empty") ELSE mrt.action IN
    /\ pc = "idle"
    /\ Exists(mrt) /\ ~mrt.deleting /\ ~mrt.finalizer
    /\ ~(mrt.progressing /\ mrt.action = state)
    /\ mrt' = [mrt EXCEPT !.action = state, !.progressing = TRUE]
    /\ mine' = mrt.gen /\ fresh' = TRUE
    /\ pc' = IF state = "CreateResources" THEN "msr" ELSE state
    /\ UNCHANGED <<seen, owned, outside, past>>

\* Neither the handler nor the lock gets any further than the copy it holds.
HandlerFails ==
    /\ pc' = "fail"
    /\ UNCHANGED <<mrt, mine, fresh, seen>>

SaveArgoCDTargetRevision ==
    /\ pc = "SaveRevision"
    /\ \/ app # NoApp /\ Write([mrt EXCEPT !.init = app]) /\ pc' = "release"
       \/ (app = NoApp \/ ~fresh) /\ HandlerFails
    /\ UNCHANGED <<owned, outside, past>>

\* Mutant: any folder will do.
AnyFolder == TRUE

\* GetChangedFiles passes over what it cannot unmarshal.
ChangedFiles == folder \ {AlienText}

GovernancePathEmpty == ChangedFiles = {}

CheckGovernancePathEmpty ==
    /\ pc = "CheckFolder"
    /\ \/ GovernancePathEmpty /\ pc' = "release" /\ UNCHANGED <<mrt, mine, fresh, seen>>
       \/ ~GovernancePathEmpty /\ HandlerFails
    /\ UNCHANGED <<owned, outside, past>>

\* createLinkedDefaultResources begins with the Application.
ApplicationNotFound ==
    /\ pc = "msr"
    /\ app = NoApp
    /\ HandlerFails
    /\ UNCHANGED <<owned, outside, past>>

\* Create; an object of that name that exists already is taken for the new one.
CreateChild(k, next) ==
    /\ pc = k
    /\ k = "msr" => app # NoApp
    /\ pc' = next
    /\ children' = [children EXCEPT ![k] = IF Exists(@) THEN @ ELSE NewChild(mine)]
    /\ UNCHANGED <<mrt, mine, fresh, seen, busy, queue, outside, past>>

CreateQueue ==
    /\ pc = "queue"
    /\ pc' = "saveRef"
    /\ queue' = IF queue = 0 THEN mine ELSE queue
    /\ UNCHANGED <<mrt, mine, fresh, seen, children, busy, outside, past>>

SaveQueueRef ==
    /\ pc = "saveRef"
    /\ \/ Write([mrt EXCEPT !.queueRef = TRUE]) /\ pc' = "release"
       \/ ~fresh /\ HandlerFails
    /\ UNCHANGED <<owned, outside, past>>

CreateClusterResources ==
    \/ ApplicationNotFound
    \/ CreateChild("msr", "mca")
    \/ CreateChild("mca", "queue")
    \/ CreateQueue
    \/ SaveQueueRef

Finalizing ==
    /\ pc = "SetFinalizer"
    /\ \/ Write([mrt EXCEPT !.finalizer = TRUE]) /\ pc' = "release"
       \/ ~fresh /\ HandlerFails
    /\ UNCHANGED <<owned, outside, past>>

\* Mutant: a handler that failed hands on to the next state as well.
HandsOnAlways ==
    /\ pc \in {"release", "fail"}
    /\ mrt' = IF ~fresh THEN mrt
              ELSE [mrt EXCEPT !.progressing = FALSE, !.action = Following(@)]
    /\ Return
    /\ UNCHANGED <<owned, outside, past>>

\* A lock that cannot be released is left to the timeout.
ReleaseLock ==
    /\ pc \in {"release", "fail"}
    /\ mrt' = IF ~fresh THEN mrt
              ELSE [mrt EXCEPT !.progressing = FALSE,
                       !.action = IF pc = "release" THEN Following(@) ELSE @]
    /\ Return
    /\ UNCHANGED <<owned, outside, past>>

(***************************************************************************)
(* reconcileDelete, which takes no lock                                    *)
(***************************************************************************)

\* Mutant: deletion waits for the MRT to be at rest.
MayDeleteAtRest == mrt.deleting /\ mrt.finalizer /\ mrt.action = "Empty"

MayDelete == mrt.deleting /\ mrt.finalizer

StartDelete ==
    /\ pc = "idle"
    /\ MayDelete
    /\ app # NoApp
    /\ seen' = app
    /\ mine' = mrt.gen /\ fresh' = TRUE
    /\ pc' = "restore"
    /\ UNCHANGED <<mrt, owned, outside, past>>

\* Mutant: the Application stays at the approved revision.
KeepsApplication ==
    /\ pc = "restore"
    /\ pc' = "empty"
    /\ UNCHANGED <<mrt, mine, fresh, seen, owned, outside, past>>

\* A merge patch: it holds the revision only if that differs from the one read.
RestoreArgoCD ==
    /\ pc = "restore"
    /\ \/ /\ app # NoApp
          /\ app' = IF seen = mrt.init THEN app ELSE mrt.init
          /\ pc' = "empty"
          /\ UNCHANGED <<mine, fresh, seen>>
       \/ app = NoApp /\ Return /\ UNCHANGED app
    /\ UNCHANGED <<mrt, owned, folder, past>>

RemoveGovernanceFolder ==
    /\ pc = "empty"
    /\ folder' = {}
    /\ pc' = "unfinalize"
    /\ UNCHANGED <<mrt, mine, fresh, seen, owned, app, past>>

\* Only logged.
RemoveFolderFails ==
    /\ pc = "empty"
    /\ Mishap
    /\ pc' = "unfinalize"
    /\ smooth' = FALSE
    /\ UNCHANGED <<mrt, mine, fresh, seen, owned, outside>>

RemoveFinalizer ==
    /\ pc = "unfinalize"
    /\ fresh
    /\ mrt' = NoMRT
    /\ Return
    /\ UNCHANGED <<owned, outside, past>>

(***************************************************************************)
(* The MSR and the MCA                                                     *)
(***************************************************************************)

Idle == [call |-> "idle", object |-> NoChild, seen |-> NoApp]

\* getExistingMRT finds the MRT by its name, of whichever generation.
StartCall(k, call, read) ==
    /\ busy[k].call = "idle"
    /\ Exists(children[k]) /\ ~children[k].deleting
    /\ children[k].stage = call
    /\ Exists(mrt)
    /\ busy' = [busy EXCEPT ![k] = [call |-> call, object |-> children[k], seen |-> read]]
    /\ UNCHANGED <<mrt, worker, children, queue, outside, past>>

StartPush(k) == StartCall(k, "push", NoApp)
StartUpdateArgoCD == app # NoApp /\ StartCall("mca", "application", app)

\* The last states of a new version and of a new object differ.
After(k, object) ==
    CASE object.stage = "push" -> IF k = "mca" THEN "application" ELSE "finalizer"
      [] object.stage = "application" -> IF object.finalizer THEN "ready" ELSE "finalizer"
      [] OTHER -> "ready"

NothingToUpdate(k) == busy[k].call = "application" /\ app = NoApp

\* The lock of the child is released into the next state, unless the object was
\* written since or the call fails: then the step is done again.
EndCall(k) ==
    /\ busy' = [busy EXCEPT ![k] = Idle]
    /\ \/ /\ ~NothingToUpdate(k)
          /\ children' = IF children[k] # busy[k].object THEN children
                         ELSE [children EXCEPT ![k].stage = After(k, children[k])]
          /\ UNCHANGED <<templates, turns>>
       \/ NothingToUpdate(k) /\ UNCHANGED <<children, templates, turns>>
       \/ Mishap /\ UNCHANGED children
    /\ UNCHANGED <<mrt, worker, queue, smooth>>

Push(k) ==
    /\ busy[k].call = "push"
    /\ folder' = folder \union {<<k, busy[k].object.gen>>}
    /\ EndCall(k)
    /\ UNCHANGED app

UpdateArgoCD ==
    /\ busy["mca"].call = "application"
    /\ app' = IF app = NoApp \/ busy["mca"].seen = Approved(busy["mca"].object)
              THEN app ELSE Approved(busy["mca"].object)
    /\ EndCall("mca")
    /\ UNCHANGED folder

SetChildFinalizer(k) ==
    /\ busy[k].call = "idle"
    /\ Exists(children[k]) /\ ~children[k].deleting
    /\ children[k].stage = "finalizer"
    /\ Exists(mrt)
    /\ children' = [children EXCEPT ![k].finalizer = TRUE, ![k].stage = "ready"]
    /\ UNCHANGED <<mrt, worker, busy, queue, outside, past>>

\* reconcileDelete of the MSR and of the MCA.
RemoveChildFinalizer(k) ==
    /\ busy[k].call = "idle"
    /\ children[k].deleting
    /\ children' = [children EXCEPT ![k] = NoChild]
    /\ UNCHANGED <<mrt, worker, busy, queue, outside, past>>

\* A quorum: the MSR controller writes the next version into the MCA.
Approve ==
    /\ Exists(mrt) /\ mrt.finalizer
    /\ Exists(children["msr"]) /\ children["msr"].stage = "ready"
    /\ children["mca"].finalizer /\ children["mca"].stage = "ready"
    /\ ~children["mca"].deleting
    /\ Turn
    /\ children' = [children EXCEPT !["mca"].version = @ + 1, !["mca"].stage = "push"]
    /\ smooth' = (smooth /\ ~mrt.deleting)
    /\ UNCHANGED <<mrt, worker, busy, queue, outside, templates>>

(***************************************************************************)
(* The environment                                                         *)
(***************************************************************************)

\* Nothing is left of an earlier MRT, and nothing of it is under way.
Stopped ==
    /\ ~Exists(mrt) /\ pc = "idle"
    /\ \A k \in Kinds : ~Exists(children[k]) /\ busy[k] = Idle
    /\ queue = 0

CreateTemplate ==
    /\ ~Exists(mrt)
    /\ templates' = templates + 1
    /\ \/ templates = 0 /\ UNCHANGED turns
       \/ Turn
    /\ mrt' = NewMRT(templates')
    /\ smooth' = (smooth /\ Stopped)
    /\ UNCHANGED <<worker, owned, outside>>

\* The MRT and what it created are initialised, no version is on its way, and no
\* worker is in the middle of a call.
AtRest ==
    /\ pc = "idle" /\ mrt.finalizer
    /\ \A k \in Kinds : children[k].stage = "ready" /\ busy[k] = Idle

DeleteTemplate ==
    /\ Exists(mrt) /\ ~mrt.deleting
    /\ DeletedBy = "sync" => mrt.finalizer /\ app > Approved(NoChild)
    /\ mrt' = IF mrt.finalizer THEN [mrt EXCEPT !.deleting = TRUE] ELSE NoMRT
    /\ fresh' = FALSE
    /\ smooth' = (smooth /\ AtRest)
    /\ UNCHANGED <<pc, mine, seen, owned, outside, templates, turns>>

Orphan(object) == Exists(object) /\ object.gen # mrt.gen

\* The garbage collector.
CollectGarbage ==
    /\ \/ \E k \in Kinds :
           /\ Orphan(children[k]) /\ ~children[k].deleting
           /\ children' = [children EXCEPT ![k] =
                              IF @.finalizer THEN [@ EXCEPT !.deleting = TRUE] ELSE NoChild]
           /\ UNCHANGED queue
       \/ /\ queue \notin {0, mrt.gen}
          /\ queue' = 0
          /\ UNCHANGED children
    /\ UNCHANGED <<mrt, worker, busy, outside, past>>

\* Any call of the MRT's worker fails, and nothing has changed.
CallFails ==
    /\ pc \notin {"idle", "fail", "empty"}
    /\ Mishap
    /\ \/ pc \in {"release", "restore", "unfinalize"} /\ Return /\ UNCHANGED mrt
       \/ pc \notin {"release", "restore", "unfinalize"} /\ HandlerFails
    /\ UNCHANGED <<owned, outside, smooth>>

Crash ==
    /\ Mishap
    /\ Return
    /\ busy' = [k \in Kinds |-> Idle]
    /\ UNCHANGED <<mrt, children, queue, outside, smooth>>

DeleteApplication ==
    /\ app # NoApp
    /\ Mishap
    /\ app' = NoApp
    /\ UNCHANGED <<mrt, worker, owned, folder, smooth>>

-----------------------------------------------------------------------------

ReconcileTemplate ==
    \/ LockTimeout \/ AcquireLock
    \/ SaveArgoCDTargetRevision \/ CheckGovernancePathEmpty
    \/ CreateClusterResources \/ Finalizing \/ ReleaseLock
    \/ StartDelete \/ RestoreArgoCD \/ RemoveGovernanceFolder \/ RemoveFinalizer

ReconcileChild(k) ==
    \/ StartPush(k) \/ Push(k) \/ SetChildFinalizer(k) \/ RemoveChildFinalizer(k)
    \/ k = "mca" /\ (StartUpdateArgoCD \/ UpdateArgoCD)

Environment ==
    \/ CreateTemplate \/ DeleteTemplate \/ Approve
    \/ RemoveFolderFails \/ CallFails \/ Crash \/ DeleteApplication

Next ==
    \/ ReconcileTemplate
    \/ \E k \in Kinds : ReconcileChild(k)
    \/ CollectGarbage
    \/ Environment

Spec == Init /\ [][Next]_vars

\* Controllers and garbage collector keep working; users owe nothing.
Fairness ==
    /\ WF_vars(ReconcileTemplate)
    /\ \A k \in Kinds : WF_vars(ReconcileChild(k))
    /\ WF_vars(CollectGarbage)
FairSpec == Spec /\ Fairness

-----------------------------------------------------------------------------
(***************************************************************************)
(* Properties                                                              *)
(***************************************************************************)

\* Every variable has its type.
TypeOK ==
    /\ templates \in 0 .. MaxTurns + 1 /\ turns \in 0 .. MaxTurns
    /\ mrt.gen \in 0 .. templates /\ mine \in 0 .. templates
    /\ mrt.action \in Initialising /\ mrt.init \in Revisions \union {NoApp}
    /\ mrt.deleting => mrt.finalizer
    /\ pc \in Initialising \union
           {"idle", "msr", "mca", "queue", "saveRef", "release", "fail",
            "restore", "empty", "unfinalize"}
    /\ fresh => pc # "idle" /\ mine = mrt.gen
    /\ app \in Revisions \union {NoApp} /\ seen \in Revisions \union {NoApp}
    /\ \A k \in Kinds :
           /\ children[k].stage \in {"push", "application", "finalizer", "ready"}
           /\ busy[k].call \in {"idle", "push", "application"}
    /\ queue \in 0 .. templates
    /\ folder \subseteq (Kinds \X (1 .. templates)) \union FoundFiles

\* What deletion restores was read before governance began: no retry of a step
\* after a restart, a failed call or a lost lock saves a revision that an MCA set.
SavedRevisionIsInitial ==
    smooth /\ mrt.init # NoApp => mrt.init = Initial

\* An initialised MRT has all it needs, from whichever of its calls the creation
\* had to be taken up again.
InitialisedIsComplete ==
    smooth /\ mrt.finalizer =>
        /\ mrt.queueRef /\ queue = mrt.gen
        /\ \A k \in Kinds : children[k].gen = mrt.gen

\* Governance writes its files neither beside those of another MRT, unless that one
\* was not gone when it was created, nor beside a file it found, unless that is one
\* the check of the folder passes over: kubernetes/README.md forbids "any existing
\* files in it".
FolderIsItsOwn ==
    /\ AlienFile \in folder => folder \subseteq FoundFiles
    /\ smooth => Cardinality({f[2] : f \in folder \ FoundFiles}) <= 1

\* Once an MRT and all it owned are gone, the Application is back at its revision
\* and no file of it is left, through restarts and failed calls, if the deletion found
\* everything at rest and the folder could be removed.
StopCleansUp ==
    smooth /\ Stopped => app \in {Initial, NoApp} /\ folder \subseteq FoundFiles

\* kubernetes/README.md: the target revision "will be rolled back to the value
\* before governance has started".
RolledBack == Stopped => app \in {Initial, NoApp}

\* Initialisation comes to its end, through restarts and failed calls, for an MRT
\* that is left alone, with an Application and a folder that holds nothing, or
\* nothing but files that are no objects.
CreationCompletes == \A g \in 1 .. MaxTurns + 1 :
    mrt.gen = g ~> \/ mrt.finalizer \/ mrt.gen # g
                   \/ app = NoApp
                   \/ \E f \in folder \ {AlienText} : f[2] # g

\* So does deletion, as long as there is an Application; and nothing the MRT owned
\* stays behind.
DeletionCompletes ==
    /\ mrt.deleting ~> (~mrt.deleting \/ app = NoApp)
    /\ ~Exists(mrt) ~> (Stopped \/ Exists(mrt))
=============================================================================
