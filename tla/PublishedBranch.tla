-------------------------- MODULE PublishedBranch --------------------------
(***************************************************************************)
(* What the git provider promises its callers (the comments of             *)
(* GitRepository, kubernetes/internal/repository/manager.go): each call    *)
(* works on the shared branch as if it had it to itself.  A call that      *)
(* succeeds has published one commit, or has read what is published; a     *)
(* call that fails has published nothing, unless its answer was lost.      *)
(* What files a commit has besides the caller's own is left open: a failed *)
(* PushSummaryFile leaves what it wrote to the next commit of its clone.   *)
(*                                                                         *)
(* A clone whose process was stopped in the middle of a write (a scarred   *)
(* clone) promises less: its next push may carry what was left in it, and  *)
(* its readers may see that.                                               *)
(***************************************************************************)
EXTENDS Naturals, FiniteSets, SequencesExt

CONSTANTS
    Governors,  \* each signs with a clone of its own
    Quorum      \* signatures that fulfil the approval rule

Controllers == {"mrt", "msr", "mca"}
Callers == Controllers \union Governors

CloneOf(c) == IF c \in Governors THEN c ELSE "operator"
Clones == {"operator"} \union Governors

\* What a caller does next, in order; the MRT controller polls for good.
Writes == {"request", "approval", "summary", "signature"}
Then == [head |-> "head",
         request |-> "collect", collect |-> "done",
         approval |-> "summary", summary |-> "done",
         latest |-> "diff", diff |-> "signature", signature |-> "done"]
Goals == DOMAIN Then \union {"done", "refused"}
FirstGoal(c) ==
    CASE c = "mrt" -> "head" [] c = "msr" -> "request" [] c = "mca" -> "approval"
      [] OTHER -> "latest"

\* A reconcile that failed is repeated, a command is given anew.
Again(c, w) == IF c \in Governors THEN "latest" ELSE w

FilesIn(b) == UNION {b[i].files : i \in DOMAIN b}
SignersIn(files) == {g \in Governors : <<"signature", g>> \in files}

Requested(files) == <<"request", "msr">> \in files
Fulfilled(files) == Requested(files) /\ Cardinality(SignersIn(files)) >= Quorum

VARIABLES
    branch,     \* the commits of the shared branch, the oldest first
    goal,       \* what each caller does next
    scarred,    \* clones whose process was stopped in the middle of a write
    faults      \* failed calls and lost answers still to come

vars == <<branch, goal, scarred, faults>>

Init ==
    /\ \E m \in [files : {{}}, by : {"developer"}, try : {1}] : branch = <<m>>
    /\ goal = [c \in Callers |-> FirstGoal(c)]
    /\ scarred = {}
    /\ faults \in Nat

\* One commit of c at the end of the branch, with its file; from a scarred clone
\* it may bring along what its clone had left.
Lands(c) ==
    /\ IsStrictPrefix(branch, branch')
    /\ Last(branch').by = c
    /\ <<goal[c], c>> \in Last(branch').files
    /\ \A i \in Len(branch) + 1 .. Len(branch') - 1 :
           /\ CloneOf(c) \in scarred
           /\ CloneOf(branch'[i].by) = CloneOf(c)

Publish(c) ==
    /\ goal[c] \in Writes
    /\ Lands(c)
    /\ goal' = [goal EXCEPT ![c] = Then[@]]
    /\ UNCHANGED <<scarred, faults>>

\* The commit is there, and its caller does not know.
PublishUnanswered(c) ==
    /\ goal[c] \in Writes
    /\ faults > 0
    /\ faults' = faults - 1
    /\ Lands(c)
    /\ goal' = [goal EXCEPT ![c] = Again(c, @)]
    /\ UNCHANGED scarred

\* What a reader learns holds of the branch, as of now or as of before.
Learn(c) ==
    /\ goal[c] \notin Writes \union {"done"}
    /\ \/ /\ goal[c] = "collect" /\ goal'[c] = "done"
          /\ "operator" \notin scarred => Fulfilled(FilesIn(branch))
       \/ /\ goal[c] = "latest" /\ goal'[c] = "refused"
          /\ c \notin scarred => Fulfilled(FilesIn(branch))
       \/ /\ goal[c] = "latest" /\ goal'[c] = "diff"
          /\ c \notin scarred => Requested(FilesIn(branch))
       \/ goal[c] = "diff" /\ goal'[c] = "signature"
    /\ goal' = [goal EXCEPT ![c] = goal'[c]]
    /\ UNCHANGED <<branch, scarred, faults>>

Fail(c) ==
    /\ goal' = [goal EXCEPT ![c] = Again(c, @)]
    /\ faults' \in {faults, faults - 1} \intersect Nat
    /\ UNCHANGED <<branch, scarred>>

\* A process stops: its callers begin again.
Stop(k) ==
    /\ goal' = [c \in Callers |-> IF CloneOf(c) = k /\ goal[c] \notin {"done", "refused"}
                                  THEN Again(c, goal[c]) ELSE goal[c]]
    /\ scarred' \in {scarred, scarred \union {k}}
    /\ UNCHANGED <<branch, faults>>

\* Developers push manifests to the same branch.
Develop ==
    /\ Len(branch') = Len(branch) + 1
    /\ IsPrefix(branch, branch')
    /\ Last(branch').by = "developer"
    /\ UNCHANGED <<goal, scarred, faults>>

Next ==
    \/ \E c \in Callers :
           Publish(c) \/ PublishUnanswered(c) \/ Learn(c) \/ Fail(c)
    \/ \E k \in Clones : Stop(k)
    \/ Develop

Spec == Init /\ [][Next]_vars
=============================================================================
