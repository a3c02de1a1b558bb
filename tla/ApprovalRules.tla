--------------------------- MODULE ApprovalRules ---------------------------
(***************************************************************************)
(* Who has approved: the evaluation of the approval rule over the          *)
(* verified signers (pkg/validation/governor.go), and the admission of     *)
(* rules by the MRT's schema and webhook                                   *)
(* (manifestrequesttemplate_webhook.go).  The MSR controller and the CLI   *)
(* evaluate the rule of a request after they verified its signatures.      *)
(*                                                                         *)
(* A rule is a tree; the optional fields all and atLeast are sets of at    *)
(* most one value.  Operators on rules are recursive functions over Rules. *)
(***************************************************************************)
EXTENDS SignatureVerification

NoSigner == ""

CONSTANTS
    Rules,      \* the rules to look at, and the rules they are made of
    Depth       \* Depth[r]: how deep the groups of r nest

\* Rules come out of a manifest, so they are finite trees.
ASSUME RulesAssumption ==
    /\ Depth \in [Rules -> Nat]
    /\ \A r \in Rules :
           /\ r.all \in {{}, {TRUE}, {FALSE}}
           /\ \A n, m \in r.atLeast : n \in Int /\ n = m
           /\ r.require \in Seq(Rules)
           /\ \A i \in DOMAIN r.require : Depth[r.require[i]] < Depth[r]
ASSUME AliasAssumption == NoSigner \notin Governors

VARIABLE rule       \* msr.spec.require

-----------------------------------------------------------------------------
(***************************************************************************)
(* Rules                                                                   *)
(***************************************************************************)

Leaf(alias) == [signer |-> alias, all |-> {}, atLeast |-> {}, require |-> <<>>]
Group(all, atLeast, require) ==
    [signer |-> NoSigner, all |-> all, atLeast |-> atLeast, require |-> require]

\* Mutant: more children may be asked for than there are.
NodeIsValidUnreachable(r) ==
    /\ r.require # <<>> => r.atLeast # {} \/ r.all # {}
    /\ r.atLeast = {} \/ r.all = {}
    /\ r.signer \in Governors \/ (r.signer = NoSigner /\ r.require # <<>>)

\* approvalRuleValidCheck: not both fields, a signer only in a leaf and only of the
\* board, and a count that the children can reach
NodeIsValid(r) ==
    /\ r.require # <<>> => r.atLeast # {} \/ r.all # {}
    /\ r.atLeast = {} \/ r.all = {}
    /\ r.signer # NoSigner => r.atLeast = {} /\ r.all = {} /\ r.require = <<>>
    /\ IF r.signer # NoSigner
       THEN r.signer \in Governors
       ELSE /\ r.require # <<>>
            /\ \A n \in r.atLeast : n <= Len(r.require)

\* The parts of a rule: itself and what it is made of, however deep.
Parts[r \in Rules] == {r} \cup UNION {Parts[r.require[i]] : i \in DOMAIN r.require}

\* isApprovalRuleValid
TreeIsValid(r) == \A part \in Parts[r] : NodeIsValid(part)

\* The schema's minimum of atLeast stops at the root: nested rules have no schema.
Accepted(r) == TreeIsValid(r) /\ \A n \in r.atLeast : n >= 1

\* Mutant: all: false counts as all: true.
RequiredCountAny(r) == IF r.all # {} THEN {Len(r.require)} ELSE r.atLeast

\* groupRequiredCount: no count for a group that is invalid.
RequiredCount(r) == IF TRUE \in r.all THEN {Len(r.require)} ELSE r.atLeast

\* Mutant: more satisfied children than asked for are too many.
EvaluateExactly(r, signers) ==
    LET satisfied[p \in Rules] ==
            IF p.signer # NoSigner THEN p.signer \in signers
            ELSE \E n \in RequiredCount(p) :
                    n = Cardinality({i \in DOMAIN p.require : satisfied[p.require[i]]})
    IN satisfied[r]

\* evaluateRuleNode, evaluateLeaf and evaluateGroup
Evaluate(r, signers) ==
    LET satisfied[p \in Rules] ==
            IF p.signer # NoSigner THEN p.signer \in signers
            ELSE \E n \in RequiredCount(p) :
                    n <= Cardinality({i \in DOMAIN p.require : satisfied[p.require[i]]})
    IN satisfied[r]

-----------------------------------------------------------------------------

\* The rule of a request, and the verification of its signatures.
RuleInit == rule \in {r \in Rules : Accepted(r)} /\ Init
VerifyForRule == VerifySignature /\ UNCHANGED rule
RuleSpec == RuleInit /\ [][VerifyForRule]_<<vars, rule>>

-----------------------------------------------------------------------------
(***************************************************************************)
(* Properties                                                              *)
(***************************************************************************)

\* How many satisfied children a rule asks for, as the type describes its fields.
Enough(r, n) ==
    IF r.all # {} THEN r.all = {TRUE} /\ n = Len(r.require)
                  ELSE \A least \in r.atLeast : n >= least

\* The sets of governors a rule names as enough: those of enough children, united.
QuorumsOf ==
    LET quorums[r \in Rules] ==
            IF r.signer # NoSigner THEN {{r.signer}}
            ELSE UNION {{UNION Range(pick) : pick \in
                            {p \in [K -> UNION {quorums[r.require[i]] : i \in K}] :
                                \A i \in K : p[i] \in quorums[r.require[i]]}} :
                        K \in {K \in SUBSET (DOMAIN r.require) : Enough(r, Cardinality(K))}}
    IN [r \in Rules |-> quorums[r]]

\* The evaluation of a rule says yes exactly when the governors whose signature was
\* verified include one of the quorums that the rule names (evaluateRuleNode over the
\* nested groups): the rule means a family of quorums, whatever its shape.
EvaluationIsQuorum ==
    Evaluate(rule, Signers) <=> \E Q \in QuorumsOf[rule] : Q \subseteq Signers

\* A further signature never takes a fulfilment back: in the pass over the signatures of
\* a folder, each to the first pending governor with its key, a rule that is fulfilled
\* after some of them is fulfilled after all (GetVerifiedSigners skips what is not pending).
StaysFulfilled == [][Evaluate(rule, Signers) => Evaluate(rule, Signers')]_<<vars, rule>>

\* Some part of the rule says all: false, which the webhook accepts and the
\* evaluation never finds satisfied.
SaysAllFalse(r) == \E part \in Parts[r] : part.all = {FALSE}

\* Some nested count is less than one: the schema's minimum stops at the root and the
\* webhook does not look.
AsksForNobody(r) == \E part \in Parts[r] : \E n \in part.atLeast : n < 1

\* A rule that was accepted can be fulfilled, and not by nobody: when the whole board
\* has signed it is, unless it says all: false somewhere (the webhook's count of
\* reachable signers), and before anybody has it is not, unless it says a count of
\* less than one somewhere (the schema's minimum).
Fulfillable ==
    /\ Signers = Governors /\ ~SaysAllFalse(rule) => Evaluate(rule, Signers)
    /\ Signers = {} /\ ~AsksForNobody(rule) => ~Evaluate(rule, Signers)
=============================================================================
