------------------------ MODULE SignatureVerification ------------------------
(***************************************************************************)
(* GetVerifiedSigners (pkg/validation/msr/governor.go): which governors    *)
(* have signed a request, given the signature files found for it.  The     *)
(* MSR controller and the CLI call it.  A signature is the key that made   *)
(* it.                                                                     *)
(***************************************************************************)
EXTENDS Integers, FiniteSets, SequencesExt

CONSTANTS
    Governors,      \* aliases of the members of the board
    Keys,           \* PGP keys
    Malformed,      \* a public key that cannot be parsed
    MaxSignatures   \* bound: signature files of a version

ASSUME BoardAssumption == IsFiniteSet(Governors)
ASSUME KeyAssumption == Malformed \notin Keys
ASSUME BoundAssumption == MaxSignatures \in Nat

VARIABLES
    keyOf,      \* publicKey of every member of the board
    signatures, \* signature files that are left to be verified
    given,      \* those of the start
    verified    \* status of every alias
vars == <<keyOf, signatures, given, verified>>

-----------------------------------------------------------------------------

NoGovernorsKey == "foreign"

\* Aliases with a malformed public key are out before the first signature.
Init ==
    /\ keyOf \in [Governors -> Keys \cup {Malformed}]
    /\ given \in SeqOf(Keys \cup {NoGovernorsKey}, MaxSignatures)
    /\ signatures = given
    /\ verified = [g \in Governors |-> IF keyOf[g] = Malformed
                                       THEN "MalformedPublicKey" ELSE "Pending"]

Candidates(key) == {g \in Governors : verified[g] = "Pending" /\ keyOf[g] = key}

\* Mutant: the signature counts for every governor with its key.
VerifyForAll ==
    /\ signatures # <<>>
    /\ signatures' = Tail(signatures)
    /\ verified' = [g \in Governors |->
                       IF g \in Candidates(Head(signatures)) THEN "Signed"
                                                             ELSE verified[g]]
    /\ UNCHANGED <<keyOf, given>>

\* A signature counts for one pending alias with its key; the aliases are tried in
\* the order of a map, which is any order.
VerifySignature ==
    /\ signatures # <<>>
    /\ signatures' = Tail(signatures)
    /\ IF Candidates(Head(signatures)) = {} THEN UNCHANGED verified
       ELSE \E g \in Candidates(Head(signatures)) :
                verified' = [verified EXCEPT ![g] = "Signed"]
    /\ UNCHANGED <<keyOf, given>>

Spec == Init /\ [][VerifySignature]_vars

Signers == {g \in Governors : verified[g] = "Signed"}

-----------------------------------------------------------------------------

\* What the property counts for a key: its holders, the signatures by it that were
\* looked at, and those of its holders who have signed.
Holders(key) == {g \in Governors : keyOf[g] = key}
Done == Len(given) - Len(signatures)
MadeBy(key) == {i \in 1 .. Done : given[i] = key}

\* For every key, as many of its governors have signed as there are signatures by it,
\* up to all of them: a governor with a key of his own is never passed over, whatever
\* the order of files and aliases, and one signature never counts twice.
EverySignatureCountsOnce ==
    \A key \in Keys :
        LET made == Cardinality(MadeBy(key))
            all == Cardinality(Holders(key))
        IN Cardinality(Holders(key) \cap Signers) = IF made < all THEN made ELSE all
=============================================================================
