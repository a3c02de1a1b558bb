------------------------- MODULE ApprovalRulesProofs -------------------------
(***************************************************************************)
(* What SignatureVerification and ApprovalRules guarantee for every board, *)
(* whatever keys its governors have or share, every number of signatures   *)
(* and every rule, however it nests: proofs checked by TLAPS.              *)
(***************************************************************************)
EXTENDS ApprovalRules, SequenceTheorems, FiniteSetTheorems, WellFoundedInduction, TLAPS

-----------------------------------------------------------------------------
(***************************************************************************)
(* The verification of signatures: the inductive invariant                 *)
(***************************************************************************)

TypeOK ==
    /\ keyOf \in [Governors -> Keys \cup {Malformed}]
    /\ given \in Seq(Keys \cup {NoGovernorsKey})
    /\ signatures \in Seq(Keys \cup {NoGovernorsKey})
    /\ verified \in [Governors -> {"Pending", "Signed", "MalformedPublicKey"}]

\* The signatures left are the last ones of those given.
WhatIsLeft ==
    /\ Len(signatures) <= Len(given)
    /\ \A i \in 1 .. Len(signatures) : signatures[i] = given[Done + i]

\* A governor whose key can be parsed is never out.
OnlyMalformedAreOut ==
    \A g \in Governors : verified[g] = "MalformedPublicKey" => keyOf[g] = Malformed

IInv == TypeOK /\ WhatIsLeft /\ OnlyMalformedAreOut /\ EverySignatureCountsOnce

-----------------------------------------------------------------------------
(***************************************************************************)
(* Counting                                                                *)
(***************************************************************************)

\* How many of a key's holders have signed, as the property counts them.
Counted(made, all) == IF made < all THEN made ELSE all

LEMMA HoldersAreFinite ==
    ASSUME NEW key, NEW S
    PROVE  /\ IsFiniteSet(Holders(key)) /\ IsFiniteSet(Holders(key) \cap S)
           /\ Cardinality(Holders(key)) \in Nat /\ Cardinality(Holders(key) \cap S) \in Nat
<1>1. Holders(key) \subseteq Governors /\ Holders(key) \cap S \subseteq Governors
  BY DEF Holders
<1>2. IsFiniteSet(Holders(key)) /\ IsFiniteSet(Holders(key) \cap S)
  BY <1>1, BoardAssumption, FS_Subset DEF BoardAssumption
<1>. QED
  BY <1>2, FS_CardinalityType

LEMMA MadeIsFinite ==
    ASSUME TypeOK, WhatIsLeft, NEW key
    PROVE  /\ IsFiniteSet(MadeBy(key)) /\ Cardinality(MadeBy(key)) \in Nat
           /\ Done \in Nat
<1>1. Len(given) \in Nat /\ Len(signatures) \in Nat
  BY DEF TypeOK
<1>2. Done \in Nat
  BY <1>1 DEF WhatIsLeft, Done
<1>3. IsFiniteSet(1 .. Done)
  BY <1>2, FS_Interval
<1>4. IsFiniteSet(MadeBy(key))
  BY <1>3, FS_Subset DEF MadeBy
<1>. QED
  BY <1>2, <1>4, FS_CardinalityType

-----------------------------------------------------------------------------

\* A sequence of bounded length is a sequence.
LEMMA GivenType ==
    ASSUME NEW S, NEW s \in SeqOf(S, MaxSignatures)
    PROVE  s \in Seq(S)
<1>1. PICK n \in 0 .. MaxSignatures : s \in [1 .. n -> S]
  BY DEF SeqOf
<1>2. n \in Nat
  BY <1>1, BoundAssumption DEF BoundAssumption
<1>. QED
  BY <1>1, <1>2, SeqDef

LEMMA InvInit == Init => IInv
<1>. SUFFICES ASSUME Init PROVE IInv
  OBVIOUS
<1>1. TypeOK
  BY GivenType DEF Init, TypeOK
<1>2. Len(given) \in Nat /\ Done = 0
  BY <1>1 DEF TypeOK, Init, Done
<1>3. WhatIsLeft
  BY <1>2 DEF Init, WhatIsLeft
<1>4. OnlyMalformedAreOut
  BY DEF Init, OnlyMalformedAreOut
<1>5. EverySignatureCountsOnce
  <2>. SUFFICES ASSUME NEW key \in Keys
                PROVE  Cardinality(Holders(key) \cap Signers)
                           = Counted(Cardinality(MadeBy(key)), Cardinality(Holders(key)))
    BY DEF EverySignatureCountsOnce, Counted
  <2>1. MadeBy(key) = {} /\ Holders(key) \cap Signers = {}
    BY <1>2 DEF MadeBy, Signers, Init
  <2>2. Cardinality(MadeBy(key)) = 0 /\ Cardinality(Holders(key) \cap Signers) = 0
    BY <2>1, FS_EmptySet
  <2>. QED
    BY <2>2, HoldersAreFinite DEF Counted
<1>. QED
  BY <1>1, <1>3, <1>4, <1>5 DEF IInv

\* One more signature was looked at: it was made by its own key.
LEMMA LookAtNext ==
    ASSUME TypeOK, WhatIsLeft, VerifySignature
    PROVE  /\ signatures' \in Seq(Keys \cup {NoGovernorsKey}) /\ WhatIsLeft'
           /\ UNCHANGED <<keyOf, given>>
           /\ \A key : MadeBy(key)' = IF key = Head(signatures) THEN MadeBy(key) \cup {Done + 1}
                                                                ELSE MadeBy(key)
           /\ \A key : Done + 1 \notin MadeBy(key)
<1>1. /\ signatures # <<>> /\ signatures' = Tail(signatures) /\ UNCHANGED <<keyOf, given>>
  BY DEF VerifySignature
<1>2. /\ signatures \in Seq(Keys \cup {NoGovernorsKey}) /\ Len(signatures) \in Nat
      /\ Len(signatures) >= 1 /\ Len(given) \in Nat /\ Head(signatures) = signatures[1]
  BY <1>1 DEF TypeOK
<1>3. /\ signatures' \in Seq(Keys \cup {NoGovernorsKey})
      /\ Len(signatures') = Len(signatures) - 1
      /\ \A i \in 1 .. Len(signatures) - 1 : signatures'[i] = signatures[i + 1]
  BY <1>1, <1>2
<1>4. Done' = Done + 1 /\ Done \in Nat
  BY <1>1, <1>2, <1>3 DEF Done, WhatIsLeft
<1>5. WhatIsLeft'
  <2>1. Len(signatures') <= Len(given')
    BY <1>1, <1>2, <1>3 DEF WhatIsLeft
  <2>2. ASSUME NEW i \in 1 .. Len(signatures') PROVE signatures'[i] = given'[Done' + i]
    <3>1. i \in Nat /\ i + 1 \in 1 .. Len(signatures) /\ i \in 1 .. Len(signatures) - 1
      BY <1>2, <1>3
    <3>2. signatures'[i] = given[Done + (i + 1)] /\ Done + (i + 1) = (Done + 1) + i
      BY <1>3, <1>4, <3>1 DEF WhatIsLeft
    <3>. QED
      BY <1>1, <1>4, <3>2
  <2>. QED
    BY <2>1, <2>2 DEF WhatIsLeft, Done
<1>6. given[Done + 1] = Head(signatures)
  BY <1>2 DEF WhatIsLeft
<1>7. 1 .. Done + 1 = (1 .. Done) \cup {Done + 1}
  BY <1>4
<1>8. ASSUME NEW key
      PROVE  MadeBy(key)' = IF key = Head(signatures) THEN MadeBy(key) \cup {Done + 1}
                                                      ELSE MadeBy(key)
  BY <1>1, <1>4, <1>6, <1>7 DEF MadeBy
<1>9. \A key : Done + 1 \notin MadeBy(key)
  BY <1>4 DEF MadeBy
<1>. QED
  BY <1>1, <1>3, <1>5, <1>8, <1>9

\* What a signature does to the holders of a key: one of those that have not signed
\* does, if it is theirs and there is one.
LEMMA SignersOfKey ==
    ASSUME IInv, VerifySignature, NEW key \in Keys
    PROVE  /\ Holders(key)' = Holders(key)
           /\ \/ key # Head(signatures) /\ (Holders(key) \cap Signers)' = Holders(key) \cap Signers
              \/ /\ key = Head(signatures) /\ Holders(key) \subseteq Signers
                 /\ (Holders(key) \cap Signers)' = Holders(key) \cap Signers
              \/ /\ key = Head(signatures)
                 /\ \E g \in Holders(key) \ Signers :
                        (Holders(key) \cap Signers)' = (Holders(key) \cap Signers) \cup {g}
<1>1. UNCHANGED keyOf /\ verified \in [Governors -> {"Pending", "Signed", "MalformedPublicKey"}]
  BY DEF VerifySignature, IInv, TypeOK
<1>2. Holders(key)' = Holders(key)
  BY <1>1 DEF Holders
<1>3. Holders(key) \ Signers = {g \in Governors : verified[g] = "Pending" /\ keyOf[g] = key}
  BY <1>1, KeyAssumption DEF KeyAssumption, Holders, Signers, IInv, OnlyMalformedAreOut
<1>4. CASE Candidates(Head(signatures)) = {}
  <2>1. verified' = verified
    BY <1>4 DEF VerifySignature
  <2>2. (Holders(key) \cap Signers)' = Holders(key) \cap Signers
    BY <1>2, <2>1 DEF Signers
  <2>3. key = Head(signatures) => Holders(key) \subseteq Signers
    BY <1>3, <1>4 DEF Candidates
  <2>. QED
    BY <1>2, <2>2, <2>3
<1>5. CASE Candidates(Head(signatures)) # {}
  <2>1. PICK g \in Candidates(Head(signatures)) : verified' = [verified EXCEPT ![g] = "Signed"]
    BY <1>5 DEF VerifySignature
  <2>2. g \in Governors /\ keyOf[g] = Head(signatures) /\ verified[g] = "Pending"
    BY <2>1 DEF Candidates
  <2>3. Signers' = Signers \cup {g}
    BY <1>1, <2>1, <2>2 DEF Signers
  <2>4. CASE key = Head(signatures)
    <3>1. g \in Holders(key) \ Signers
      BY <1>3, <2>2, <2>4
    <3>. QED
      BY <1>2, <2>3, <2>4, <3>1
  <2>5. CASE key # Head(signatures)
    <3>1. g \notin Holders(key)
      BY <2>2, <2>5 DEF Holders
    <3>. QED
      BY <1>2, <2>3, <2>5, <3>1
  <2>. QED
    BY <2>4, <2>5
<1>. QED
  BY <1>4, <1>5

LEMMA InvNext == IInv /\ [VerifySignature]_vars => IInv'
<1>0. IInv /\ UNCHANGED vars => IInv'
  BY DEF vars, IInv, TypeOK, WhatIsLeft, Done, OnlyMalformedAreOut, EverySignatureCountsOnce,
     Holders, MadeBy, Signers
<1>. SUFFICES ASSUME IInv, VerifySignature PROVE IInv'
  BY <1>0
<1>t. TypeOK /\ WhatIsLeft
  BY DEF IInv
<1>1. WhatIsLeft'
  BY <1>t, LookAtNext
<1>2. verified' \in [Governors -> {"Pending", "Signed", "MalformedPublicKey"}] /\ OnlyMalformedAreOut'
  <2>1. verified \in [Governors -> {"Pending", "Signed", "MalformedPublicKey"}] /\ UNCHANGED keyOf
    BY <1>t DEF TypeOK, VerifySignature
  <2>2. \/ verified' = verified
        \/ \E g \in Governors : verified' = [verified EXCEPT ![g] = "Signed"]
    BY DEF VerifySignature, Candidates
  <2>. QED
    BY <2>1, <2>2 DEF IInv, OnlyMalformedAreOut
<1>3. TypeOK'
  BY <1>t, <1>2, LookAtNext DEF TypeOK
<1>4. EverySignatureCountsOnce'
  <2>. SUFFICES ASSUME NEW key \in Keys
                PROVE  Cardinality(Holders(key) \cap Signers)'
                           = Counted(Cardinality(MadeBy(key))', Cardinality(Holders(key))')
    BY DEF EverySignatureCountsOnce, Counted
  <2>. DEFINE H == Holders(key)
              C == Holders(key) \cap Signers
              M == MadeBy(key)
  <2>1. /\ IsFiniteSet(H) /\ IsFiniteSet(C) /\ IsFiniteSet(M)
        /\ Cardinality(H) \in Nat /\ Cardinality(C) \in Nat /\ Cardinality(M) \in Nat
    BY <1>t, HoldersAreFinite, MadeIsFinite
  <2>2. Cardinality(C) = Counted(Cardinality(M), Cardinality(H))
    BY DEF IInv, EverySignatureCountsOnce, Counted
  <2>3. H' = H
    BY SignersOfKey
  <2>4. CASE key # Head(signatures)
    <3>1. C' = C /\ M' = M
      BY <1>t, <2>4, SignersOfKey, LookAtNext
    <3>. QED
      BY <2>2, <2>3, <3>1
  <2>5. CASE key = Head(signatures)
    <3>1. M' = M \cup {Done + 1} /\ Done + 1 \notin M
      BY <1>t, <2>5, LookAtNext
    <3>2. Cardinality(M') = Cardinality(M) + 1
      BY <2>1, <3>1, FS_AddElement
    <3>3. CASE H \subseteq Signers /\ C' = C
      <4>1. Cardinality(C) = Cardinality(H)
        <5>1. C = H
          BY <3>3
        <5>. QED
          BY <5>1
      <4>2. Counted(Cardinality(M) + 1, Cardinality(H)) = Cardinality(C)
        BY <2>1, <2>2, <4>1 DEF Counted
      <4>. QED
        BY <2>3, <3>2, <3>3, <4>2
    <3>4. CASE \E g \in H \ Signers : C' = C \cup {g}
      <4>1. PICK g \in H \ Signers : C' = C \cup {g}
        BY <3>4
      <4>2. g \notin C /\ C \cup {g} \subseteq H
        OBVIOUS
      <4>3. Cardinality(C \cup {g}) = Cardinality(C) + 1
        BY <2>1, <4>2, FS_AddElement
      <4>4. Cardinality(C \cup {g}) <= Cardinality(H)
        BY <2>1, <4>2, FS_Subset
      <4>5. Counted(Cardinality(M) + 1, Cardinality(H)) = Cardinality(C) + 1
        BY <2>1, <2>2, <4>3, <4>4 DEF Counted
      <4>. QED
        BY <2>3, <3>2, <4>1, <4>3, <4>5
    <3>. QED
      BY <2>5, <3>3, <3>4, SignersOfKey
  <2>. QED
    BY <2>4, <2>5
<1>. QED
  BY <1>1, <1>2, <1>3, <1>4 DEF IInv

-----------------------------------------------------------------------------
(***************************************************************************)
(* Theorems                                                                *)
(***************************************************************************)

\* The inductive invariant holds while signatures are verified.
THEOREM InvCorrect == Spec => []IInv
<1>. QED
  BY InvInit, InvNext, PTL DEF Spec

\* Whatever keys the governors share and in whatever order files and aliases come, as
\* many holders of a key are verified as it made signatures, up to all of them
\* (the loops of GetVerifiedSigners).
THEOREM CountsOnceCorrect == Spec => []EverySignatureCountsOnce
<1>1. IInv => EverySignatureCountsOnce
  BY DEF IInv
<1>. QED
  BY <1>1, InvCorrect, PTL

-----------------------------------------------------------------------------
(***************************************************************************)
(* Rules: induction and recursion over what they are made of               *)
(***************************************************************************)

\* A set of natural numbers with any element has a least one.
LEMMA LeastNumber ==
    ASSUME NEW T, T \subseteq Nat, T # {}
    PROVE  \E x \in T : \A y \in T : x <= y
<1>. DEFINE Less == {p \in Nat \X Nat : p[1] < p[2]}
<1>1. Less = OpToRel(<, Nat)
  BY DEF OpToRel
<1>2. IsWellFoundedOn(Less, Nat)
  BY <1>1, NatLessThanWellFounded
<1>3. \E x \in T : \A y \in T : ~(<<y, x>> \in Less)
  <2>. HIDE DEF Less
  <2>. QED
    BY <1>2, WFMin
<1>4. \A x, y \in Nat : y < x => <<y, x>> \in Less
  OBVIOUS
<1>. HIDE DEF Less
<1>5. PICK x \in T : \A y \in T : ~(<<y, x>> \in Less)
  BY <1>3
<1>6. ASSUME NEW y \in T
      PROVE  x <= y
  <2>1. ~(y < x)
    BY <1>4, <1>5
  <2>. QED
    BY <2>1
<1>. QED
  BY <1>6

\* The children of a rule are finitely many rules of less depth.
LEMMA Children ==
    ASSUME NEW r \in Rules
    PROVE  /\ r.require \in Seq(Rules) /\ Len(r.require) \in Nat
           /\ DOMAIN r.require = 1 .. Len(r.require)
           /\ IsFiniteSet(DOMAIN r.require)
           /\ Cardinality(DOMAIN r.require) = Len(r.require)
           /\ \A i \in DOMAIN r.require :
                  r.require[i] \in Rules /\ Depth[r.require[i]] < Depth[r]
           /\ Depth[r] \in Nat
<1>. DEFINE s == r.require
<1>1. /\ s \in Seq(Rules)
      /\ \A i \in DOMAIN s : Depth[s[i]] < Depth[r]
      /\ Depth[r] \in Nat
  <2>1. /\ s \in Seq(Rules)
        /\ \A i \in DOMAIN s : Depth[s[i]] < Depth[r]
    BY RulesAssumption DEF RulesAssumption
  <2>2. Depth[r] \in Nat
    BY RulesAssumption DEF RulesAssumption
  <2>. QED
    BY <2>1, <2>2
<1>. HIDE DEF s
<1>2. /\ DOMAIN s = 1 .. Len(s) /\ Len(s) \in Nat
      /\ \A i \in DOMAIN s : s[i] \in Rules
  BY <1>1
<1>3. IsFiniteSet(1 .. Len(s)) /\ Cardinality(1 .. Len(s)) = Len(s)
  <2>1. Cardinality(1 .. Len(s)) = IF 1 > Len(s) THEN 0 ELSE Len(s) - 1 + 1
    BY <1>2, FS_Interval
  <2>. QED
    BY <1>2, <2>1, FS_Interval
<1>. USE DEF s
<1>. QED
  BY <1>1, <1>2, <1>3

\* What holds of every rule if it holds of its children, holds of every rule.
LEMMA RuleInduction ==
    ASSUME NEW T,
           \A r \in Rules : (\A i \in DOMAIN r.require : r.require[i] \in T) => r \in T
    PROVE  Rules \subseteq T
<1>. SUFFICES ASSUME Rules \ T # {} PROVE FALSE
  OBVIOUS
<1>. DEFINE depths == {Depth[r] : r \in Rules \ T}
<1>1. depths \subseteq Nat /\ depths # {}
  BY Children
<1>2. PICK n \in depths : \A m \in depths : n <= m
  <2>. HIDE DEF depths
  <2>. QED
    BY <1>1, LeastNumber
<1>3. PICK r \in Rules \ T : n = Depth[r]
  OBVIOUS
<1>4. ASSUME NEW i \in DOMAIN r.require
      PROVE  r.require[i] \in T
  <2>1. r.require[i] \in Rules /\ Depth[r.require[i]] < Depth[r]
        /\ Depth[r] \in Nat /\ Depth[r.require[i]] \in Nat
    BY Children
  <2>2. Depth[r.require[i]] \notin depths
    BY <1>2, <1>3, <2>1
  <2>. QED
    BY <2>1, <2>2
<1>. QED
  BY <1>3, <1>4

\* An equation that determines what a rule has from what its children have, has a
\* solution: F makes of a first guess of all values a better one.
LEMMA RecursionOverRules ==
    ASSUME NEW Vals, Vals # {},
           NEW F \in [[Rules -> Vals] -> [Rules -> Vals]],
           \A d, e \in [Rules -> Vals] : \A r \in Rules :
               (\A i \in DOMAIN r.require : d[r.require[i]] = e[r.require[i]])
                   => F[d][r] = F[e][r]
    PROVE  \E e \in [Rules -> Vals] : e = F[e]
<1>. DEFINE Good(e, n) == \A r \in Rules : Depth[r] < n => e[r] = F[e][r]
\* Up to a depth there is at most one solution.
<1>1. ASSUME NEW n \in Nat, NEW d \in [Rules -> Vals], NEW e \in [Rules -> Vals],
             Good(d, n), Good(e, n)
      PROVE  \A r \in Rules : Depth[r] < n => d[r] = e[r]
  <2>. DEFINE T == {r \in Rules : Depth[r] < n => d[r] = e[r]}
  <2>1. ASSUME NEW r \in Rules, \A i \in DOMAIN r.require : r.require[i] \in T, Depth[r] < n
        PROVE  d[r] = e[r]
    <3>1. \A i \in DOMAIN r.require : Depth[r.require[i]] < n
      <4>. SUFFICES ASSUME NEW i \in DOMAIN r.require PROVE Depth[r.require[i]] < n
        OBVIOUS
      <4>1. /\ r.require[i] \in Rules /\ Depth[r.require[i]] < Depth[r] /\ Depth[r] \in Nat
        BY Children
      <4>2. Depth[r.require[i]] \in Nat
        BY <4>1, Children
      <4>. QED
        BY <2>1, <4>1, <4>2
    <3>2. \A i \in DOMAIN r.require : d[r.require[i]] = e[r.require[i]]
      BY <2>1, <3>1
    <3>3. F[d][r] = F[e][r]
      BY <3>2
    <3>. QED
      BY <1>1, <2>1, <3>3
  <2>2. \A r \in Rules : (\A i \in DOMAIN r.require : r.require[i] \in T) => r \in T
    BY <2>1
  <2>3. Rules \subseteq T
    <3>. HIDE DEF T
    <3>. QED
      BY <2>2, RuleInduction
  <2>. QED
    BY <2>3
\* Up to every depth there is one.
<1>2. \A n \in Nat : \E e \in [Rules -> Vals] : Good(e, n)
  <2>. DEFINE Bad == {n \in Nat : ~\E e \in [Rules -> Vals] : Good(e, n)}
  <2>. SUFFICES ASSUME Bad # {} PROVE FALSE
    OBVIOUS
  <2>1. PICK n \in Bad : \A m \in Bad : n <= m
    <3>1. Bad \subseteq Nat
      OBVIOUS
    <3>. HIDE DEF Bad
    <3>. QED
      BY <3>1, LeastNumber
  <2>2. n # 0
    <3>1. PICK v \in Vals : TRUE
      OBVIOUS
    <3>2. [r \in Rules |-> v] \in [Rules -> Vals]
      BY <3>1
    <3>3. Good([r \in Rules |-> v], 0)
      BY Children
    <3>. HIDE DEF Good
    <3>. QED
      BY <3>2, <3>3
  <2>3. n - 1 \in Nat /\ n - 1 \notin Bad
    BY <2>1, <2>2
  <2>4. PICK e \in [Rules -> Vals] : Good(e, n - 1)
    BY <2>3
  <2>5. F[e] \in [Rules -> Vals]
    OBVIOUS
  <2>6. Good(F[e], n)
    <3>. SUFFICES ASSUME NEW r \in Rules, Depth[r] < n
                  PROVE  F[e][r] = F[F[e]][r]
      OBVIOUS
    <3>1. ASSUME NEW i \in DOMAIN r.require
          PROVE  e[r.require[i]] = F[e][r.require[i]]
      <4>1. /\ r.require[i] \in Rules /\ Depth[r.require[i]] < Depth[r] /\ Depth[r] \in Nat
        BY Children
      <4>2. Depth[r.require[i]] \in Nat
        BY <4>1, Children
      <4>3. Depth[r.require[i]] < n - 1
        BY <4>1, <4>2, <2>1
      <4>. QED
        BY <2>4, <4>1, <4>3
    <3>. QED
      BY <3>1, <2>5
  <2>. HIDE DEF Good
  <2>. QED
    BY <2>1, <2>5, <2>6
\* The value of a rule is that of any solution up to its depth.
<1>. DEFINE Solution(n) == CHOOSE e \in [Rules -> Vals] : Good(e, n)
            f == [r \in Rules |-> Solution(Depth[r] + 1)[r]]
<1>3. \A n \in Nat : Solution(n) \in [Rules -> Vals] /\ Good(Solution(n), n)
  <2>. HIDE DEF Good
  <2>. QED
    BY <1>2
<1>. HIDE DEF Solution
<1>4. f \in [Rules -> Vals]
  BY <1>3, Children
<1>5. ASSUME NEW r \in Rules
      PROVE  f[r] = F[f][r]
  <2>. DEFINE e == Solution(Depth[r] + 1)
  <2>1. Depth[r] + 1 \in Nat /\ e \in [Rules -> Vals] /\ Good(e, Depth[r] + 1)
    BY <1>3, Children
  <2>2. f[r] = F[e][r]
    BY <2>1, Children
  <2>3. ASSUME NEW i \in DOMAIN r.require
        PROVE  f[r.require[i]] = e[r.require[i]]
    <3>. DEFINE c == r.require[i]
    <3>1. c \in Rules /\ Depth[c] < Depth[r] /\ Depth[r] \in Nat
      BY Children
    <3>2. Depth[c] \in Nat /\ Depth[c] + 1 \in Nat /\ Depth[c] < Depth[c] + 1
      BY <3>1, Children
    <3>3. Good(e, Depth[c] + 1)
      <4>1. ASSUME NEW p \in Rules, Depth[p] < Depth[c] + 1
            PROVE  e[p] = F[e][p]
        <5>1. Depth[p] \in Nat
          BY Children
        <5>2. Depth[p] < Depth[r] + 1
          BY <3>1, <3>2, <4>1, <5>1
        <5>. HIDE DEF e, c
        <5>. QED
          BY <2>1, <5>2
      <4>. HIDE DEF e, c
      <4>. QED
        BY <4>1
    <3>4. Solution(Depth[c] + 1) \in [Rules -> Vals] /\ Good(Solution(Depth[c] + 1), Depth[c] + 1)
      BY <1>3, <3>2
    <3>. HIDE DEF Good, e
    <3>5. Solution(Depth[c] + 1)[c] = e[c]
      BY <1>1, <2>1, <3>1, <3>2, <3>3, <3>4
    <3>. QED
      BY <3>1, <3>5
  <2>. HIDE DEF f, e, Good
  <2>. QED
    BY <1>4, <2>1, <2>2, <2>3
<1>6. F[f] \in [Rules -> Vals]
  BY <1>4
<1>7. f = F[f]
  <2>. HIDE DEF f
  <2>. QED
    BY <1>4, <1>5, <1>6
<1>. QED
  BY <1>4, <1>7

-----------------------------------------------------------------------------
(***************************************************************************)
(* The recursive operators on rules                                        *)
(***************************************************************************)

\* The equation of Parts has a solution, which then is Parts.
LEMMA PartsDef ==
    /\ Parts \in [Rules -> SUBSET Rules]
    /\ \A r \in Rules :
           Parts[r] = {r} \cup UNION {Parts[r.require[i]] : i \in DOMAIN r.require}
<1>. DEFINE F == [e \in [Rules -> SUBSET Rules] |->
                     [r \in Rules |->
                         {r} \cup UNION {e[r.require[i]] : i \in DOMAIN r.require}]]
<1>1. F \in [[Rules -> SUBSET Rules] -> [Rules -> SUBSET Rules]]
  <2>1. ASSUME NEW e \in [Rules -> SUBSET Rules], NEW r \in Rules
        PROVE  {r} \cup UNION {e[r.require[i]] : i \in DOMAIN r.require} \in SUBSET Rules
    BY Children
  <2>. QED
    BY <2>1
<1>2. \A d, e \in [Rules -> SUBSET Rules] : \A r \in Rules :
          (\A i \in DOMAIN r.require : d[r.require[i]] = e[r.require[i]]) => F[d][r] = F[e][r]
  OBVIOUS
<1>3. \E e \in [Rules -> SUBSET Rules] : e = F[e]
  <2>. HIDE DEF F
  <2>1. SUBSET Rules # {}
    OBVIOUS
  <2>. QED
    BY <1>1, <1>2, <2>1, RecursionOverRules
<1>4. \A e \in [Rules -> SUBSET Rules] :
          F[e] = [r \in Rules |-> {r} \cup UNION {e[r.require[i]] : i \in DOMAIN r.require}]
  OBVIOUS
<1>5. \E e : e = [r \in Rules |-> {r} \cup UNION {e[r.require[i]] : i \in DOMAIN r.require}]
  <2>1. PICK e \in [Rules -> SUBSET Rules] : e = F[e]
    BY <1>3
  <2>2. e = [r \in Rules |-> {r} \cup UNION {e[r.require[i]] : i \in DOMAIN r.require}]
    BY <1>4, <2>1
  <2>. HIDE DEF F
  <2>. QED
    BY <2>2
<1>6. Parts = [r \in Rules |-> {r} \cup UNION {Parts[r.require[i]] : i \in DOMAIN r.require}]
  BY <1>5 DEF Parts
<1>7. \A r \in Rules : Parts[r] = {r} \cup UNION {Parts[r.require[i]] : i \in DOMAIN r.require}
  BY <1>6
<1>8. Rules \subseteq {r \in Rules : Parts[r] \subseteq Rules}
  <2>. DEFINE T == {r \in Rules : Parts[r] \subseteq Rules}
  <2>1. \A r \in Rules : (\A i \in DOMAIN r.require : r.require[i] \in T) => r \in T
    BY <1>7
  <2>2. Rules \subseteq T
    <3>. HIDE DEF T
    <3>. QED
      BY <2>1, RuleInduction
  <2>. QED
    BY <2>2
<1>. QED
  BY <1>6, <1>7, <1>8

\* What evaluateGroup makes of a group, given for which rules its children hold.
Holds(r, signers, satisfied) ==
    IF r.signer # NoSigner THEN r.signer \in signers
    ELSE \E n \in RequiredCount(r) :
            n <= Cardinality({i \in DOMAIN r.require : satisfied[r.require[i]]})

LEMMA HoldsType ==
    ASSUME NEW r, NEW signers, NEW satisfied
    PROVE  Holds(r, signers, satisfied) \in BOOLEAN
<1>1. CASE r.signer # NoSigner
  BY <1>1, SMT DEF Holds
<1>2. CASE r.signer = NoSigner
  BY <1>2, Zenon DEF Holds
<1>. QED
  BY <1>1, <1>2

\* The evaluation of a rule is determined by that of its children.
LEMMA EvaluateDef ==
    ASSUME NEW signers
    PROVE  /\ \A r \in Rules : Evaluate(r, signers) \in BOOLEAN
           /\ \A r \in Rules : r.signer # NoSigner =>
                  Evaluate(r, signers) = (r.signer \in signers)
           /\ \A r \in Rules : r.signer = NoSigner =>
                  Evaluate(r, signers) =
                      \E n \in RequiredCount(r) :
                          n <= Cardinality({i \in DOMAIN r.require :
                                               Evaluate(r.require[i], signers)})
<1>. DEFINE F == [e \in [Rules -> BOOLEAN] |-> [r \in Rules |-> Holds(r, signers, e)]]
<1>1. F \in [[Rules -> BOOLEAN] -> [Rules -> BOOLEAN]]
  <2>1. ASSUME NEW e \in [Rules -> BOOLEAN]
        PROVE  [r \in Rules |-> Holds(r, signers, e)] \in [Rules -> BOOLEAN]
    BY HoldsType
  <2>. QED
    BY <2>1
<1>2. ASSUME NEW d \in [Rules -> BOOLEAN], NEW e \in [Rules -> BOOLEAN], NEW r \in Rules,
             \A i \in DOMAIN r.require : d[r.require[i]] = e[r.require[i]]
      PROVE  F[d][r] = F[e][r]
  <2>1. {i \in DOMAIN r.require : d[r.require[i]]} = {i \in DOMAIN r.require : e[r.require[i]]}
    BY <1>2
  <2>2. Holds(r, signers, d) = Holds(r, signers, e)
    BY <2>1 DEF Holds
  <2>. QED
    BY <2>2
<1>3. \E e \in [Rules -> BOOLEAN] : e = F[e]
  <2>. HIDE DEF F
  <2>1. BOOLEAN # {}
    OBVIOUS
  <2>. QED
    BY <1>1, <1>2, <2>1, RecursionOverRules
<1>. DEFINE satisfied == CHOOSE e : e = [p \in Rules |->
                IF p.signer # NoSigner THEN p.signer \in signers
                ELSE \E n \in RequiredCount(p) :
                        n <= Cardinality({i \in DOMAIN p.require : e[p.require[i]]})]
<1>4. \E e : e = [p \in Rules |->
                IF p.signer # NoSigner THEN p.signer \in signers
                ELSE \E n \in RequiredCount(p) :
                        n <= Cardinality({i \in DOMAIN p.require : e[p.require[i]]})]
  <2>1. PICK e \in [Rules -> BOOLEAN] : e = F[e]
    BY <1>3
  <2>2. e = [r \in Rules |-> Holds(r, signers, e)]
    BY <2>1
  <2>. HIDE DEF F
  <2>. QED
    BY <2>2 DEF Holds
<1>5. satisfied = [p \in Rules |-> Holds(p, signers, satisfied)]
  BY <1>4, Zenon DEF Holds
<1>6. \A r : Evaluate(r, signers) = satisfied[r]
  BY DEF Evaluate
<1>. HIDE DEF satisfied, F
<1>7. \A r \in Rules : Evaluate(r, signers) = Holds(r, signers, satisfied)
  BY <1>5, <1>6
<1>8. ASSUME NEW r \in Rules, r.signer # NoSigner
      PROVE  Evaluate(r, signers) = (r.signer \in signers)
  BY <1>7, <1>8 DEF Holds
<1>9. ASSUME NEW r \in Rules, r.signer = NoSigner
      PROVE  Evaluate(r, signers) =
                 \E n \in RequiredCount(r) :
                     n <= Cardinality({i \in DOMAIN r.require : Evaluate(r.require[i], signers)})
  <2>1. {i \in DOMAIN r.require : Evaluate(r.require[i], signers)}
            = {i \in DOMAIN r.require : satisfied[r.require[i]]}
    BY <1>6
  <2>2. Evaluate(r, signers) = Holds(r, signers, satisfied)
    BY <1>7
  <2>. QED
    BY <2>1, <2>2, <1>9 DEF Holds
<1>10. \A r \in Rules : Evaluate(r, signers) \in BOOLEAN
  BY <1>7, HoldsType
<1>. QED
  BY <1>8, <1>9, <1>10

\* The equation of QuorumsOf has a solution, which then is QuorumsOf.
LEMMA QuorumsDef ==
    /\ \A r \in Rules : r.signer # NoSigner => QuorumsOf[r] = {{r.signer}}
    /\ \A r \in Rules : r.signer = NoSigner =>
           QuorumsOf[r] =
               UNION {{UNION Range(pick) : pick \in
                          {p \in [K -> UNION {QuorumsOf[r.require[i]] : i \in K}] :
                              \A i \in K : p[i] \in QuorumsOf[r.require[i]]}} :
                      K \in {K \in SUBSET (DOMAIN r.require) : Enough(r, Cardinality(K))}}
<1>. DEFINE Vals == SUBSET SUBSET {r.signer : r \in Rules}
            Picked(q, r, K) ==
                {UNION Range(pick) : pick \in
                    {p \in [K -> UNION {q[r.require[i]] : i \in K}] :
                        \A i \in K : p[i] \in q[r.require[i]]}}
            Large(r) == {K \in SUBSET (DOMAIN r.require) : Enough(r, Cardinality(K))}
            Named(q, r) == IF r.signer # NoSigner THEN {{r.signer}}
                           ELSE UNION {Picked(q, r, K) : K \in Large(r)}
            F == [e \in [Rules -> Vals] |-> [r \in Rules |-> Named(e, r)]]
<1>1. ASSUME NEW e \in [Rules -> Vals], NEW r \in Rules
      PROVE  Named(e, r) \in Vals
  <2>1. ASSUME NEW K \in Large(r), NEW Q \in Picked(e, r, K)
        PROVE  Q \subseteq {p.signer : p \in Rules}
    <3>1. PICK p \in [K -> UNION {e[r.require[i]] : i \in K}] :
              /\ \A i \in K : p[i] \in e[r.require[i]]
              /\ Q = UNION Range(p)
      BY <2>1
    <3>2. ASSUME NEW i \in K
          PROVE  p[i] \subseteq {q.signer : q \in Rules}
      <4>1. i \in DOMAIN r.require
        BY <2>1
      <4>2. r.require[i] \in Rules
        BY <4>1, Children
      <4>3. e[r.require[i]] \in Vals
        BY <4>2
      <4>. QED
        BY <3>1, <4>3
    <3>3. Range(p) = {p[i] : i \in K}
      BY <3>1 DEF Range
    <3>. QED
      BY <3>1, <3>2, <3>3
  <2>. HIDE DEF Picked, Large
  <2>2. {{r.signer}} \in Vals
    OBVIOUS
  <2>3. UNION {Picked(e, r, K) : K \in Large(r)} \in Vals
    BY <2>1
  <2>. QED
    BY <2>2, <2>3
<1>2. ASSUME NEW d \in [Rules -> Vals], NEW e \in [Rules -> Vals], NEW r \in Rules,
             \A i \in DOMAIN r.require : d[r.require[i]] = e[r.require[i]]
      PROVE  Named(d, r) = Named(e, r)
  <2>1. ASSUME NEW K \in Large(r)
        PROVE  Picked(d, r, K) = Picked(e, r, K)
    <3>1. \A i \in K : d[r.require[i]] = e[r.require[i]]
      BY <1>2, <2>1
    <3>2. {d[r.require[i]] : i \in K} = {e[r.require[i]] : i \in K}
      BY <3>1
    <3>3. {p \in [K -> UNION {d[r.require[i]] : i \in K}] : \A i \in K : p[i] \in d[r.require[i]]}
        = {p \in [K -> UNION {e[r.require[i]] : i \in K}] : \A i \in K : p[i] \in e[r.require[i]]}
      BY <3>1, <3>2
    <3>. QED
      BY <3>3
  <2>. HIDE DEF Picked, Large
  <2>. QED
    BY <2>1
<1>3. \E e \in [Rules -> Vals] : e = F[e]
  <2>. HIDE DEF Named, Vals
  <2>1. F \in [[Rules -> Vals] -> [Rules -> Vals]]
    BY <1>1
  <2>2. \A d, e \in [Rules -> Vals] : \A r \in Rules :
            (\A i \in DOMAIN r.require : d[r.require[i]] = e[r.require[i]]) => F[d][r] = F[e][r]
    BY <1>2
  <2>3. Vals # {}
    BY DEF Vals
  <2>. HIDE DEF F
  <2>. QED
    BY <2>1, <2>2, <2>3, RecursionOverRules
<1>4. \E e : e = [r \in Rules |-> Named(e, r)]
  <2>. HIDE DEF Named, Vals
  <2>1. PICK e \in [Rules -> Vals] : e = F[e]
    BY <1>3
  <2>2. e = [r \in Rules |-> Named(e, r)]
    BY <2>1
  <2>. QED
    BY <2>2
<1>. DEFINE quorums == CHOOSE e : e = [r \in Rules |-> Named(e, r)]
<1>5. quorums = [r \in Rules |-> Named(quorums, r)]
  <2>. HIDE DEF Named
  <2>. QED
    BY <1>4
<1>6. QuorumsOf = [r \in Rules |-> quorums[r]]
  BY DEF QuorumsOf
<1>7. QuorumsOf = quorums
  <2>. HIDE DEF Named, quorums
  <2>. QED
    BY <1>5, <1>6
<1>8. \A r \in Rules : QuorumsOf[r] = Named(QuorumsOf, r)
  <2>. HIDE DEF Named, quorums
  <2>. QED
    BY <1>5, <1>7
<1>. QED
  BY <1>8

-----------------------------------------------------------------------------
(***************************************************************************)
(* What holds of a rule because it holds of its children                   *)
(***************************************************************************)

\* The children of a rule that the signers satisfy.
Satisfied(r, signers) == {i \in DOMAIN r.require : Evaluate(r.require[i], signers)}

\* They are some of its finitely many children.
LEMMA SatisfiedIsFinite ==
    ASSUME NEW r \in Rules, NEW I \in SUBSET (DOMAIN r.require)
    PROVE  IsFiniteSet(I) /\ Cardinality(I) \in Nat /\ Cardinality(I) <= Len(r.require)
<1>1. IsFiniteSet(DOMAIN r.require) /\ Cardinality(DOMAIN r.require) = Len(r.require)
  BY Children
<1>2. IsFiniteSet(I) /\ Cardinality(I) <= Cardinality(DOMAIN r.require)
  BY <1>1, FS_Subset
<1>. QED
  BY <1>1, <1>2, FS_CardinalityType

\* A group asks for at most one number of children.
LEMMA RequiredCountType ==
    ASSUME NEW r \in Rules
    PROVE  \A n, m \in RequiredCount(r) : n \in Int /\ n = m
<1>1. Len(r.require) \in Int
  BY Children
<1>. QED
  BY <1>1, RulesAssumption DEF RulesAssumption, RequiredCount

\* A part of a child is a part of the rule.
LEMMA PartsOfChildren ==
    ASSUME NEW r \in Rules
    PROVE  /\ r \in Parts[r]
           /\ \A i \in DOMAIN r.require : Parts[r.require[i]] \subseteq Parts[r]
  BY PartsDef

\* So a valid rule is made of valid rules.
LEMMA ValidityOfChildren ==
    ASSUME NEW r \in Rules, TreeIsValid(r)
    PROVE  /\ NodeIsValid(r)
           /\ \A i \in DOMAIN r.require : TreeIsValid(r.require[i])
  BY PartsOfChildren DEF TreeIsValid

\* The more have signed, the more children are satisfied: the evaluation is monotonic.
LEMMA EvaluateIsMonotonic ==
    ASSUME NEW S, NEW T, S \subseteq T
    PROVE  \A r \in Rules : Evaluate(r, S) => Evaluate(r, T)
<1>. DEFINE Good == {r \in Rules : Evaluate(r, S) => Evaluate(r, T)}
<1>1. ASSUME NEW r \in Rules, \A i \in DOMAIN r.require : r.require[i] \in Good, Evaluate(r, S)
      PROVE  Evaluate(r, T)
  <2>1. CASE r.signer # NoSigner
    <3>1. Evaluate(r, S) = (r.signer \in S)
      BY <2>1, EvaluateDef
    <3>2. Evaluate(r, T) = (r.signer \in T)
      BY <2>1, EvaluateDef
    <3>. QED
      BY <1>1, <3>1, <3>2
  <2>2. CASE r.signer = NoSigner
    <3>1. PICK n \in RequiredCount(r) : n <= Cardinality(Satisfied(r, S))
      BY <1>1, <2>2, EvaluateDef DEF Satisfied
    <3>2. Satisfied(r, S) \subseteq Satisfied(r, T)
      BY <1>1 DEF Satisfied
    <3>3. Satisfied(r, T) \in SUBSET (DOMAIN r.require)
      BY DEF Satisfied
    <3>4. IsFiniteSet(Satisfied(r, T))
      BY <3>3, SatisfiedIsFinite
    <3>5. /\ Cardinality(Satisfied(r, S)) <= Cardinality(Satisfied(r, T))
          /\ Cardinality(Satisfied(r, S)) \in Nat
          /\ Cardinality(Satisfied(r, T)) \in Nat
      BY <3>2, <3>4, FS_Subset, FS_CardinalityType
    <3>6. n \in Int
      BY <3>1, RequiredCountType
    <3>7. n <= Cardinality(Satisfied(r, T))
      BY <3>1, <3>5, <3>6
    <3>. QED
      BY <2>2, <3>1, <3>7, EvaluateDef DEF Satisfied
  <2>. QED
    BY <2>1, <2>2
<1>2. Rules \subseteq Good
  <2>1. \A r \in Rules : (\A i \in DOMAIN r.require : r.require[i] \in Good) => r \in Good
    BY <1>1
  <2>. HIDE DEF Good
  <2>. QED
    BY <2>1, RuleInduction
<1>. QED
  BY <1>2

\* A group that is valid is evaluated as its fields are described.
LEMMA GroupIsEnough ==
    ASSUME NEW r \in Rules, NodeIsValid(r), r.signer = NoSigner, NEW S
    PROVE  Evaluate(r, S) <=> Enough(r, Cardinality(Satisfied(r, S)))
<1>. DEFINE I == Satisfied(r, S)
<1>1. Cardinality(I) \in Nat /\ Cardinality(I) <= Len(r.require) /\ Len(r.require) \in Nat
  <2>1. I \in SUBSET (DOMAIN r.require)
    BY DEF Satisfied
  <2>. QED
    BY <2>1, SatisfiedIsFinite, Children
<1>2. Evaluate(r, S) <=> \E n \in RequiredCount(r) : n <= Cardinality(I)
  BY EvaluateDef DEF Satisfied
<1>3. r.all \in {{}, {TRUE}, {FALSE}} /\ \A n, m \in r.atLeast : n \in Int /\ n = m
  BY RulesAssumption DEF RulesAssumption
<1>4. (r.atLeast # {} \/ r.all # {}) /\ (r.atLeast = {} \/ r.all = {})
  BY AliasAssumption DEF NodeIsValid
<1>. HIDE DEF I
<1>5. CASE r.all = {TRUE}
  <2>1. RequiredCount(r) = {Len(r.require)}
    BY <1>5 DEF RequiredCount
  <2>2. Enough(r, Cardinality(I)) <=> Cardinality(I) = Len(r.require)
    BY <1>5 DEF Enough
  <2>. QED
    BY <1>1, <1>2, <2>1, <2>2 DEF I
<1>6. CASE r.all = {FALSE}
  <2>1. RequiredCount(r) = {}
    BY <1>4, <1>6 DEF RequiredCount
  <2>2. ~Enough(r, Cardinality(I))
    BY <1>6 DEF Enough
  <2>. QED
    BY <1>2, <2>1, <2>2 DEF I
<1>7. CASE r.all = {}
  <2>1. RequiredCount(r) = r.atLeast /\ r.atLeast # {}
    BY <1>4, <1>7 DEF RequiredCount
  <2>2. Enough(r, Cardinality(I)) <=> \A n \in r.atLeast : Cardinality(I) >= n
    BY <1>7 DEF Enough
  <2>3. PICK m \in r.atLeast : TRUE
    BY <2>1
  <2>4. r.atLeast = {m} /\ m \in Int
    BY <1>3, <2>3
  <2>. QED
    BY <1>1, <1>2, <2>1, <2>2, <2>4 DEF I
<1>. QED
  BY <1>3, <1>5, <1>6, <1>7

\* More children are enough where fewer were.
LEMMA EnoughIsMonotonic ==
    ASSUME NEW r \in Rules, NEW I \in SUBSET (DOMAIN r.require), NEW K \in SUBSET I,
           Enough(r, Cardinality(K))
    PROVE  Enough(r, Cardinality(I))
<1>1. /\ IsFiniteSet(I)
      /\ Cardinality(I) \in Nat /\ Cardinality(I) <= Len(r.require) /\ Len(r.require) \in Nat
  BY SatisfiedIsFinite, Children
<1>2. Cardinality(K) \in Nat /\ Cardinality(K) <= Cardinality(I)
  BY <1>1, FS_Subset, FS_CardinalityType
<1>3. \A n \in r.atLeast : n \in Int
  BY RulesAssumption DEF RulesAssumption
<1>4. CASE r.all # {}
  <2>1. r.all = {TRUE} /\ Cardinality(K) = Len(r.require)
    BY <1>4 DEF Enough
  <2>2. Cardinality(I) = Len(r.require)
    BY <1>1, <1>2, <2>1
  <2>. QED
    BY <1>4, <2>1, <2>2 DEF Enough
<1>5. CASE r.all = {}
  <2>1. \A n \in r.atLeast : Cardinality(K) >= n
    BY <1>5 DEF Enough
  <2>2. \A n \in r.atLeast : Cardinality(I) >= n
    BY <1>1, <1>2, <1>3, <2>1
  <2>. QED
    BY <1>5, <2>2 DEF Enough
<1>. QED
  BY <1>4, <1>5

\* A valid rule holds exactly when one of its quorums has signed.
LEMMA QuorumsAreEnough ==
    ASSUME NEW S
    PROVE  \A r \in Rules :
               TreeIsValid(r) => (Evaluate(r, S) <=> \E Q \in QuorumsOf[r] : Q \subseteq S)
<1>. DEFINE Good == {r \in Rules : TreeIsValid(r) =>
                        (Evaluate(r, S) <=> \E Q \in QuorumsOf[r] : Q \subseteq S)}
<1>1. ASSUME NEW r \in Rules, \A i \in DOMAIN r.require : r.require[i] \in Good,
             TreeIsValid(r)
      PROVE  Evaluate(r, S) <=> \E Q \in QuorumsOf[r] : Q \subseteq S
  <2>1. CASE r.signer # NoSigner
    <3>1. QuorumsOf[r] = {{r.signer}}
      BY <2>1, QuorumsDef
    <3>2. Evaluate(r, S) = (r.signer \in S)
      BY <2>1, EvaluateDef
    <3>. QED
      BY <3>1, <3>2
  <2>2. CASE r.signer = NoSigner
    <3>. DEFINE q(i) == QuorumsOf[r.require[i]]
                Picks(K) == {p \in [K -> UNION {q(i) : i \in K}] : \A i \in K : p[i] \in q(i)}
                Large == {K \in SUBSET (DOMAIN r.require) : Enough(r, Cardinality(K))}
    <3>1. QuorumsOf[r] = UNION {{UNION Range(pick) : pick \in Picks(K)} : K \in Large}
      BY <2>2, QuorumsDef
    <3>2. NodeIsValid(r)
      BY <1>1, ValidityOfChildren
    <3>3. ASSUME NEW i \in DOMAIN r.require
          PROVE  i \in Satisfied(r, S) <=> \E Q \in q(i) : Q \subseteq S
      <4>1. TreeIsValid(r.require[i])
        BY <1>1, ValidityOfChildren
      <4>. QED
        BY <1>1, <4>1 DEF Satisfied
    \* Enough children hold: their quorums, united, have signed.
    <3>4. ASSUME Evaluate(r, S)
          PROVE  \E Q \in QuorumsOf[r] : Q \subseteq S
      <4>. DEFINE K == Satisfied(r, S)
                  pick == [i \in K |-> CHOOSE Q \in q(i) : Q \subseteq S]
      <4>1. K \in Large
        BY <2>2, <3>2, <3>4, GroupIsEnough DEF Satisfied
      <4>2. ASSUME NEW i \in K
            PROVE  pick[i] \in q(i) /\ pick[i] \subseteq S
        <5>1. i \in DOMAIN r.require
          BY DEF Satisfied
        <5>2. \E Q \in q(i) : Q \subseteq S
          BY <3>3, <5>1
        <5>. HIDE DEF q, K
        <5>. QED
          BY <5>2
      <4>3. pick \in Picks(K)
        <5>. HIDE DEF q, K
        <5>. QED
          BY <4>2
      <4>4. UNION Range(pick) \subseteq S
        <5>. HIDE DEF q, K
        <5>. QED
          BY <4>2 DEF Range
      <4>5. UNION Range(pick) \in QuorumsOf[r]
        <5>. HIDE DEF q, K, pick, Picks, Large
        <5>. QED
          BY <3>1, <4>1, <4>3
      <4>. QED
        BY <4>4, <4>5
    \* A quorum has signed: the children it was picked from hold, and are enough.
    <3>5. ASSUME NEW Q \in QuorumsOf[r], Q \subseteq S
          PROVE  Evaluate(r, S)
      <4>1. PICK K \in Large : \E pick \in Picks(K) : Q = UNION Range(pick)
        <5>. HIDE DEF q, Picks, Large
        <5>. QED
          BY <3>1, <3>5
      <4>2. PICK pick \in Picks(K) : Q = UNION Range(pick)
        BY <4>1
      <4>3. K \subseteq Satisfied(r, S)
        <5>. SUFFICES ASSUME NEW i \in K PROVE i \in Satisfied(r, S)
          OBVIOUS
        <5>1. pick[i] \in q(i) /\ pick[i] \in Range(pick)
          <6>. HIDE DEF q
          <6>. QED
            BY <4>2 DEF Range
        <5>2. pick[i] \subseteq S
          BY <3>5, <4>2, <5>1
        <5>3. i \in DOMAIN r.require
          BY <4>1
        <5>. QED
          BY <3>3, <5>1, <5>2, <5>3
      <4>4. Satisfied(r, S) \in SUBSET (DOMAIN r.require) /\ Enough(r, Cardinality(K))
        BY <4>1 DEF Satisfied
      <4>5. Enough(r, Cardinality(Satisfied(r, S)))
        BY <4>3, <4>4, EnoughIsMonotonic
      <4>. QED
        BY <2>2, <3>2, <4>5, GroupIsEnough
    <3>. HIDE DEF q
    <3>. QED
      BY <3>4, <3>5
  <2>. QED
    BY <2>1, <2>2
<1>2. Rules \subseteq Good
  <2>1. \A r \in Rules : (\A i \in DOMAIN r.require : r.require[i] \in Good) => r \in Good
    BY <1>1
  <2>. HIDE DEF Good
  <2>. QED
    BY <2>1, RuleInduction
<1>. QED
  BY <1>2

\* The board satisfies every valid rule that does not say all: false.
LEMMA BoardIsEnough ==
    \A r \in Rules : TreeIsValid(r) /\ ~SaysAllFalse(r) => Evaluate(r, Governors)
<1>. DEFINE Good == {r \in Rules :
                        TreeIsValid(r) /\ ~SaysAllFalse(r) => Evaluate(r, Governors)}
<1>1. ASSUME NEW r \in Rules, \A i \in DOMAIN r.require : r.require[i] \in Good,
             TreeIsValid(r), ~SaysAllFalse(r)
      PROVE  Evaluate(r, Governors)
  <2>1. NodeIsValid(r)
    BY <1>1, ValidityOfChildren
  <2>2. CASE r.signer # NoSigner
    BY <2>1, <2>2, EvaluateDef DEF NodeIsValid
  <2>3. CASE r.signer = NoSigner
    <3>1. Satisfied(r, Governors) = DOMAIN r.require
      <4>. SUFFICES ASSUME NEW i \in DOMAIN r.require PROVE Evaluate(r.require[i], Governors)
        BY DEF Satisfied
      <4>1. TreeIsValid(r.require[i])
        BY <1>1, ValidityOfChildren
      <4>2. ~SaysAllFalse(r.require[i])
        BY <1>1, PartsOfChildren DEF SaysAllFalse
      <4>. QED
        BY <1>1, <4>1, <4>2
    <3>2. Cardinality(DOMAIN r.require) = Len(r.require) /\ Len(r.require) \in Nat
      BY Children
    <3>3. r.all \in {{}, {TRUE}}
      <4>1. r.all \in {{}, {TRUE}, {FALSE}}
        BY RulesAssumption DEF RulesAssumption
      <4>2. r.all # {FALSE}
        BY <1>1, PartsOfChildren DEF SaysAllFalse
      <4>. QED
        BY <4>1, <4>2
    <3>4. \A n \in r.atLeast : n \in Int /\ n <= Len(r.require)
      <4>1. \A n \in r.atLeast : n \in Int
        BY RulesAssumption DEF RulesAssumption
      <4>. QED
        BY <2>1, <2>3, <4>1 DEF NodeIsValid
    <3>5. Enough(r, Cardinality(Satisfied(r, Governors)))
      BY <3>1, <3>2, <3>3, <3>4 DEF Enough
    <3>. QED
      BY <2>1, <2>3, <3>5, GroupIsEnough
  <2>. QED
    BY <2>2, <2>3
<1>2. Rules \subseteq Good
  <2>1. \A r \in Rules : (\A i \in DOMAIN r.require : r.require[i] \in Good) => r \in Good
    BY <1>1
  <2>. HIDE DEF Good
  <2>. QED
    BY <2>1, RuleInduction
<1>. QED
  BY <1>2

\* Nobody satisfies no valid rule, unless it asks for less than one.
LEMMA NobodyIsNotEnough ==
    \A r \in Rules : TreeIsValid(r) /\ ~AsksForNobody(r) => ~Evaluate(r, {})
<1>. DEFINE Good == {r \in Rules : TreeIsValid(r) /\ ~AsksForNobody(r) => ~Evaluate(r, {})}
<1>1. ASSUME NEW r \in Rules, \A i \in DOMAIN r.require : r.require[i] \in Good,
             TreeIsValid(r), ~AsksForNobody(r)
      PROVE  ~Evaluate(r, {})
  <2>1. NodeIsValid(r)
    BY <1>1, ValidityOfChildren
  <2>2. CASE r.signer # NoSigner
    BY <2>2, EvaluateDef
  <2>3. CASE r.signer = NoSigner
    <3>1. Satisfied(r, {}) = {}
      <4>. SUFFICES ASSUME NEW i \in DOMAIN r.require PROVE ~Evaluate(r.require[i], {})
        BY DEF Satisfied
      <4>1. TreeIsValid(r.require[i])
        BY <1>1, ValidityOfChildren
      <4>2. ~AsksForNobody(r.require[i])
        BY <1>1, PartsOfChildren DEF AsksForNobody
      <4>. QED
        BY <1>1, <4>1, <4>2
    <3>2. Cardinality(Satisfied(r, {})) = 0
      BY <3>1, FS_EmptySet
    <3>3. Len(r.require) \in Nat /\ Len(r.require) # 0
      <4>. DEFINE s == r.require
      <4>1. s \in Seq(Rules) /\ s # <<>>
        BY <2>1, <2>3, Children DEF NodeIsValid
      <4>. HIDE DEF s
      <4>2. Len(s) \in Nat /\ Len(s) # 0
        BY <4>1
      <4>. QED
        BY <4>2 DEF s
    <3>4. \A n \in r.atLeast : n \in Int /\ ~(n < 1)
      BY <1>1, PartsOfChildren, RulesAssumption DEF RulesAssumption, AsksForNobody
    <3>5. \A n \in RequiredCount(r) : ~(n <= 0)
      <4>. SUFFICES ASSUME NEW n \in RequiredCount(r) PROVE ~(n <= 0)
        OBVIOUS
      <4>1. n = Len(r.require) \/ n \in r.atLeast
        BY DEF RequiredCount
      <4>. QED
        BY <3>3, <3>4, <4>1
    <3>. QED
      BY <2>3, <3>2, <3>5, EvaluateDef DEF Satisfied
  <2>. QED
    BY <2>2, <2>3
<1>2. Rules \subseteq Good
  <2>1. \A r \in Rules : (\A i \in DOMAIN r.require : r.require[i] \in Good) => r \in Good
    BY <1>1
  <2>. HIDE DEF Good
  <2>. QED
    BY <2>1, RuleInduction
<1>. QED
  BY <1>2

-----------------------------------------------------------------------------
(***************************************************************************)
(* The rule of a request, while its signatures are verified                *)
(***************************************************************************)

\* The rule stays the accepted one it was, and the signatures are verified as before.
LEMMA RuleIsAccepted == RuleSpec => [](rule \in Rules /\ TreeIsValid(rule) /\ IInv)
<1>. DEFINE RInv == rule \in Rules /\ TreeIsValid(rule)
<1>1. RuleInit => RInv
  BY DEF RuleInit, Accepted
<1>2. RInv /\ [VerifyForRule]_<<vars, rule>> => RInv'
  BY DEF VerifyForRule, TreeIsValid, NodeIsValid
<1>3. RuleInit => Init
  BY DEF RuleInit
<1>4. [VerifyForRule]_<<vars, rule>> => [VerifySignature]_vars
  BY DEF VerifyForRule, vars
<1>. HIDE DEF RInv
<1>5. RuleSpec => []RInv
  BY <1>1, <1>2, PTL DEF RuleSpec
<1>6. RuleSpec => Spec
  BY <1>3, <1>4, PTL DEF RuleSpec, Spec
<1>7. RuleSpec => [](RInv /\ IInv)
  BY <1>5, <1>6, InvCorrect, PTL
<1>. QED
  BY <1>7 DEF RInv

\* Whatever an accepted rule looks like, however deep its groups nest, its evaluation
\* says yes exactly when one of the quorums it names has signed (evaluateRuleNode).
THEOREM QuorumCorrect == RuleSpec => []EvaluationIsQuorum
<1>1. rule \in Rules /\ TreeIsValid(rule) /\ IInv => EvaluationIsQuorum
  BY QuorumsAreEnough DEF EvaluationIsQuorum
<1>. QED
  BY <1>1, RuleIsAccepted, PTL

\* Every accepted rule is fulfilled by the whole board unless it says all: false, and
\* by nobody only if it asks for less than one (isApprovalRuleValid).
THEOREM FulfillableCorrect == RuleSpec => []Fulfillable
<1>1. rule \in Rules /\ TreeIsValid(rule) /\ IInv => Fulfillable
  BY BoardIsEnough, NobodyIsNotEnough DEF Fulfillable
<1>. QED
  BY <1>1, RuleIsAccepted, PTL

\* No signature takes a fulfilment back, whatever the rule (GetVerifiedSigners,
\* evaluateRuleNode).
THEOREM FulfilledCorrect == RuleSpec => StaysFulfilled
<1>1. ASSUME rule \in Rules, IInv, [VerifyForRule]_<<vars, rule>>
      PROVE  [Evaluate(rule, Signers) => Evaluate(rule, Signers')]_<<vars, rule>>
  <2>1. Signers \subseteq Signers'
    BY <1>1 DEF VerifyForRule, VerifySignature, Signers, Candidates, IInv, TypeOK, vars
  <2>. QED
    BY <1>1, <2>1, EvaluateIsMonotonic
<1>. QED
  BY <1>1, RuleIsAccepted, PTL DEF RuleSpec, StaysFulfilled
=============================================================================
