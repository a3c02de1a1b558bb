-------------------------- MODULE MCApprovalRules --------------------------
(***************************************************************************)
(* The rules of the runs of ApprovalRules: a leaf, groups of leaves (a     *)
(* signer twice, two, three of them) and groups that nest one or two of    *)
(* those, under every value of all and atLeast around the boundaries.      *)
(***************************************************************************)
EXTENDS ApprovalRules

CONSTANTS g1, g2, g3, k1, k2, k3

Heads == {<<{b}, {}>> : b \in BOOLEAN} \cup {<<{}, {n}>> : n \in 0 .. 3}
GroupsOver(children) == {Group(h[1], h[2], c) : h \in Heads, c \in children}

InnerRules == GroupsOver({<<Leaf(g1), Leaf(g1)>>, <<Leaf(g1), Leaf(g2)>>,
                          <<Leaf(g1), Leaf(g2), Leaf(g3)>>})
Either == Group({}, {1}, <<Leaf(g2), Leaf(g3)>>)

Leaves == {Leaf(g) : g \in Governors}
OuterRules == GroupsOver({<<Leaf(g3), i>> : i \in InnerRules})
    \cup GroupsOver({<<i, Either>> : i \in InnerRules})

SomeRules == Leaves \cup InnerRules \cup {Either} \cup OuterRules
DepthOfRules ==
    [r \in SomeRules |-> CASE r \in Leaves -> 0 [] r \in OuterRules -> 2 [] OTHER -> 1]

KeySymmetry == Permutations(Keys)
=============================================================================
