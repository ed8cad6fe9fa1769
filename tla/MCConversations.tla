--------------------------- MODULE MCConversations ---------------------------
(***************************************************************************)
(* Instances of Conversations for TLC.                                      *)
(***************************************************************************)
EXTENDS Conversations, TLC

CONSTANTS p1, p2, p3

TwoAgents == {p1, p2}
ThreeAgents == {p1, p2, p3}

NoGroups == {}
Pair == {<<p1, p2>>}
PairAndAll == {<<p1, p2>>, <<p3, p1, p2>>}
Symmetry == Permutations(ThreeAgents)
=============================================================================
