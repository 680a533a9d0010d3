---------------------------- MODULE MCGroupChat ----------------------------
EXTENDS GroupChat, TLC

CONSTANTS ann, bob, cat

MCCost == [text |-> 1, add |-> 1, leave |-> 3, move |-> 2, fault |-> 2]

(* Only the founder is special.                                            *)
Symmetric == Permutations({bob, cat})

MCFriends == {<<ann, bob>>, <<ann, cat>>, <<bob, ann>>, <<cat, ann>>, <<cat, bob>>, <<bob, cat>>}
=============================================================================
