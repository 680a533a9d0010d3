--------------------------- MODULE MCConversation ---------------------------
EXTENDS Conversation

CONSTANTS ann, bob, cat, h1, h2, AnnChanges

(* Ann and Bob choose the same handle, and then both the one that Cat has. *)
Rec(p, n, h) == [user |-> p, seq |-> n, handle |-> h]
MCRecords == {Rec(ann, 1, h1), Rec(ann, 2, h2),
              Rec(bob, 1, h1), Rec(bob, 2, h2), Rec(cat, 1, h2)}

(* Bob has Ann's card, so he can write first.                              *)
MCCards == {<<bob, ann>>}

(* Only Ann changes what she knows by hand.                                *)
MCChanges == [s \in Owners |-> IF s = ann THEN AnnChanges ELSE 0]
=============================================================================
