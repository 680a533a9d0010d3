----------------------------- MODULE MCDelivery -----------------------------
(* Small instances of Delivery for TLC.                                    *)
EXTENDS Delivery, TLC

CONSTANTS d1, d2, m1, m2, t1, t2

(* The user stays, moves to a second device, and back to the first.        *)
MCThereAndBack == 1 :> d1 @@ 2 :> d2 @@ 3 :> d1
MCStays == 1 :> d1
MCThere == 1 :> d1 @@ 2 :> d2

MCThreadSymmetry == Permutations(Threads)
=============================================================================
