-------------------------- MODULE MCRegistryBlobs --------------------------
(***************************************************************************)
(* Instances of RegistryBlobs for TLC.  Records r1 and r2 are different    *)
(* records with the same freshness, r3 is fresher only in its device       *)
(* sequence.                                                               *)
(***************************************************************************)
EXTENDS RegistryBlobs, TLC

CONSTANTS r1, r2, r3, w1, w2

MCRecords == {r1, r2, r3}
MCWalletOf == r1 :> w1 @@ r2 :> w1 @@ r3 :> w1
MCFreshness == r1 :> <<1, 2, 5>> @@ r2 :> <<1, 2, 5>> @@ r3 :> <<1, 3, 0>>

(* One wallet, for the races between two accounts that publish for it.     *)
MCRecordsOneWallet == {r1, r3}
MCWalletOfOne == r1 :> w1 @@ r3 :> w1
MCFreshnessOne == r1 :> <<1, 2, 5>> @@ r3 :> <<1, 3, 0>>

MCSymmetry == Permutations(Accounts) \cup Permutations(Requests)
                \cup Permutations(SealedBlobs)
=============================================================================
