---------------------------- MODULE AccountSlots ----------------------------
(***************************************************************************)
(* What the registry promises of an account's recovery and public-record   *)
(* slots, without files, pointers or requests: the recovery secret is      *)
(* written once, a record is replaced only by a fresher one of the same    *)
(* wallet, no two accounts publish for the same wallet, and nothing that   *)
(* was stored is lost.                                                     *)
(***************************************************************************)
CONSTANTS
    Accounts, Wallets, Records, WalletOf, None,
    Stale(_, _)     \* Stale(c, r): the stored record c makes r stale

VARIABLES
    recovery,   \* account |-> the wallet whose secret is stored, or None
    record      \* account |-> the public record stored, or None

slots == <<recovery, record>>

Init == /\ recovery = [a \in Accounts |-> None]
        /\ record = [a \in Accounts |-> None]

StoreRecovery(a, w) ==
    /\ recovery[a] = None
    /\ recovery' = [recovery EXCEPT ![a] = w]
    /\ UNCHANGED record

PublishRecord(a, r) ==
    /\ recovery[a] = WalletOf[r]
    /\ record[a] # None => ~ Stale(record[a], r)
    /\ \A other \in Accounts \ {a} :
          record[other] # None => WalletOf[record[other]] # WalletOf[r]
    /\ record' = [record EXCEPT ![a] = r]
    /\ UNCHANGED recovery

Next == \E a \in Accounts :
            \/ \E w \in Wallets : StoreRecovery(a, w)
            \/ \E r \in Records : PublishRecord(a, r)

Spec == Init /\ [][Next]_slots
=============================================================================
