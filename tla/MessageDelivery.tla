-------------------------- MODULE MessageDelivery --------------------------
(***************************************************************************)
(* What the outbox promises: a message is delivered only when a device of  *)
(* the recipient holds it, a final status stays, and no message the sender *)
(* can reseal is given up.                                                 *)
(***************************************************************************)
CONSTANTS Messages, Resealable, Devices

VARIABLES status,  \* what the sender's outbox says of a message
          held     \* the recipient's devices that have it

Init ==
    /\ status = [m \in Messages |-> "unsent"]
    /\ held = [m \in Messages |-> {}]

Send(m) ==
    /\ status[m] = "unsent"
    /\ status' = [status EXCEPT ![m] = "pending"]
    /\ UNCHANGED held

(* A copy may still arrive after the sender has given up waiting for it.   *)
Arrive(m, d) ==
    /\ status[m] # "unsent"
    /\ held' = [held EXCEPT ![m] = @ \cup {d}]
    /\ UNCHANGED status

Complete(m) ==
    /\ status[m] = "pending"
    /\ held[m] # {}
    /\ status' = [status EXCEPT ![m] = "delivered"]
    /\ UNCHANGED held

GiveUp(m) ==
    /\ m \notin Resealable
    /\ status[m] = "pending"
    /\ status' = [status EXCEPT ![m] = "failed"]
    /\ UNCHANGED held

Cancel(m) ==
    /\ status[m] = "pending"
    /\ status' = [status EXCEPT ![m] = "cancelled"]
    /\ UNCHANGED held

Next == \E m \in Messages :
    \/ Send(m) \/ Complete(m) \/ GiveUp(m) \/ Cancel(m)
    \/ \E d \in Devices : Arrive(m, d)

Spec == Init /\ [][Next]_<<status, held>>
=============================================================================
