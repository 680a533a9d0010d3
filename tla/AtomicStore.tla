---------------------------- MODULE AtomicStore ----------------------------
(***************************************************************************)
(* What callers of a local store rely on: a batch of changes takes effect  *)
(* at once, and a power failure leaves the store with a content it had     *)
(* since the last call that promised durability.                           *)
(***************************************************************************)
CONSTANTS Keys, Values, None

VARIABLES content,   \* what the store holds
          promised   \* the contents that a power failure may leave

(* A batch gives some keys a new value, or None to delete them.            *)
Batches == UNION {[ks -> Values \cup {None}] : ks \in (SUBSET Keys) \ {{}}}

Init == /\ content = [k \in Keys |-> None]
        /\ promised = {content}

Write(batch) ==
    /\ content' = [k \in Keys |-> IF k \in DOMAIN batch THEN batch[k] ELSE content[k]]
    /\ promised' = promised \cup {content'}

Return == /\ promised' = {content}
          /\ UNCHANGED content

PowerFailure == /\ content' \in promised
                /\ promised' = {content'}

Next == \/ \E batch \in Batches : Write(batch)
        \/ Return
        \/ PowerFailure

Spec == Init /\ [][Next]_<<content, promised>>
=============================================================================
