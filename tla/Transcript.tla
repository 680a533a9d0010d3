----------------------------- MODULE Transcript -----------------------------
(***************************************************************************)
(* What a transcript promises.  Rows stand in the order in which they came *)
(* in and a message is there once.  What a row says is what its author     *)
(* said: only the author's messages add rows, change their text or take    *)
(* them back.  Nothing else disappears, except by expiry or when the user  *)
(* clears the whole transcript.                                            *)
(***************************************************************************)
EXTENDS Naturals

CONSTANTS Owners, Persons, Forever
VARIABLES rows,   \* rows[s][p]: the rows of s's transcript with p
          order,  \* order[s][p]: <<a, b>> when message a stands before b there
          said,   \* every message anyone has sent
          now

vars == <<rows, order, said, now>>

Author(s, p, row) == IF row.mine THEN s ELSE p

Added(s, p) == \E m \in said' :
    /\ m.kind = "text"
    /\ \A row \in rows[s][p] : row.id # m.id
    /\ {m.from, m.to} = {s, p}
    /\ rows'[s][p] = rows[s][p] \cup
         {[id |-> m.id, mine |-> m.from = s, text |-> m.id, until |-> m.until]}
    /\ order'[s][p] = order[s][p] \cup {<<row.id, m.id>> : row \in rows[s][p]}

Edited(s, p) == \E m \in said', row \in rows[s][p] :
    /\ m.kind = "edit"
    /\ m.target = row.id
    /\ m.from = Author(s, p, row)
    /\ rows'[s][p] = (rows[s][p] \ {row}) \cup {[row EXCEPT !.text = m.id]}
    /\ order'[s][p] = order[s][p]

(* The rows in gone disappear, and the others keep their order.            *)
Lost(s, p, gone) ==
    /\ rows'[s][p] = rows[s][p] \ gone
    /\ order'[s][p] = {x \in order[s][p] : \A row \in rows[s][p] \cap gone :
                          row.id # x[1] /\ row.id # x[2]}

TakenBack(s, p) == \E m \in said' :
    /\ m.kind = "delete"
    /\ Lost(s, p, {row \in rows[s][p] :
                     row.id = m.target /\ m.from = Author(s, p, row)})

Pruned(s, p) == Lost(s, p, {row \in rows[s][p] :
                              row.until # Forever /\ now >= row.until})

Cleared(s, p) == Lost(s, p, rows[s][p])

Changed(s, p) == \/ Added(s, p) \/ Edited(s, p) \/ TakenBack(s, p)
                 \/ Pruned(s, p) \/ Cleared(s, p)

Init ==
    /\ rows = [s \in Owners |-> [p \in Persons |-> {}]]
    /\ order = [s \in Owners |-> [p \in Persons |-> {}]]
    /\ said = {}
    /\ now = 0

Next ==
    /\ said \subseteq said'
    /\ now <= now'
    /\ \A s \in Owners, p \in Persons :
         <<rows'[s][p], order'[s][p]>> # <<rows[s][p], order[s][p]>> => Changed(s, p)

Spec == Init /\ [][Next]_vars
=============================================================================
