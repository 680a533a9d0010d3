------------------------------ MODULE History ------------------------------
(***************************************************************************)
(* Transcripts as history.rs stores them: a thread is a sequence of        *)
(* segments of at most Segment rows, and every change rewrites only the    *)
(* segments it touches.  A row is [id, mine, text, until]: the message,    *)
(* whether we wrote it, its text and when it disappears (Forever: never).  *)
(***************************************************************************)
EXTENDS Naturals, Sequences, FiniteSets

CONSTANTS
    Segment,   \* rows per segment
    Forever    \* later than any time

ASSUME SegmentHoldsARow == Segment \in Nat \ {0}

Rows(thread) ==
    UNION {{thread[i][j] : j \in 1 .. Len(thread[i])} : i \in 1 .. Len(thread)}
Ids(thread) == {row.id : row \in Rows(thread)}

(* load_segments: segments one after the other.  The rows after row j of   *)
(* segment i, and which message stands before which.                       *)
After(thread, i, j) ==
    {thread[i][l] : l \in (j + 1) .. Len(thread[i])}
        \cup UNION {{thread[k][l] : l \in 1 .. Len(thread[k])} : k \in (i + 1) .. Len(thread)}

Order(thread) ==
    UNION {UNION {{<<thread[i][j].id, row.id>> : row \in After(thread, i, j)} :
               j \in 1 .. Len(thread[i])} : i \in 1 .. Len(thread)}

Expired(until, now) == until # Forever /\ now >= until

(* append_segment_mutations: into the tail, or a new segment when full.    *)
AppendRow(thread, row) ==
    IF thread = << >> THEN << <<row>> >>
    ELSE IF Len(thread[Len(thread)]) >= Segment
      THEN Append(thread, <<row>>)
    ELSE [thread EXCEPT ![Len(thread)] = Append(@, row)]

(* append: a message id that is in the transcript is not added again.      *)
AppendNew(thread, row) ==
    IF row.id \in Ids(thread) THEN thread ELSE AppendRow(thread, row)

(* Mutant of EditRow: anyone may edit.                                     *)
EditRowOfAny(thread, id, text, mine) ==
    [i \in 1 .. Len(thread) |-> [j \in 1 .. Len(thread[i]) |->
        IF thread[i][j].id = id
          THEN [thread[i][j] EXCEPT !.text = text] ELSE thread[i][j]]]

(* edit: only a row written by the side that edits it.                     *)
EditRow(thread, id, text, mine) ==
    [i \in 1 .. Len(thread) |-> [j \in 1 .. Len(thread[i]) |->
        IF thread[i][j].id = id /\ thread[i][j].mine = mine
          THEN [thread[i][j] EXCEPT !.text = text] ELSE thread[i][j]]]

(* filter, collect: the rows of a segment that are not in gone, each at    *)
(* the place that its rank among them gives it.                            *)
Without(segment, gone) ==
    LET kept == {j \in 1 .. Len(segment) : segment[j] \notin gone}
        Rank(j) == Cardinality({k \in kept : k <= j})
    IN [n \in 1 .. Cardinality(kept) |-> segment[CHOOSE j \in kept : Rank(j) = n]]

RemoveRows(thread, gone) == [i \in 1 .. Len(thread) |-> Without(thread[i], gone)]

(* delete: likewise.  A segment that becomes empty stays.                  *)
DeleteRow(thread, id, mine) ==
    RemoveRows(thread, {row \in Rows(thread) : row.id = id /\ row.mine = mine})

(* load_active: rows that have expired are removed when a thread is read.  *)
Prune(thread, now) ==
    RemoveRows(thread, {row \in Rows(thread) : Expired(row.until, now)})
=============================================================================
