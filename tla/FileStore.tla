----------------------------- MODULE FileStore -----------------------------
(***************************************************************************)
(* The encrypted key-value store of a client (mycellium-storage): one file *)
(* per key in one directory, and a write-ahead journal that makes a batch  *)
(* of changes one unit across crashes.                                     *)
(*                                                                         *)
(* A rename or removal is visible at once, but survives a power failure    *)
(* for sure only after the directory was synced.  The store is used by one *)
(* thread at a time and one process: &mut self and the process lock.       *)
(***************************************************************************)
EXTENDS Naturals, FiniteSets

CONSTANTS
    Keys,           \* storage keys
    Values,         \* stored values (a file is written whole, by rename)
    None,           \* no file, no journal
    KeepsOrder,     \* the file system keeps directory changes in their order
    IoFaults,       \* calls of the file system may fail
    MaxUnsynced     \* bound on the directory states a power failure may leave

ASSUME FileStoreAssumption ==
    /\ None \notin Values
    /\ KeepsOrder \in BOOLEAN
    /\ IoFaults \in BOOLEAN
    /\ MaxUnsynced \in Nat

(* The mutations of a batch: a new value, or None to delete.               *)
Batches == UNION {[ks -> Values \cup {None}] : ks \in (SUBSET Keys) \ {{}}}

ASSUME NoneIsNoBatch == None \notin Batches

(* What a directory holds.                                                 *)
Directory == [files : [Keys -> Values \cup {None}], journal : Batches \cup {None}]

Pcs == {"closed", "ready", "put", "journal", "apply", "applying", "finish"}

VARIABLES
    dir,        \* the directory as processes see it
    may,        \* the directories that a power failure now may leave
    pc,         \* what the open store is doing
    todo,       \* keys of the journal still to be applied
    opening,    \* the journal is replayed by open
    promised    \* contents callers may find after a power failure (history)

vars == <<dir, may, pc, todo, opening, promised>>

(* The content of a directory once it has been opened: the journal, if     *)
(* there is one, goes over the files.                                      *)
Content(d) == [k \in Keys |->
    IF d.journal # None /\ k \in DOMAIN d.journal THEN d.journal[k] ELSE d.files[k]]

TypeOK ==
    /\ dir \in Directory
    /\ may \subseteq Directory
    /\ pc \in Pcs
    /\ todo \subseteq Keys
    /\ opening \in BOOLEAN
    /\ promised \subseteq [Keys -> Values \cup {None}]

Init ==
    /\ dir = [files |-> [k \in Keys |-> None], journal |-> None]
    /\ may = {dir}
    /\ pc = "closed"
    /\ todo = {}
    /\ opening = FALSE
    /\ promised = {Content(dir)}

-----------------------------------------------------------------------------
(* Directory changes.  Until a sync, the newest one may be missing after a *)
(* power failure; where order is not kept, any of them may.                *)
SetFile(k, v) ==
    /\ dir' = [dir EXCEPT !.files[k] = v]
    /\ may' = may \cup (IF KeepsOrder THEN {dir'}
                        ELSE {[d EXCEPT !.files[k] = v] : d \in may})

SetJournal(batch) ==
    /\ dir' = [dir EXCEPT !.journal = batch]
    /\ may' = may \cup (IF KeepsOrder THEN {dir'}
                        ELSE {[d EXCEPT !.journal = batch] : d \in may})

Sync == /\ may' = {dir}
        /\ UNCHANGED dir

(* ensure_ready: no journal is waiting for a reopen to replay it.          *)
Ready == pc = "ready" /\ dir.journal = None

(* The bound: a write starts only while few directory states are unsynced. *)
Room == Cardinality(may) <= MaxUnsynced

(* The new content may be found from now on; a call that returns after a   *)
(* sync promises that only the present content is.                         *)
Shown == promised' = promised \cup {Content(dir')}
Returned == promised' = {Content(dir)}

-----------------------------------------------------------------------------
(* open: takes the process lock (one open store), then recover_transaction *)
(* replays a journal that was left behind.                                 *)
Open ==
    /\ pc = "closed"
    /\ IF dir.journal = None
       THEN pc' = "ready" /\ todo' = {} /\ opening' = FALSE
       ELSE pc' = "apply" /\ todo' = DOMAIN dir.journal /\ opening' = TRUE
    /\ UNCHANGED <<dir, may, promised>>

(* put: the renamed file is seen first, then the directory is synced.      *)
Put(k, v) ==
    /\ Ready
    /\ Room
    /\ SetFile(k, v)
    /\ Shown
    /\ pc' = "put"
    /\ UNCHANGED <<todo, opening>>

(* Mutant of PutSync: put returns without the sync of the directory.       *)
PutSyncForgotten ==
    /\ pc = "put"
    /\ Returned
    /\ pc' = "ready"
    /\ UNCHANGED <<dir, may, todo, opening>>

PutSync ==
    /\ pc = "put"
    /\ Sync
    /\ Returned
    /\ pc' = "ready"
    /\ UNCHANGED <<todo, opening>>

(* delete: removes the file and syncs nothing.                             *)
Delete(k) ==
    /\ Ready
    /\ Room
    /\ SetFile(k, None)
    /\ Shown
    /\ UNCHANGED <<pc, todo, opening>>

(* commit and apply_batch: the journal is renamed into place, synced, each *)
(* mutation is applied, and the journal is removed.                        *)
Commit(batch) ==
    /\ Ready
    /\ Room
    /\ SetJournal(batch)
    /\ Shown
    /\ pc' = "journal"
    /\ todo' = DOMAIN batch
    /\ UNCHANGED opening

(* Mutant of JournalSync: mutations are applied before the journal is      *)
(* durable.                                                                *)
JournalSyncForgotten ==
    /\ pc = "journal"
    /\ pc' = "apply"
    /\ UNCHANGED <<dir, may, todo, opening, promised>>

JournalSync ==
    /\ pc = "journal"
    /\ Sync
    /\ pc' = "apply"
    /\ UNCHANGED <<todo, opening, promised>>

ApplyPut(k) ==
    /\ pc = "apply"
    /\ k \in todo
    /\ dir.journal[k] # None
    /\ SetFile(k, dir.journal[k])
    /\ todo' = todo \ {k}
    /\ pc' = "applying"
    /\ UNCHANGED <<opening, promised>>

ApplySync ==
    /\ pc = "applying"
    /\ Sync
    /\ pc' = "apply"
    /\ UNCHANGED <<todo, opening, promised>>

ApplyDelete(k) ==
    /\ pc = "apply"
    /\ k \in todo
    /\ dir.journal[k] = None
    /\ SetFile(k, None)
    /\ todo' = todo \ {k}
    /\ UNCHANGED <<pc, opening, promised>>

(* Mutant of RemoveJournal: the journal goes before all of it is applied.  *)
RemoveJournalEarly ==
    /\ pc = "apply"
    /\ SetJournal(None)
    /\ pc' = "finish"
    /\ UNCHANGED <<todo, opening, promised>>

RemoveJournal ==
    /\ pc = "apply"
    /\ todo = {}
    /\ SetJournal(None)
    /\ pc' = "finish"
    /\ UNCHANGED <<todo, opening, promised>>

FinishSync ==
    /\ pc = "finish"
    /\ Sync
    /\ Returned
    /\ pc' = "ready"
    /\ opening' = FALSE
    /\ UNCHANGED todo

(* A file system call fails: the store's call returns the error and leaves *)
(* what was done; a journal that is still there keeps the store unready.   *)
Fault ==
    /\ IoFaults
    /\ pc \notin {"closed", "ready"}
    /\ pc' = IF opening THEN "closed" ELSE "ready"
    /\ todo' = {}
    /\ opening' = FALSE
    /\ UNCHANGED <<dir, may, promised>>

(* The process ends or is killed; the system and its caches live on.       *)
Crash ==
    /\ pc # "closed"
    /\ pc' = "closed"
    /\ todo' = {}
    /\ opening' = FALSE
    /\ UNCHANGED <<dir, may, promised>>

PowerLoss ==
    /\ dir' \in may
    /\ may' = {dir'}
    /\ promised' = {Content(dir')}
    /\ pc' = "closed"
    /\ todo' = {}
    /\ opening' = FALSE

Next ==
    \/ Open
    \/ \E k \in Keys, v \in Values : Put(k, v)
    \/ PutSync
    \/ \E k \in Keys : Delete(k)
    \/ \E batch \in Batches : Commit(batch)
    \/ JournalSync
    \/ \E k \in Keys : ApplyPut(k)
    \/ ApplySync
    \/ \E k \in Keys : ApplyDelete(k)
    \/ RemoveJournal
    \/ FinishSync
    \/ Fault
    \/ Crash
    \/ PowerLoss

Spec == Init /\ [][Next]_vars

-----------------------------------------------------------------------------
(* Whatever moment the power fails at, the reopened store holds a content  *)
(* it really had since the last call that synced and returned: no batch of *)
(* commit or apply_batch is torn and none that returned is lost.           *)
AllOrNothing == \A d \in may : Content(d) \in promised

(* Once the journal of a commit is synced, every directory that a power    *)
(* failure may leave holds the whole batch when it is opened again, until  *)
(* the call returns ("recovery replays every mutation after a crash").     *)
JournalHolds ==
    pc \in {"apply", "applying", "finish"} /\ ~opening =>
        \A d \in may : Content(d) = Content(dir)

(* A store that answers reads (ensure_ready) never shows a half-applied    *)
(* batch, whether its journal was applied by the call or by open, also     *)
(* after a call that failed: every batch changes the content in one step.  *)
Atomic == INSTANCE AtomicStore WITH content <- Content(dir)
ImplementsAtomic == Atomic!Spec
=============================================================================
