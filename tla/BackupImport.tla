---------------------------- MODULE BackupImport ----------------------------
(***************************************************************************)
(* How a data directory of the command-line client gets its identity: the  *)
(* import of a backup, a new or adopted identity, and how it is wiped.     *)
(*                                                                         *)
(* An import stages the whole tree in a sibling directory and renames it   *)
(* into place.  Each file is synced with the directory that holds it, so   *)
(* what a power failure may undo are the unsynced changes of the parent    *)
(* directory: which of the two directories exist there.                    *)
(***************************************************************************)
EXTENDS Naturals, FiniteSets

CONSTANTS
    Bundles,        \* backup files that the person has
    StoreNames,     \* names of store entries: hex, as FileStore makes them
    Entries,        \* Entries[b]: the names of the store entries in bundle b
    Openable,       \* bundles whose identity the person's passphrase opens
    None,           \* no file
    Own,            \* contents of an identity made by identity-new or adopt
    Overlaps,       \* two commands may run at the same time
    MaxImports,     \* bound on imports
    MaxWipes        \* bound on wipes

ASSUME BackupAssumption ==
    /\ {None, Own} \cap Bundles = {} /\ None # Own
    /\ Openable \subseteq Bundles
    /\ Overlaps \in BOOLEAN
    /\ MaxImports \in Nat /\ MaxWipes \in Nat

Names == StoreNames \cup UNION {Entries[b] : b \in Bundles}

(* A tree holds the identity and the store entries; a file is written with *)
(* the contents of one bundle or of this device's own identity.            *)
Tree == [identity : Bundles \cup {Own, None}, store : [Names -> Bundles \cup {None}]]
Empty == [identity |-> None, store |-> [n \in Names |-> None]]

ASSUME AbsentIsNoTree == None \notin Tree

(* The data directory and the staging directory beside it; None if absent. *)
Parent == [dest : Tree \cup {None}, staging : Tree \cup {None}]

VARIABLES
    parent,     \* the two directories as processes see them
    may,        \* what a power failure may leave of them
    pc,         \* the step of the import
    bundle,     \* the backup it imports
    left,       \* store entries it has still to write
    newId,      \* identity-new has seen that there is no identity yet
    imported,   \* backup that an import reported as imported (history)
    imports, wipes

vars == <<parent, may, pc, bundle, left, newId, imported, imports, wipes>>

TypeOK ==
    /\ parent \in Parent
    /\ may \subseteq Parent
    /\ pc \in {"idle", "clear", "stage", "identity", "write", "rename", "sync"}
    /\ bundle \in Bundles \cup {None}
    /\ left \subseteq Names
    /\ newId \in BOOLEAN
    /\ imported \in Bundles \cup {None}
    /\ imports \in 0..MaxImports /\ wipes \in 0..MaxWipes

Init ==
    /\ parent \in [dest : {None, Empty}, staging : {None}]
    /\ may = {parent}
    /\ pc = "idle" /\ bundle = None /\ left = {}
    /\ newId = FALSE
    /\ imported = None
    /\ imports = 0 /\ wipes = 0

(* A change of the directories: until the parent is synced a power failure *)
(* may leave any of the states since the last sync.                        *)
Change(p) == parent' = p /\ may' = may \cup {p}

HasIdentity == parent.dest # None /\ parent.dest.identity # None
Occupied == parent.dest \notin {None, Empty}

-----------------------------------------------------------------------------
(* open_identity: the passphrase opens the identity of the file, and what  *)
(* it opens is an identity.                                                *)
Opens(b) == b \in Openable

(* Entry names must be hex.                                                *)
ValidNames(b) == Entries[b] \subseteq StoreNames

(* import_backup refuses where there is an identity.  A wrong passphrase,  *)
(* a file that is no backup or a bad entry name end the command here, with *)
(* nothing changed.                                                        *)
StartImport(b) ==
    /\ pc = "idle"
    /\ Overlaps \/ ~newId
    /\ imports < MaxImports
    /\ ~HasIdentity
    /\ imports' = imports + 1
    /\ IF Opens(b) /\ ValidNames(b) THEN pc' = "clear" /\ bundle' = b
                                     ELSE UNCHANGED <<pc, bundle>>
    /\ UNCHANGED <<parent, may, left, newId, imported, wipes>>

End == pc' = "idle" /\ bundle' = None /\ left' = {}

(* publish_backup_tree: a data directory that holds anything is refused,   *)
(* an empty one is removed.                                                *)
DestinationInUse ==
    /\ pc = "clear" /\ Occupied
    /\ End
    /\ UNCHANGED <<parent, may, newId, imported, imports, wipes>>

ClearDestination ==
    /\ pc = "clear" /\ ~Occupied
    /\ Change([parent EXCEPT !.dest = None])
    /\ pc' = "stage"
    /\ UNCHANGED <<bundle, left, newId, imported, imports, wipes>>

(* Mutant of Stage: what an import that was cut short has left stays.      *)
StageOver ==
    /\ pc = "stage"
    /\ Change([parent EXCEPT !.staging = IF @ = None THEN Empty ELSE @])
    /\ pc' = "identity"
    /\ left' = Entries[bundle]
    /\ UNCHANGED <<bundle, newId, imported, imports, wipes>>

(* The known staging directory is removed and made again.                  *)
Stage ==
    /\ pc = "stage"
    /\ Change([parent EXCEPT !.staging = Empty])
    /\ pc' = "identity"
    /\ left' = Entries[bundle]
    /\ UNCHANGED <<bundle, newId, imported, imports, wipes>>

(* atomic_write of identity.enc, then of each entry, each synced.          *)
WriteIdentity ==
    /\ pc = "identity"
    /\ Change([parent EXCEPT !.staging.identity = bundle])
    /\ pc' = "write"
    /\ UNCHANGED <<bundle, left, newId, imported, imports, wipes>>

WriteEntry(n) ==
    /\ pc = "write"
    /\ n \in left
    /\ Change([parent EXCEPT !.staging.store[n] = bundle])
    /\ left' = left \ {n}
    /\ UNCHANGED <<pc, bundle, newId, imported, imports, wipes>>

(* The rename that publishes the tree.  It replaces an empty directory and *)
(* fails on any other (ImportFails).                                       *)
Publish ==
    /\ pc = "write" /\ left = {} /\ ~Occupied
    /\ Change([dest |-> parent.staging, staging |-> None])
    /\ pc' = "sync"
    /\ UNCHANGED <<bundle, left, newId, imported, imports, wipes>>

(* Mutant of SyncParent: the import reports success before the sync.       *)
SyncParentForgotten ==
    /\ pc = "sync"
    /\ imported' = bundle
    /\ End
    /\ UNCHANGED <<parent, may, newId, imports, wipes>>

(* The parent directory is synced and the import is reported.              *)
SyncParent ==
    /\ pc = "sync"
    /\ may' = {parent}
    /\ imported' = bundle
    /\ End
    /\ UNCHANGED <<parent, newId, imports, wipes>>

(* A call fails, the rename onto a directory in use among them: the import *)
(* removes what it staged and reports the error.                           *)
ImportFails ==
    /\ pc \in {"identity", "write", "sync"}
    /\ Change([parent EXCEPT !.staging = None])
    /\ End
    /\ UNCHANGED <<newId, imported, imports, wipes>>

-----------------------------------------------------------------------------
(* identity_new and identity_adopt: the check, then the prompt for a       *)
(* passphrase, then the sealed identity is written.                        *)
StartIdentity ==
    /\ ~newId
    /\ Overlaps \/ pc = "idle"
    /\ ~HasIdentity
    /\ newId' = TRUE
    /\ UNCHANGED <<parent, may, pc, bundle, left, imported, imports, wipes>>

SaveIdentity ==
    /\ newId
    /\ Change([parent EXCEPT !.dest =
                 [(IF @ = None THEN Empty ELSE @) EXCEPT !.identity = Own]])
    /\ newId' = FALSE
    /\ UNCHANGED <<pc, bundle, left, imported, imports, wipes>>

(* The passphrase is too short or was not repeated.                        *)
IdentityRefused ==
    /\ newId
    /\ newId' = FALSE
    /\ UNCHANGED <<parent, may, pc, bundle, left, imported, imports, wipes>>

(* wipe: remove_dir_all of the data directory, which may be cut short with *)
(* any of its files removed.                                               *)
Kept(tree) ==
    {t \in Tree : /\ t.identity \in {tree.identity, None}
                  /\ \A n \in Names : t.store[n] \in {tree.store[n], None}}

Wipe ==
    /\ wipes < MaxWipes
    /\ Overlaps \/ (pc = "idle" /\ ~newId)
    /\ parent.dest # None
    /\ wipes' = wipes + 1
    /\ \E d \in Kept(parent.dest) \cup {None} : Change([parent EXCEPT !.dest = d])
    /\ imported' = None
    /\ UNCHANGED <<pc, bundle, left, newId, imports>>

(* The command is killed.                                                  *)
Crash ==
    /\ pc # "idle" \/ newId
    /\ End
    /\ newId' = FALSE
    /\ UNCHANGED <<parent, may, imported, imports, wipes>>

PowerLoss ==
    /\ parent' \in may
    /\ may' = {parent'}
    /\ End
    /\ newId' = FALSE
    /\ UNCHANGED <<imported, imports, wipes>>

Next ==
    \/ \E b \in Bundles : StartImport(b)
    \/ DestinationInUse
    \/ ClearDestination
    \/ Stage
    \/ WriteIdentity
    \/ \E n \in Names : WriteEntry(n)
    \/ Publish
    \/ SyncParent
    \/ ImportFails
    \/ StartIdentity
    \/ SaveIdentity
    \/ IdentityRefused
    \/ Wipe
    \/ Crash
    \/ PowerLoss

Spec == Init /\ [][Next]_vars

-----------------------------------------------------------------------------
Whole(b) == [identity |-> b, store |-> [n \in Names |-> IF n \in Entries[b] THEN b ELSE None]]

(* Until something is wiped, a data directory that has an identity from a  *)
(* backup has exactly that backup: no entry is missing and none is left    *)
(* from another import, now or after a power failure (publish_backup_tree: *)
(* "A crash after rename sees the complete tree").                         *)
CompleteOrAbsent ==
    wipes = 0 => \A p \in may \cup {parent} :
        \/ p.dest \in {None, Empty} \cup {Whole(b) : b \in Bundles}
        \/ p.dest = [Empty EXCEPT !.identity = Own]

(* A backup that was reported as imported is in place until it is wiped,   *)
(* whatever is run after it and whenever the power fails.                  *)
ImportedStays ==
    imported # None => \A p \in may \cup {parent} : p.dest = Whole(imported)
=============================================================================
