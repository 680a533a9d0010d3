---------------------------- MODULE BackupExport ----------------------------
(***************************************************************************)
(* export_backup of the command-line client: it opens the store, which     *)
(* replays a journal that was left behind, closes it again, and collects   *)
(* the files of its directory into a bundle, one after the other, while    *)
(* another process may have opened the store.                              *)
(***************************************************************************)
EXTENDS FileStore

CONSTANTS
    Lock,       \* name of the lock file that open makes in the directory
    Journal     \* name of the journal file

Names == Keys \cup {Lock, Journal}

VARIABLES
    export,     \* the step of the export
    unread,     \* file names that read_dir gave and that are not yet read
    bundle,     \* what is collected: a function from names to contents
    held        \* contents of the store since it was listed (history)

exportVars == <<export, unread, bundle, held>>

ExportTypeOK ==
    /\ export \in {"idle", "open", "list", "read", "done"}
    /\ unread \subseteq Names
    /\ DOMAIN bundle \subseteq Names
    /\ held \subseteq [Keys -> Values \cup {None}]

ExportInit ==
    /\ Init
    /\ export = "idle" /\ unread = {} /\ bundle = <<>> /\ held = {}

(* load_identity, then open_history: the lock must be free.                *)
StartExport ==
    /\ export = "idle"
    /\ Open
    /\ export' = "open"
    /\ UNCHANGED <<unread, bundle, held>>

(* The handle is dropped, and the lock with it.                            *)
DropStore ==
    /\ export = "open" /\ pc = "ready"
    /\ pc' = "closed"
    /\ export' = "list"
    /\ UNCHANGED <<dir, may, todo, opening, promised, unread, bundle, held>>

(* Every regular file of the directory; the lock file stays when the store *)
(* is closed.                                                              *)
FileNames == {k \in Keys : dir.files[k] # None} \cup {Lock}
                \cup (IF dir.journal # None THEN {Journal} ELSE {})

ListFiles ==
    /\ export = "list"
    /\ unread' = FileNames
    /\ held' = {Content(dir)}
    /\ bundle' = <<>>
    /\ export' = "read"
    /\ UNCHANGED vars

FileContents(n) ==
    CASE n = Lock -> "empty" [] n = Journal -> dir.journal [] OTHER -> dir.files[n]

ReadFile(n) ==
    /\ export = "read"
    /\ n \in unread \cap FileNames
    /\ bundle' = [m \in DOMAIN bundle \cup {n} |-> IF m = n THEN FileContents(n) ELSE bundle[m]]
    /\ unread' = unread \ {n}
    /\ UNCHANGED <<vars, export, held>>

(* A listed file is gone: the export ends with the error.                  *)
FileGone ==
    /\ export = "read"
    /\ unread \ FileNames # {}
    /\ export' = "idle" /\ unread' = {} /\ bundle' = <<>> /\ held' = {}
    /\ UNCHANGED vars

WriteBundle ==
    /\ export = "read" /\ unread = {}
    /\ export' = "done"
    /\ UNCHANGED <<vars, unread, bundle, held>>

(* The store while the export has it open: only the recovery of open runs. *)
Recovers ==
    /\ export = "open"
    /\ \/ \E k \in Keys : ApplyPut(k) \/ ApplyDelete(k)
       \/ ApplySync \/ RemoveJournal \/ FinishSync
    /\ UNCHANGED exportVars

(* Opening the store fails, or the export is killed while it has it open.  *)
ExportFails ==
    /\ export = "open"
    /\ Fault \/ Crash
    /\ export' = "idle"
    /\ UNCHANGED <<unread, bundle, held>>

(* The store in the hands of another process.                              *)
OtherProcess ==
    /\ export # "open"
    /\ Next
    /\ held' = IF export = "read" THEN held \cup {Content(dir')} ELSE held
    /\ UNCHANGED <<export, unread, bundle>>

ExportNext ==
    \/ StartExport \/ DropStore \/ ListFiles \/ FileGone \/ WriteBundle
    \/ \E n \in Names : ReadFile(n)
    \/ Recovers \/ ExportFails \/ OtherProcess

ExportSpec == ExportInit /\ [][ExportNext]_<<vars, exportVars>>

-----------------------------------------------------------------------------
(* import_backup accepts a bundle all of whose entry names are hex: the    *)
(* name of a key is (FileStore::path), those of the lock file and of the   *)
(* journal are not.                                                        *)
Importable(b) == DOMAIN b \subseteq Keys

(* What export_backup writes can be restored with import_backup ("A        *)
(* portable backup: the encrypted identity plus every store entry").       *)
ExportsRestorable == export = "done" => Importable(bundle)

(* A bundle holds a state that the store really was in while it was read:  *)
(* no batch of another process is there in part only.                      *)
Restored(b) ==
    [k \in Keys |-> IF Journal \in DOMAIN b /\ k \in DOMAIN b[Journal] THEN b[Journal][k]
                    ELSE IF k \in DOMAIN b THEN b[k] ELSE None]
ExportsOneState == export = "done" => Restored(bundle) \in held
=============================================================================
