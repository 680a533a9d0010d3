--------------------------- MODULE MCBackupImport ---------------------------
(* A small instance of BackupImport: two backups that differ in the store  *)
(* entries they hold, one that also holds the lock file of the store, and  *)
(* one whose passphrase is forgotten.                                      *)
EXTENDS BackupImport, TLC

CONSTANTS b1, b2, b3, b4, n1, n2, lock

MCEntries == b1 :> {n1, n2} @@ b2 :> {n2} @@ b3 :> {n1, lock} @@ b4 :> {n1}
=============================================================================
