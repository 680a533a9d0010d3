---------------------------- MODULE MCFileStore ----------------------------
(* Small instances of FileStore for TLC.                                   *)
EXTENDS FileStore, TLC

MCSymmetry == Permutations(Keys) \cup Permutations(Values)
=============================================================================
