------------------------- MODULE BackupImport_proof -------------------------
(***************************************************************************)
(* Proofs about BackupImport, for any backups, names and bounds.           *)
(*                                                                         *)
(* What is staged is at each step the part of the backup that has been     *)
(* written (StageInv).  As long as commands do not overlap, the data       *)
(* directory is absent from the moment it was found empty until the staged *)
(* tree is renamed into its place (AloneInv); from these two follow that a *)
(* tree appears whole and that nothing takes its place.                    *)
(***************************************************************************)
EXTENDS BackupImport, TLAPS

(* The tree of backup b without the entries in rest.                       *)
Part(b, rest) ==
    [identity |-> b,
     store |-> [n \in Names |-> IF n \in Entries[b] \ rest THEN b ELSE None]]

(* An import in progress has a backup, and the staging directory holds     *)
(* what has been written of it.                                            *)
StageInv ==
    /\ pc # "idle" => bundle \in Bundles
    /\ pc = "identity" => parent.staging = Empty /\ left = Entries[bundle]
    /\ pc = "write" => /\ left \subseteq Entries[bundle]
                       /\ parent.staging = Part(bundle, left)
    /\ pc = "sync" => left = {}

(* Commands run one after the other, and only where there is no backup.    *)
AloneInv ==
    /\ ~ (newId /\ pc # "idle")
    /\ newId => ~ HasIdentity
    /\ newId \/ pc # "idle" => imported = None
    /\ pc \in {"stage", "identity", "write"} => parent.dest = None
    /\ pc = "sync" => parent.dest = Whole(bundle)

(* What a data directory may be before anything is wiped.                  *)
Proper == {None, Empty, [Empty EXCEPT !.identity = Own]} \cup {Whole(b) : b \in Bundles}

ImportInv == TypeOK /\ StageInv
FullInv == ImportInv /\ AloneInv /\ parent \in may /\ CompleteOrAbsent /\ ImportedStays
-----------------------------------------------------------------------------
(* The trees that the commands make are trees.                             *)
LEMMA TreesAreTrees ==
    /\ Empty \in Tree
    /\ [Empty EXCEPT !.identity = Own] \in Tree
    /\ \A b \in Bundles : Whole(b) \in Tree /\ Whole(b).identity = b /\ b # None
    /\ \A b \in Bundles : \A rest : Part(b, rest) \in Tree
BY BackupAssumption DEF Empty, Tree, Whole, Part

(* The entries of a backup are names.                                      *)
LEMMA EntriesAreNames == \A b \in Bundles : Entries[b] \subseteq Names
BY DEF Names

(* What the writing of the identity and of an entry make of the staged     *)
(* tree, and what is staged when nothing is left (publish_backup_tree).    *)
LEMMA StagedTrees ==
    ASSUME NEW b \in Bundles
    PROVE  /\ [Empty EXCEPT !.identity = b] = Part(b, Entries[b])
           /\ Part(b, {}) = Whole(b)
           /\ \A rest : \A n \in rest : rest \subseteq Entries[b] =>
                [Part(b, rest) EXCEPT !.store[n] = b] = Part(b, rest \ {n})
<1>1. [Empty EXCEPT !.identity = b] = Part(b, Entries[b])
  BY DEF Empty, Part
<1>2. Part(b, {}) = Whole(b)
  BY DEF Part, Whole
<1>3. ASSUME NEW rest, NEW n \in rest, rest \subseteq Entries[b]
      PROVE  [Part(b, rest) EXCEPT !.store[n] = b] = Part(b, rest \ {n})
  <2>1. n \in Names
    BY <1>3, EntriesAreNames
  <2>2. [[m \in Names |-> IF m \in Entries[b] \ rest THEN b ELSE None] EXCEPT ![n] = b]
          = [m \in Names |-> IF m \in Entries[b] \ (rest \ {n}) THEN b ELSE None]
    BY <1>3, <2>1
  <2>3. \A f : [[identity |-> b, store |-> f] EXCEPT !.store[n] = b]
                  = [identity |-> b, store |-> [f EXCEPT ![n] = b]]
    OBVIOUS
  <2>4. QED
    BY <2>2, <2>3 DEF Part
<1>4. QED
  BY <1>1, <1>2, <1>3

(* A change of the directories that keeps them directories.                *)
LEMMA ChangeTyped ==
    ASSUME TypeOK, NEW p \in Parent, Change(p)
    PROVE  parent' \in Parent /\ may' \subseteq Parent
BY DEF TypeOK, Change
-----------------------------------------------------------------------------
LEMMA InitImport == Init => ImportInv
<1> SUFFICES ASSUME Init PROVE ImportInv
  OBVIOUS
<1>1. parent \in Parent /\ may \subseteq Parent
  BY TreesAreTrees DEF Init, Parent
<1>2. TypeOK
  <2>1. imports \in 0 .. MaxImports /\ wipes \in 0 .. MaxWipes
    BY BackupAssumption DEF Init
  <2>2. QED
    BY <1>1, <2>1 DEF Init, TypeOK
<1>3. StageInv
  BY DEF Init, StageInv
<1>4. QED
  BY <1>2, <1>3 DEF ImportInv

LEMMA NextImport == ImportInv /\ [Next]_vars => ImportInv'
<1> SUFFICES ASSUME ImportInv, [Next]_vars PROVE ImportInv'
  OBVIOUS
<1> USE DEF ImportInv
<1>0. TypeOK /\ StageInv
  OBVIOUS
<1>d. \A d \in Tree \cup {None} : [parent EXCEPT !.dest = d] \in Parent
  BY <1>0 DEF TypeOK, Parent
<1>s. \A t \in Tree \cup {None} : [parent EXCEPT !.staging = t] \in Parent
  BY <1>0 DEF TypeOK, Parent
<1>1. ASSUME NEW b \in Bundles, StartImport(b) PROVE ImportInv'
  BY <1>0, <1>1, BackupAssumption DEF StartImport, TypeOK, StageInv
<1>2. CASE DestinationInUse
  BY <1>0, <1>2 DEF DestinationInUse, End, TypeOK, StageInv
<1>3. CASE ClearDestination
  <2>1. parent' \in Parent /\ may' \subseteq Parent
    BY <1>0, <1>3, <1>d, ChangeTyped DEF ClearDestination
  <2>2. QED
    BY <1>0, <1>3, <2>1 DEF ClearDestination, TypeOK, StageInv
<1>4. CASE Stage
  <2>1. parent' \in Parent /\ may' \subseteq Parent
    BY <1>0, <1>4, <1>s, ChangeTyped, TreesAreTrees DEF Stage
  <2>2. parent'.staging = Empty
    BY <1>0, <1>4 DEF Stage, Change, TypeOK, Parent
  <2>3. QED
    BY <1>0, <1>4, <2>1, <2>2, EntriesAreNames DEF Stage, TypeOK, StageInv
<1>5. CASE WriteIdentity
  <2>1. [parent EXCEPT !.staging.identity = bundle]
          = [parent EXCEPT !.staging = Part(bundle, Entries[bundle])]
    BY <1>0, <1>5, StagedTrees DEF WriteIdentity, StageInv, TypeOK, Parent
  <2>2. bundle \in Bundles
    BY <1>0, <1>5 DEF WriteIdentity, StageInv
  <2>3. parent' \in Parent /\ may' \subseteq Parent
    BY <1>0, <1>5, <1>s, <2>1, <2>2, ChangeTyped, TreesAreTrees DEF WriteIdentity
  <2>4. parent'.staging = Part(bundle, Entries[bundle])
    BY <1>0, <1>5, <2>1 DEF WriteIdentity, Change, TypeOK, Parent
  <2>5. QED
    BY <1>0, <1>5, <2>2, <2>3, <2>4 DEF WriteIdentity, TypeOK, StageInv
<1>6. ASSUME NEW n \in Names, WriteEntry(n) PROVE ImportInv'
  <2>1. bundle \in Bundles /\ left \subseteq Entries[bundle] /\ n \in left
        /\ parent.staging = Part(bundle, left)
    BY <1>0, <1>6 DEF WriteEntry, StageInv
  <2>2. [parent EXCEPT !.staging.store[n] = bundle]
          = [parent EXCEPT !.staging = Part(bundle, left \ {n})]
    <3>1. [parent EXCEPT !.staging.store[n] = bundle]
            = [parent EXCEPT !.staging = [parent.staging EXCEPT !.store[n] = bundle]]
      BY <1>0 DEF TypeOK, Parent
    <3>2. [Part(bundle, left) EXCEPT !.store[n] = bundle] = Part(bundle, left \ {n})
      BY <2>1, StagedTrees
    <3>3. QED
      BY <3>1, <3>2, <2>1
  <2>3. parent' \in Parent /\ may' \subseteq Parent
    BY <1>0, <1>6, <1>s, <2>1, <2>2, ChangeTyped, TreesAreTrees DEF WriteEntry
  <2>4. parent'.staging = Part(bundle, left \ {n})
    BY <1>0, <1>6, <2>2 DEF WriteEntry, Change, TypeOK, Parent
  <2>5. QED
    BY <1>0, <1>6, <2>1, <2>3, <2>4 DEF WriteEntry, TypeOK, StageInv
<1>7. CASE Publish
  <2>1. [dest |-> parent.staging, staging |-> None] \in Parent
    BY <1>0 DEF TypeOK, Parent
  <2>2. parent' \in Parent /\ may' \subseteq Parent
    BY <1>0, <1>7, <2>1, ChangeTyped DEF Publish
  <2>3. QED
    BY <1>0, <1>7, <2>2 DEF Publish, TypeOK, StageInv
<1>8. CASE SyncParent
  BY <1>0, <1>8 DEF SyncParent, End, TypeOK, StageInv
<1>9. CASE ImportFails
  <2>1. parent' \in Parent /\ may' \subseteq Parent
    BY <1>0, <1>9, <1>s, ChangeTyped DEF ImportFails
  <2>2. QED
    BY <1>0, <1>9, <2>1 DEF ImportFails, End, TypeOK, StageInv
<1>10. CASE StartIdentity
  BY <1>0, <1>10 DEF StartIdentity, TypeOK, StageInv
<1>11. CASE SaveIdentity
  <2> DEFINE base == IF parent.dest = None THEN Empty ELSE parent.dest
  <2>1. base \in Tree
    BY <1>0, TreesAreTrees DEF TypeOK, Parent
  <2>2. [base EXCEPT !.identity = Own] \in Tree
    BY <2>1 DEF Tree
  <2>3. parent' \in Parent /\ may' \subseteq Parent
    BY <1>0, <1>11, <1>d, <2>2, ChangeTyped DEF SaveIdentity
  <2>4. parent'.staging = parent.staging
    BY <1>0, <1>11 DEF SaveIdentity, Change, TypeOK, Parent
  <2>5. QED
    BY <1>0, <1>11, <2>3, <2>4 DEF SaveIdentity, TypeOK, StageInv
<1>12. CASE IdentityRefused
  BY <1>0, <1>12 DEF IdentityRefused, TypeOK, StageInv
<1>13. CASE Wipe
  <2>1. PICK d \in Kept(parent.dest) \cup {None} : Change([parent EXCEPT !.dest = d])
    BY <1>13 DEF Wipe
  <2>2. d \in Tree \cup {None}
    BY <2>1 DEF Kept
  <2>3. parent' \in Parent /\ may' \subseteq Parent
    BY <1>0, <1>d, <2>1, <2>2, ChangeTyped
  <2>4. parent'.staging = parent.staging
    BY <1>0, <2>1 DEF Change, TypeOK, Parent
  <2>5. QED
    BY <1>0, <1>13, <2>3, <2>4, BackupAssumption DEF Wipe, TypeOK, StageInv
<1>14. CASE Crash
  BY <1>0, <1>14 DEF Crash, End, TypeOK, StageInv
<1>15. CASE PowerLoss
  BY <1>0, <1>15 DEF PowerLoss, End, TypeOK, StageInv
<1>16. CASE UNCHANGED vars
  BY <1>0, <1>16 DEF vars, TypeOK, StageInv
<1>17. QED
  BY <1>1, <1>2, <1>3, <1>4, <1>5, <1>6, <1>7, <1>8, <1>9, <1>10, <1>11, <1>12,
     <1>13, <1>14, <1>15, <1>16 DEF Next

(* What is staged is the part of the backup that has been written          *)
(* (publish_backup_tree), also while other commands run.                   *)
THEOREM StagingCorrect == Spec => []ImportInv
BY InitImport, NextImport, PTL DEF Spec

(* Types hold, also while other commands run.                              *)
THEOREM TypeCorrect == Spec => []TypeOK
BY StagingCorrect, PTL DEF ImportInv
-----------------------------------------------------------------------------
(* In the rest of the module commands run one after the other.             *)
LEMMA InitFull == Init => FullInv
<1> SUFFICES ASSUME Init PROVE FullInv
  OBVIOUS
<1>1. ImportInv
  BY InitImport
<1>2. AloneInv
  BY DEF Init, AloneInv
<1>3. CompleteOrAbsent /\ ImportedStays /\ parent \in may
  BY DEF Init, CompleteOrAbsent, ImportedStays
<1>4. QED
  BY <1>1, <1>2, <1>3 DEF FullInv

(* A new directory state leaves the data directory as it should be.        *)
LEMMA ChangeProper ==
    ASSUME FullInv, NEW p, Change(p), p.dest \in Proper, imported' = None,
           wipes' = wipes
    PROVE  parent' \in may' /\ CompleteOrAbsent' /\ ImportedStays'
<1>1. parent' \in may' /\ ImportedStays'
  BY DEF Change, ImportedStays
<1>2. ASSUME wipes' = 0, NEW q \in may' \cup {parent'}
      PROVE  q.dest \in Proper
  BY <1>2 DEF Change, FullInv, CompleteOrAbsent, Proper
<1>3. CompleteOrAbsent'
  BY <1>2 DEF CompleteOrAbsent, Proper
<1>4. QED
  BY <1>1, <1>3

(* So does a step that leaves the directories alone.                       *)
LEMMA SameProper ==
    ASSUME FullInv, parent' = parent, may' = may, imported' = imported, wipes' = wipes
    PROVE  parent' \in may' /\ CompleteOrAbsent' /\ ImportedStays'
BY DEF FullInv, CompleteOrAbsent, ImportedStays, Whole, Empty

LEMMA NextFull ==
    ASSUME ~ Overlaps, FullInv, [Next]_vars
    PROVE  FullInv'
<1>0. TypeOK /\ StageInv /\ AloneInv
  BY DEF FullInv, ImportInv
<1>i. ImportInv'
  BY NextImport DEF FullInv
<1>f. ASSUME AloneInv', parent' \in may' /\ CompleteOrAbsent' /\ ImportedStays'
      PROVE  FullInv'
  BY <1>i, <1>f DEF FullInv
<1>w. ~ HasIdentity => imported = None
  BY TreesAreTrees, AbsentIsNoTree, <1>0 DEF HasIdentity, FullInv, ImportedStays, TypeOK
<1>1. ASSUME NEW b \in Bundles, StartImport(b) PROVE FullInv'
  <2>1. AloneInv'
    BY <1>0, <1>1, <1>w DEF StartImport, AloneInv, HasIdentity
  <2>2. QED
    BY <1>1, <1>f, <2>1, SameProper DEF StartImport
<1>2. CASE DestinationInUse
  <2>1. AloneInv'
    BY <1>0, <1>2 DEF DestinationInUse, End, AloneInv, HasIdentity
  <2>2. QED
    BY <1>2, <1>f, <2>1, SameProper DEF DestinationInUse
<1>3. CASE ClearDestination
  <2>1. [parent EXCEPT !.dest = None].dest = None
    BY <1>0 DEF TypeOK, Parent
  <2>2. AloneInv'
    BY <1>0, <1>3, <2>1 DEF ClearDestination, Change, AloneInv
  <2>3. imported' = None /\ wipes' = wipes
    BY <1>0, <1>3 DEF ClearDestination, AloneInv
  <2>4. QED
    BY <1>3, <1>f, <2>1, <2>2, <2>3, ChangeProper DEF ClearDestination, Proper
<1>s. \A t : [parent EXCEPT !.staging = t].dest = parent.dest
  BY <1>0 DEF TypeOK, Parent
<1>p. ASSUME NEW t, Change([parent EXCEPT !.staging = t]), imported' = None, wipes' = wipes,
             parent.dest \in Proper
      PROVE  /\ parent'.dest = parent.dest
             /\ parent' \in may' /\ CompleteOrAbsent' /\ ImportedStays'
  <2>1. parent'.dest = parent.dest
    BY <1>p, <1>s DEF Change
  <2>2. QED
    BY <1>p, <1>s, <2>1, ChangeProper
<1>n. pc \in {"stage", "identity", "write", "sync"} =>
        imported = None /\ parent.dest \in Proper
  BY <1>0 DEF AloneInv, StageInv, Proper
<1>4. CASE Stage
  <2>1. /\ parent'.dest = parent.dest
        /\ parent' \in may' /\ CompleteOrAbsent' /\ ImportedStays'
    BY <1>4, <1>n, <1>p DEF Stage
  <2>2. AloneInv'
    BY <1>0, <1>4, <2>1 DEF Stage, AloneInv
  <2>3. QED
    BY <1>f, <2>1, <2>2
<1>5. CASE WriteIdentity
  <2>1. PICK t : [parent EXCEPT !.staging.identity = bundle] = [parent EXCEPT !.staging = t]
    BY <1>0 DEF TypeOK, Parent
  <2>2. /\ parent'.dest = parent.dest
        /\ parent' \in may' /\ CompleteOrAbsent' /\ ImportedStays'
    BY <1>5, <1>n, <1>p, <2>1 DEF WriteIdentity
  <2>3. AloneInv'
    BY <1>0, <1>5, <2>2 DEF WriteIdentity, AloneInv
  <2>4. QED
    BY <1>f, <2>2, <2>3
<1>6. ASSUME NEW n \in Names, WriteEntry(n) PROVE FullInv'
  <2>1. PICK t : [parent EXCEPT !.staging.store[n] = bundle] = [parent EXCEPT !.staging = t]
    BY <1>0 DEF TypeOK, Parent
  <2>2. /\ parent'.dest = parent.dest
        /\ parent' \in may' /\ CompleteOrAbsent' /\ ImportedStays'
    BY <1>6, <1>n, <1>p, <2>1 DEF WriteEntry
  <2>3. AloneInv'
    BY <1>0, <1>6, <2>2 DEF WriteEntry, AloneInv
  <2>4. QED
    BY <1>f, <2>2, <2>3
<1>7. CASE Publish
  <2>1. bundle \in Bundles /\ parent.staging = Whole(bundle)
    BY <1>0, <1>7, StagedTrees DEF Publish, StageInv
  <2>2. imported' = None /\ wipes' = wipes
    BY <1>0, <1>7 DEF Publish, AloneInv
  <2>3. AloneInv'
    BY <1>0, <1>7, <2>1 DEF Publish, Change, AloneInv, Whole
  <2>4. QED
    BY <1>7, <1>f, <2>1, <2>2, <2>3, ChangeProper DEF Publish, Proper
<1>8. CASE SyncParent
  <2>1. AloneInv'
    BY <1>0, <1>8 DEF SyncParent, End, AloneInv
  <2>2. parent.dest = Whole(bundle) /\ bundle \in Bundles
    BY <1>0, <1>8 DEF SyncParent, AloneInv, StageInv
  <2>3. parent' \in may' /\ CompleteOrAbsent' /\ ImportedStays'
    BY <1>8, <2>2 DEF SyncParent, CompleteOrAbsent, ImportedStays, Whole
  <2>4. QED
    BY <1>f, <2>1, <2>3
<1>9. CASE ImportFails
  <2>1. /\ parent'.dest = parent.dest
        /\ parent' \in may' /\ CompleteOrAbsent' /\ ImportedStays'
    BY <1>9, <1>n, <1>p DEF ImportFails
  <2>2. AloneInv'
    BY <1>0, <1>9, <2>1 DEF ImportFails, End, AloneInv
  <2>3. QED
    BY <1>f, <2>1, <2>2
<1>10. CASE StartIdentity
  <2>1. AloneInv'
    BY <1>0, <1>10, <1>w DEF StartIdentity, AloneInv, HasIdentity
  <2>2. QED
    BY <1>10, <1>f, <2>1, SameProper DEF StartIdentity
<1>11. CASE SaveIdentity
  <2> DEFINE base == IF parent.dest = None THEN Empty ELSE parent.dest
             tree == [base EXCEPT !.identity = Own]
  <2>1. [parent EXCEPT !.dest = tree].dest = tree
    BY <1>0 DEF TypeOK, Parent
  <2>2. newId /\ pc = "idle" /\ imported = None /\ ~ HasIdentity
    BY <1>0, <1>11 DEF SaveIdentity, AloneInv
  <2>3. AloneInv'
    BY <1>11, <2>2 DEF SaveIdentity, AloneInv
  <2>4. imported' = None /\ wipes' = wipes
    BY <1>11, <2>2 DEF SaveIdentity
  <2>5. wipes = 0 => base = Empty
    BY <2>2, TreesAreTrees, AbsentIsNoTree, BackupAssumption
       DEF FullInv, CompleteOrAbsent, HasIdentity, Empty
  <2>6. wipes = 0 => tree \in Proper
    BY <2>5 DEF Proper
  <2>7. CASE wipes = 0
    BY <1>11, <1>f, <2>1, <2>3, <2>4, <2>6, <2>7, ChangeProper DEF SaveIdentity
  <2>8. CASE wipes # 0
    BY <1>11, <1>f, <2>3, <2>4, <2>8
       DEF SaveIdentity, Change, CompleteOrAbsent, ImportedStays
  <2>9. QED
    BY <2>7, <2>8
<1>12. CASE IdentityRefused
  <2>1. AloneInv'
    BY <1>0, <1>12 DEF IdentityRefused, AloneInv
  <2>2. QED
    BY <1>12, <1>f, <2>1, SameProper DEF IdentityRefused
<1>13. CASE Wipe
  <2>1. AloneInv'
    BY <1>0, <1>13 DEF Wipe, AloneInv
  <2>2. parent' \in may' /\ ImportedStays'
    BY <1>13 DEF Wipe, Change, ImportedStays
  <2>3. wipes' # 0
    BY <1>0, <1>13, BackupAssumption DEF Wipe, TypeOK
  <2>4. CompleteOrAbsent'
    BY <2>3 DEF CompleteOrAbsent
  <2>5. QED
    BY <1>f, <2>1, <2>2, <2>4
<1>14. CASE Crash
  <2>1. AloneInv'
    BY <1>0, <1>14 DEF Crash, End, AloneInv
  <2>2. QED
    BY <1>14, <1>f, <2>1, SameProper DEF Crash
<1>15. CASE PowerLoss
  <2>1. AloneInv'
    BY <1>0, <1>15 DEF PowerLoss, End, AloneInv
  <2>2. parent' \in may /\ may' = {parent'} /\ imported' = imported /\ wipes' = wipes
    BY <1>15 DEF PowerLoss
  <2>3. CompleteOrAbsent'
    BY <2>2 DEF FullInv, CompleteOrAbsent
  <2>4. ImportedStays'
    BY <2>2 DEF FullInv, ImportedStays, Whole
  <2>5. QED
    BY <1>f, <2>1, <2>2, <2>3, <2>4
<1>16. CASE UNCHANGED vars
  <2>1. AloneInv'
    BY <1>0, <1>16 DEF vars, AloneInv, HasIdentity, Whole
  <2>2. QED
    BY <1>16, <1>f, <2>1, SameProper DEF vars
<1>17. QED
  BY <1>1, <1>2, <1>3, <1>4, <1>5, <1>6, <1>7, <1>8, <1>9, <1>10, <1>11, <1>12,
     <1>13, <1>14, <1>15, <1>16 DEF Next

LEMMA AloneCorrect ==
    ASSUME ~ Overlaps
    PROVE  Spec => []FullInv
<1>1. FullInv /\ [Next]_vars => FullInv'
  BY NextFull
<1>2. QED
  BY InitFull, <1>1, PTL DEF Spec

(* Until something is wiped, a data directory holds one backup, whole, or  *)
(* an identity of its own, or nothing, at every moment and after every     *)
(* power failure (publish_backup_tree), as long as commands do not overlap.*)
THEOREM BackupsWhole ==
    ASSUME ~ Overlaps
    PROVE  Spec => []CompleteOrAbsent
BY AloneCorrect, PTL DEF FullInv

(* A backup that was reported as imported survives whatever is run later,  *)
(* except wipe, and every power failure (the sync of the parent directory  *)
(* comes before the report), as long as commands do not overlap.           *)
THEOREM ImportsDurable ==
    ASSUME ~ Overlaps
    PROVE  Spec => []ImportedStays
BY AloneCorrect, PTL DEF FullInv
=============================================================================
