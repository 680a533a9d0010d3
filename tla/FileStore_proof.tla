-------------------------- MODULE FileStore_proof --------------------------
(***************************************************************************)
(* Proofs about FileStore, for every set of keys and values.  The durable  *)
(* properties assume that the file system keeps the order of directory     *)
(* changes; that the store implements AtomicStore assumes the same.        *)
(***************************************************************************)
EXTENDS FileStore, TLAPS

Contents == [Keys -> Values \cup {None}]

LEMMA ContentType == ASSUME NEW d \in Directory PROVE Content(d) \in Contents
  <1>1. CASE d.journal = None
    BY <1>1 DEF Content, Contents, Directory
  <1>2. CASE d.journal \in Batches
    <2>1. PICK ks \in (SUBSET Keys) \ {{}} : d.journal \in [ks -> Values \cup {None}]
      BY <1>2 DEF Batches
    <2> QED BY <2>1 DEF Content, Contents, Directory
  <1> QED BY <1>1, <1>2 DEF Directory

(* A journal gives each of its keys a value or None.                       *)
LEMMA BatchType ==
    ASSUME NEW b \in Batches
    PROVE  /\ DOMAIN b \subseteq Keys
           /\ \A k \in DOMAIN b : b[k] \in Values \cup {None}
           /\ b # None
  <1>1. PICK ks \in (SUBSET Keys) \ {{}} : b \in [ks -> Values \cup {None}]
    BY DEF Batches
  <1> QED BY <1>1, NoneIsNoBatch

(* Directory changes keep directories directories.                         *)
LEMMA SetFileType ==
    ASSUME TypeOK, NEW k \in Keys, NEW v \in Values \cup {None}, SetFile(k, v)
    PROVE  dir' \in Directory /\ may' \subseteq Directory
  <1>1. \A d \in Directory : [d EXCEPT !.files[k] = v] \in Directory
    BY DEF Directory
  <1> QED BY <1>1 DEF TypeOK, SetFile

LEMMA SetJournalType ==
    ASSUME TypeOK, NEW b \in Batches \cup {None}, SetJournal(b)
    PROVE  dir' \in Directory /\ may' \subseteq Directory
  <1>1. \A d \in Directory : [d EXCEPT !.journal = b] \in Directory
    BY DEF Directory
  <1> QED BY <1>1 DEF TypeOK, SetJournal

(* While a journal is being applied, it is there, and the keys that are no *)
(* longer to do have the values it gives them.                             *)
Applied ==
    pc \in {"journal", "apply", "applying"} =>
        /\ dir.journal # None
        /\ todo \subseteq DOMAIN dir.journal
        /\ \A k \in DOMAIN dir.journal \ todo : dir.files[k] = dir.journal[k]

BaseInv == TypeOK /\ Applied

LEMMA TypeStep == BaseInv /\ [Next]_vars => TypeOK'
  <1> SUFFICES ASSUME TypeOK, Applied, [Next]_vars PROVE TypeOK'
    BY DEF BaseInv
  <1> USE DEF Pcs
  <1>a. ASSUME dir' \in Directory, Shown PROVE promised' \subseteq Contents
    BY <1>a, ContentType DEF Shown, TypeOK, Contents
  <1>b. ASSUME Returned PROVE promised' \subseteq Contents
    BY <1>b, ContentType DEF Returned, TypeOK, Contents
  <1>c. dir.journal # None => dir.journal \in Batches
    BY DEF TypeOK, Directory
  <1>1. CASE Open
    BY <1>1, <1>c, BatchType DEF Open, TypeOK
  <1>2. ASSUME NEW k \in Keys, NEW v \in Values, Put(k, v) PROVE TypeOK'
    BY <1>2, <1>a, SetFileType DEF Put, TypeOK, Contents
  <1>3. CASE PutSync
    BY <1>3, <1>b DEF PutSync, Sync, TypeOK, Contents
  <1>4. ASSUME NEW k \in Keys, Delete(k) PROVE TypeOK'
    BY <1>4, <1>a, SetFileType DEF Delete, TypeOK, Contents
  <1>5. ASSUME NEW b \in Batches, Commit(b) PROVE TypeOK'
    BY <1>5, <1>a, BatchType, SetJournalType DEF Commit, TypeOK, Contents
  <1>6. CASE JournalSync  BY <1>6 DEF JournalSync, Sync, TypeOK
  <1>7. ASSUME NEW k \in Keys, ApplyPut(k) PROVE TypeOK'
    <2>1. dir.journal[k] \in Values \cup {None}
      BY <1>7, <1>c, BatchType DEF ApplyPut, Applied
    <2> QED BY <1>7, <2>1, SetFileType DEF ApplyPut, TypeOK
  <1>8. CASE ApplySync  BY <1>8 DEF ApplySync, Sync, TypeOK
  <1>9. ASSUME NEW k \in Keys, ApplyDelete(k) PROVE TypeOK'
    BY <1>9, SetFileType DEF ApplyDelete, TypeOK
  <1>10. CASE RemoveJournal
    BY <1>10, SetJournalType DEF RemoveJournal, TypeOK
  <1>11. CASE FinishSync
    BY <1>11, <1>b DEF FinishSync, Sync, TypeOK, Contents
  <1>12. CASE Fault  BY <1>12 DEF Fault, TypeOK
  <1>13. CASE Crash  BY <1>13 DEF Crash, TypeOK
  <1>14. CASE PowerLoss
    BY <1>14, ContentType DEF PowerLoss, TypeOK, Contents
  <1>15. CASE UNCHANGED vars  BY <1>15 DEF vars, TypeOK
  <1> QED BY <1>1, <1>2, <1>3, <1>4, <1>5, <1>6, <1>7, <1>8, <1>9, <1>10,
             <1>11, <1>12, <1>13, <1>14, <1>15 DEF Next

LEMMA AppliedStep == BaseInv /\ [Next]_vars => Applied'
  <1> SUFFICES ASSUME TypeOK, Applied, [Next]_vars PROVE Applied'
    BY DEF BaseInv
  <1>c. dir.journal # None => dir.journal \in Batches
    BY DEF TypeOK, Directory
  <1>1. CASE Open  BY <1>1 DEF Open, Applied
  <1>2. ASSUME NEW k \in Keys, NEW v \in Values, Put(k, v) PROVE Applied'
    BY <1>2 DEF Put, Applied
  <1>3. CASE PutSync  BY <1>3 DEF PutSync, Applied
  <1>4. ASSUME NEW k \in Keys, Delete(k) PROVE Applied'
    BY <1>4 DEF Delete, Ready, Applied
  <1>5. ASSUME NEW b \in Batches, Commit(b) PROVE Applied'
    <2>1. dir'.journal = b
      BY <1>5 DEF Commit, SetJournal, TypeOK, Directory
    <2> QED BY <1>5, <2>1, BatchType DEF Commit, Applied
  <1>6. CASE JournalSync  BY <1>6 DEF JournalSync, Sync, Applied
  <1>7. ASSUME NEW k \in Keys, ApplyPut(k) PROVE Applied'
    <2>1. /\ dir'.journal = dir.journal
          /\ dir'.files = [dir.files EXCEPT ![k] = dir.journal[k]]
      BY <1>7 DEF ApplyPut, SetFile, TypeOK, Directory
    <2>2. DOMAIN dir.journal \subseteq Keys
      BY <1>7, <1>c, BatchType DEF ApplyPut, Applied
    <2> QED BY <1>7, <2>1, <2>2 DEF ApplyPut, Applied, TypeOK, Directory
  <1>8. CASE ApplySync  BY <1>8 DEF ApplySync, Sync, Applied
  <1>9. ASSUME NEW k \in Keys, ApplyDelete(k) PROVE Applied'
    <2>1. /\ dir'.journal = dir.journal
          /\ dir'.files = [dir.files EXCEPT ![k] = None]
      BY <1>9 DEF ApplyDelete, SetFile, TypeOK, Directory
    <2>2. DOMAIN dir.journal \subseteq Keys
      BY <1>9, <1>c, BatchType DEF ApplyDelete, Applied
    <2> QED BY <1>9, <2>1, <2>2 DEF ApplyDelete, Applied, TypeOK, Directory
  <1>10. CASE RemoveJournal  BY <1>10 DEF RemoveJournal, Applied
  <1>11. CASE FinishSync  BY <1>11 DEF FinishSync, Applied
  <1>12. CASE Fault  BY <1>12 DEF Fault, Applied
  <1>13. CASE Crash  BY <1>13 DEF Crash, Applied
  <1>14. CASE PowerLoss  BY <1>14 DEF PowerLoss, Applied
  <1>15. CASE UNCHANGED vars  BY <1>15 DEF vars, Applied
  <1> QED BY <1>1, <1>2, <1>3, <1>4, <1>5, <1>6, <1>7, <1>8, <1>9, <1>10,
             <1>11, <1>12, <1>13, <1>14, <1>15 DEF Next

LEMMA BaseInit == Init => BaseInv
  <1> SUFFICES ASSUME Init PROVE BaseInv  OBVIOUS
  <1>1. dir \in Directory  BY DEF Init, Directory
  <1>2. TypeOK  BY <1>1, ContentType DEF Init, TypeOK, Pcs, Contents
  <1> QED BY <1>2 DEF Init, BaseInv, Applied

(* While the store replays a journal, in commit, apply_batch or open, the  *)
(* journal is there and every key already handled has its value.           *)
THEOREM BaseInvariant == Spec => []BaseInv
  <1>1. BaseInv /\ [Next]_vars => BaseInv'
    BY TypeStep, AppliedStep DEF BaseInv
  <1> QED BY BaseInit, <1>1, PTL DEF Spec

(* Every step keeps the types of the directory and its unsynced forms, the *)
(* program counter and the promised contents.                              *)
THEOREM TypeCorrect == Spec => []TypeOK
  <1>1. BaseInv => TypeOK  BY DEF BaseInv
  <1> QED BY BaseInvariant, <1>1, PTL

-----------------------------------------------------------------------------
(* Applying a mutation or removing the applied journal leaves the content  *)
(* that a reopened store would have as it was.                             *)
LEMMA ApplyKeeps ==
    ASSUME BaseInv, NEW k \in Keys, pc = "apply", k \in todo,
           SetFile(k, dir.journal[k])
    PROVE  Content(dir') = Content(dir)
  <1>1. /\ dir'.journal = dir.journal
        /\ dir'.files = [dir.files EXCEPT ![k] = dir.journal[k]]
    BY DEF SetFile, BaseInv, TypeOK, Directory
  <1>2. dir.journal # None /\ k \in DOMAIN dir.journal
    BY DEF BaseInv, Applied
  <1> QED BY <1>1, <1>2 DEF Content, BaseInv, TypeOK, Directory

LEMMA RemoveKeeps ==
    ASSUME BaseInv, RemoveJournal
    PROVE  Content(dir') = Content(dir)
  <1>1. dir'.journal = None /\ dir'.files = dir.files
    BY DEF RemoveJournal, SetJournal, BaseInv, TypeOK, Directory
  <1>2. \A k \in DOMAIN dir.journal : dir.files[k] = dir.journal[k]
    BY DEF RemoveJournal, BaseInv, Applied
  <1> QED BY <1>1, <1>2 DEF Content, BaseInv, TypeOK, Directory

(* What a power failure may leave, where directory changes keep order.     *)
DurableInv == BaseInv /\ dir \in may /\ AllOrNothing /\ JournalHolds

LEMMA DurableStep ==
    ASSUME KeepsOrder, DurableInv, [Next]_vars
    PROVE  DurableInv'
  <1> USE DEF DurableInv, AllOrNothing, JournalHolds
  <1>0. BaseInv'  BY TypeStep, AppliedStep DEF BaseInv
  <1>a. \A k, v : SetFile(k, v) => may' = may \cup {dir'}
    BY DEF SetFile
  <1>b. \A b : SetJournal(b) => may' = may \cup {dir'}
    BY DEF SetJournal
  <1>1. CASE Open  BY <1>1, <1>0 DEF Open
  <1>2. ASSUME NEW k \in Keys, NEW v \in Values, Put(k, v) PROVE DurableInv'
    BY <1>2, <1>0, <1>a DEF Put, Shown
  <1>3. CASE PutSync  BY <1>3, <1>0 DEF PutSync, Sync, Returned
  <1>4. ASSUME NEW k \in Keys, Delete(k) PROVE DurableInv'
    BY <1>4, <1>0, <1>a DEF Delete, Ready, Shown
  <1>5. ASSUME NEW b \in Batches, Commit(b) PROVE DurableInv'
    BY <1>5, <1>0, <1>b DEF Commit, Shown
  <1>6. CASE JournalSync  BY <1>6, <1>0 DEF JournalSync, Sync
  <1>7. ASSUME NEW k \in Keys, ApplyPut(k) PROVE DurableInv'
    <2>1. Content(dir') = Content(dir)  BY <1>7, ApplyKeeps DEF ApplyPut
    <2> QED BY <1>7, <1>0, <1>a, <2>1 DEF ApplyPut
  <1>8. CASE ApplySync  BY <1>8, <1>0 DEF ApplySync, Sync
  <1>9. ASSUME NEW k \in Keys, ApplyDelete(k) PROVE DurableInv'
    <2>1. Content(dir') = Content(dir)  BY <1>9, ApplyKeeps DEF ApplyDelete
    <2> QED BY <1>9, <1>0, <1>a, <2>1 DEF ApplyDelete
  <1>10. CASE RemoveJournal
    <2>1. Content(dir') = Content(dir)  BY <1>10, RemoveKeeps
    <2> QED BY <1>10, <1>0, <1>b, <2>1 DEF RemoveJournal
  <1>11. CASE FinishSync  BY <1>11, <1>0 DEF FinishSync, Sync, Returned
  <1>12. CASE Fault  BY <1>12, <1>0 DEF Fault
  <1>13. CASE Crash  BY <1>13, <1>0 DEF Crash
  <1>14. CASE PowerLoss  BY <1>14, <1>0 DEF PowerLoss
  <1>15. CASE UNCHANGED vars  BY <1>15, <1>0 DEF vars
  <1> QED BY <1>1, <1>2, <1>3, <1>4, <1>5, <1>6, <1>7, <1>8, <1>9, <1>10,
             <1>11, <1>12, <1>13, <1>14, <1>15 DEF Next

LEMMA DurableInvariant == ASSUME KeepsOrder PROVE Spec => []DurableInv
  <1>1. Init => DurableInv
    BY BaseInit DEF Init, DurableInv, AllOrNothing, JournalHolds
  <1>2. DurableInv /\ [Next]_vars => DurableInv'
    BY DurableStep
  <1> QED BY <1>1, <1>2, PTL DEF Spec

(* Where directory changes keep order, a power failure at any moment       *)
(* leaves a content the store had since the last call that synced: no      *)
(* batch is torn, also when calls of the file system fail.                 *)
THEOREM NeverTorn == ASSUME KeepsOrder PROVE Spec => []AllOrNothing
  <1>1. DurableInv => AllOrNothing  BY DEF DurableInv
  <1> QED BY DurableInvariant, <1>1, PTL

(* ... and from the sync of its journal on, a committed batch is in every  *)
(* directory that a power failure may leave.                               *)
THEOREM CommitHolds == ASSUME KeepsOrder PROVE Spec => []JournalHolds
  <1>1. DurableInv => JournalHolds  BY DEF DurableInv
  <1> QED BY DurableInvariant, <1>1, PTL

-----------------------------------------------------------------------------
(* The overlay of a batch on a content, as AtomicStore writes it.          *)
LEMMA WriteMaps ==
    ASSUME NEW b \in Batches, Shown,
           \A k \in Keys : Content(dir')[k] =
               IF k \in DOMAIN b THEN b[k] ELSE Content(dir)[k]
    PROVE  Atomic!Next
  <1>1. Content(dir') = [k \in Keys |-> IF k \in DOMAIN b THEN b[k] ELSE Content(dir)[k]]
    BY DEF Content
  <1>2. Atomic!Write(b)  BY <1>1 DEF Atomic!Write, Shown
  <1>3. b \in Atomic!Batches  BY DEF Batches, Atomic!Batches
  <1> QED BY <1>2, <1>3 DEF Atomic!Next

(* One file changed in a store without a journal is a batch of one key.    *)
LEMMA FileMaps ==
    ASSUME TypeOK, Ready, NEW k \in Keys, NEW v \in Values \cup {None},
           SetFile(k, v), Shown
    PROVE  Atomic!Next
  <1>1. /\ dir.journal = None
        /\ dir'.journal = None
        /\ dir'.files = [dir.files EXCEPT ![k] = v]
        /\ dir.files \in [Keys -> Values \cup {None}]
    BY DEF Ready, SetFile, TypeOK, Directory
  <1> DEFINE b == [x \in {k} |-> v]
  <1>2. b \in Batches
    <2>1. {k} \in (SUBSET Keys) \ {{}}  OBVIOUS
    <2>2. b \in [{k} -> Values \cup {None}]  OBVIOUS
    <2> QED BY <2>1, <2>2 DEF Batches
  <1>3. \A x \in Keys : Content(dir')[x] = IF x \in DOMAIN b THEN b[x] ELSE Content(dir)[x]
    BY <1>1 DEF Content
  <1> HIDE DEF b
  <1> QED BY <1>2, <1>3, WriteMaps

(* A store whose directory keeps order implements AtomicStore: only the    *)
(* visible rename of a file or of a journal changes the content, and it    *)
(* changes it by the whole batch.                                          *)
THEOREM Refines == ASSUME KeepsOrder PROVE Spec => ImplementsAtomic
  <1> DEFINE AVars == <<Content(dir), promised>>
  <1>1. Init => Atomic!Init
    <2> SUFFICES ASSUME Init PROVE Atomic!Init  OBVIOUS
    <2>1. Content(dir) = [k \in Keys |-> None]  BY DEF Init, Content
    <2> QED BY <2>1 DEF Init, Atomic!Init
  <1>2. DurableInv /\ [Next]_vars => [Atomic!Next]_AVars
    <2> SUFFICES ASSUME DurableInv, [Next]_vars
                 PROVE  Atomic!Next \/ UNCHANGED AVars
      OBVIOUS
    <2>0. TypeOK /\ BaseInv  BY DEF DurableInv, BaseInv
    <2>a. ASSUME Returned, UNCHANGED dir PROVE Atomic!Next
      BY <2>a DEF Returned, Atomic!Return, Atomic!Next
    <2>1. CASE Open  BY <2>1 DEF Open
    <2>2. ASSUME NEW k \in Keys, NEW v \in Values, Put(k, v) PROVE Atomic!Next
      BY <2>2, <2>0, FileMaps DEF Put
    <2>3. CASE PutSync  BY <2>3, <2>a DEF PutSync, Sync
    <2>4. ASSUME NEW k \in Keys, Delete(k) PROVE Atomic!Next
      BY <2>4, <2>0, FileMaps DEF Delete
    <2>5. ASSUME NEW b \in Batches, Commit(b) PROVE Atomic!Next
      <3>1. /\ dir.journal = None
            /\ dir'.journal = b
            /\ dir'.files = dir.files
        BY <2>5, <2>0 DEF Commit, Ready, SetJournal, TypeOK, Directory
      <3>2. b # None  BY BatchType
      <3>3. \A k \in Keys : Content(dir')[k] = IF k \in DOMAIN b THEN b[k] ELSE Content(dir)[k]
        BY <3>1, <3>2 DEF Content
      <3> QED BY <2>5, <3>3, WriteMaps DEF Commit
    <2>6. CASE JournalSync  BY <2>6 DEF JournalSync, Sync
    <2>7. ASSUME NEW k \in Keys, ApplyPut(k) PROVE UNCHANGED AVars
      BY <2>7, <2>0, ApplyKeeps DEF ApplyPut
    <2>8. CASE ApplySync  BY <2>8 DEF ApplySync, Sync
    <2>9. ASSUME NEW k \in Keys, ApplyDelete(k) PROVE UNCHANGED AVars
      BY <2>9, <2>0, ApplyKeeps DEF ApplyDelete
    <2>10. CASE RemoveJournal  BY <2>10, <2>0, RemoveKeeps DEF RemoveJournal
    <2>11. CASE FinishSync  BY <2>11, <2>a DEF FinishSync, Sync
    <2>12. CASE Fault  BY <2>12 DEF Fault
    <2>13. CASE Crash  BY <2>13 DEF Crash
    <2>14. CASE PowerLoss
      <3>1. Content(dir') \in promised  BY <2>14 DEF PowerLoss, DurableInv, AllOrNothing
      <3>2. Atomic!PowerFailure  BY <2>14, <3>1 DEF PowerLoss, Atomic!PowerFailure
      <3> QED BY <3>2 DEF Atomic!Next
    <2>15. CASE UNCHANGED vars  BY <2>15 DEF vars
    <2> QED BY <2>1, <2>2, <2>3, <2>4, <2>5, <2>6, <2>7, <2>8, <2>9, <2>10,
               <2>11, <2>12, <2>13, <2>14, <2>15 DEF Next
  <1> QED BY <1>1, <1>2, DurableInvariant, PTL DEF Spec, ImplementsAtomic, Atomic!Spec
=============================================================================
