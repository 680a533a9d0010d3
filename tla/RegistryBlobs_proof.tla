------------------------ MODULE RegistryBlobs_proof ------------------------
(***************************************************************************)
(* Proofs about RegistryBlobs, for every set of accounts, threads, wallets *)
(* and records.  BaseInv, and AckInv next to it, are inductive whatever    *)
(* fails; CleanupInv, which gives RecordPresent, NeverMissing and the      *)
(* refinement of AccountSlots, when the clients store recovery first and   *)
(* no store call fails.                                                    *)
(***************************************************************************)
EXTENDS RegistryBlobs, TLAPS

(* Replacing one well-formed request by another keeps all of them so.      *)
LEMMA ReplaceRequest ==
    ASSUME TypeOK, ShapeInv, NEW p \in Requests,
           NEW r \in Request, RequestShape(r), req' = [req EXCEPT ![p] = r]
    PROVE  /\ req' \in [Requests -> Request]
           /\ \A q \in Requests : RequestShape(req'[q])
<1>1. req \in [Requests -> Request]
  BY DEF TypeOK
<1>2. \A q \in Requests : req'[q] = IF q = p THEN r ELSE req[q]
  BY <1>1
<1> QED
  BY <1>1, <1>2 DEF ShapeInv

(* Setting a slot to a blob of its kind keeps the pointers well-formed.    *)
LEMMA SetSlot ==
    ASSUME TypeOK, ShapeInv, NEW a \in Accounts, NEW k \in Kinds,
           NEW b \in BlobsOf(k), ref' = [ref EXCEPT ![<<a, k>>] = b]
    PROVE  /\ ref' \in [Slots -> Blobs \cup {None}]
           /\ \A x \in Accounts, kind \in Kinds :
                 ref'[<<x, kind>>] \in BlobsOf(kind) \cup {None}
<1>1. b \in Blobs
  BY DEF Blobs, BlobsOf, Kinds
<1>2. ref \in [Slots -> Blobs \cup {None}] /\ <<a, k>> \in Slots
  BY DEF TypeOK, Slots
<1>3. \A x \in Accounts, kind \in Kinds :
         ref'[<<x, kind>>] = IF x = a /\ kind = k THEN b ELSE ref[<<x, kind>>]
  BY <1>2 DEF Slots
<1> QED
  BY <1>1, <1>2, <1>3 DEF ShapeInv

(* An idle thread is well-formed.                                          *)
LEMMA IdleShape == Idle \in Request /\ RequestShape(Idle)
<1>1. Idle \in Request
  BY DEF Idle, Request, Pcs, Replies
<1>2. RequestShape(Idle)
  BY RegistryAssumption DEF Idle, RequestShape, Puts, Gets
<1> QED
  BY <1>1, <1>2

(* The first state of a PUT is well-formed.                                *)
LEMMA BeginPutShape ==
    ASSUME NEW a \in Accounts, NEW op \in Puts, NEW b \in Blobs,
           op = "put_backup" => b \in Backups,
           op = "put_recovery" => b \in SealedBlobs,
           op = "put_record" => b \in Records
    PROVE  LET r == [Idle EXCEPT !.op = op, !.pc = "put", !.acct = a, !.blob = b]
           IN  r \in Request /\ RequestShape(r)
<1> DEFINE r == [Idle EXCEPT !.op = op, !.pc = "put", !.acct = a, !.blob = b]
<1>1. /\ r.op = op /\ r.pc = "put" /\ r.acct = a /\ r.blob = b
      /\ r.kind = None /\ r.seen = None
  BY DEF Idle
<1>2. r \in Request
  BY DEF Idle, Request, Pcs, Replies
<1> HIDE DEF r
<1>3. RequestShape(r)
  BY <1>1 DEF RequestShape, Puts
<1> QED
  BY <1>2, <1>3 DEF r

(* The first state of a GET is well-formed.                                *)
LEMMA BeginGetShape ==
    ASSUME NEW a \in Accounts, NEW op \in Gets, NEW kind \in Kinds
    PROVE  LET r == [Idle EXCEPT !.op = op, !.pc = "load_ptr", !.acct = a,
                                 !.kind = kind]
           IN  r \in Request /\ RequestShape(r)
<1> DEFINE r == [Idle EXCEPT !.op = op, !.pc = "load_ptr", !.acct = a,
                             !.kind = kind]
<1>1. /\ r.op = op /\ r.pc = "load_ptr" /\ r.acct = a /\ r.blob = None
      /\ r.kind = kind /\ r.seen = None
  BY DEF Idle
<1>2. r \in Request
  BY DEF Idle, Request, Pcs, Replies
<1> HIDE DEF r
<1>3. RequestShape(r)
  BY <1>1 DEF RequestShape, Gets
<1> QED
  BY <1>2, <1>3 DEF r

(* A step of a request ends it or leaves what was asked for alone.         *)
LEMMA OwnRequest ==
    ASSUME TypeOK, NEW p \in Requests, Step(p) \/ Fault(p)
    PROVE  \E r : /\ req' = [req EXCEPT ![p] = r]
                  /\ \/ r = Idle
                     \/ /\ r.op = req[p].op
                        /\ r.acct = req[p].acct
                        /\ r.blob = req[p].blob
<1> DEFINE Same(r) == /\ r.op = req[p].op
                      /\ r.acct = req[p].acct
                      /\ r.blob = req[p].blob
           Goal == \E r : req' = [req EXCEPT ![p] = r] /\ (r = Idle \/ Same(r))
<1>r. req[p] \in Request
  BY DEF TypeOK
<1>1. \A answer : Finish(p, answer) => Goal
  BY DEF Finish
<1>2. ASSUME NEW r, Goto(p, r), Same(r) PROVE Goal
  BY <1>2 DEF Goto
<1>3. \A answer : RemoveOwnThen(p, answer) => Goal
  BY <1>2, <1>r DEF RemoveOwnThen, Request
<1> HIDE DEF Goal
<1>4. ASSUME Fault(p) PROVE Goal
  BY <1>4, <1>1, <1>3 DEF Fault
<1>5. ASSUME Step(p) PROVE Goal
  <2>1. CASE PutBlob(p)
    BY <2>1, <1>2, <1>r DEF PutBlob, Request
  <2>2. CASE ReadRef(p) \/ LoadPointer(p) \/ BytesGone(p) \/ PointerMoved(p)
             \/ CasRecordMismatch(p)
    BY <2>2, <1>2, <1>r
    DEF ReadRef, LoadPointer, BytesGone, PointerMoved, CasRecordMismatch, Request
  <2>3. CASE GetReturns(p)
    BY <2>3, <1>1 DEF GetReturns, Loaded
  <2>4. CASE CompareRecovery(p)
    <3>1. Goto(p, [req[p] EXCEPT !.pc = "cas"]) => Goal
      BY <1>2, <1>r DEF Request
    <3> QED
      BY <2>4, <1>1, <1>3, <3>1 DEF CompareRecovery, Loaded
  <2>5. CASE CasRecovery(p)
    BY <2>5, <1>1, <1>2, <1>r DEF CasRecovery, Request
  <2>6. CASE EnforceRecovery(p)
    <3>1. Goto(p, [req[p] EXCEPT !.pc = "load_ptr", !.kind = "record",
                                 !.seen = None]) => Goal
      BY <1>2, <1>r DEF Request
    <3> QED
      BY <2>6, <1>3, <3>1 DEF EnforceRecovery, Loaded
  <2>7. CASE EnforceRecord(p)
    <3>1. Goto(p, [req[p] EXCEPT !.pc = "cas"]) => Goal
      BY <1>2, <1>r DEF Request
    <3> QED
      BY <2>7, <1>3, <3>1 DEF EnforceRecord, Loaded
  <2>8. CASE CasRecord(p)
    BY <2>8, <1>1, <1>2, <1>r DEF CasRecord, Request
  <2>9. CASE CasBackup(p)
    BY <2>9, <1>1, <1>2, <1>r DEF CasBackup, Request
  <2>10. CASE RemoveReplaced(p) \/ RemoveOwn(p)
    BY <2>10, <1>1 DEF RemoveReplaced, RemoveOwn
  <2> QED
    BY <1>5, <2>1, <2>2, <2>3, <2>4, <2>5, <2>6, <2>7, <2>8, <2>9, <2>10 DEF Step
<1> QED
  BY <1>4, <1>5 DEF Goal

(* What a failed store call may have done to the files.                    *)
LEMMA FaultFiles ==
    ASSUME NEW p \in Requests, Fault(p)
    PROVE  \/ files' = files
           \/ /\ req[p].pc = "put"
              /\ files' = files \cup {<<req[p].acct, req[p].blob>>}
           \/ /\ req[p].pc = "remove_own"
              /\ files' = files \ {<<req[p].acct, req[p].blob>>}
           \/ /\ req[p].pc = "remove_replaced"
              /\ files' = files \ {<<req[p].acct, req[p].seen>>}
  BY DEF Fault, FilesAfterFault

(* Every step keeps the types and the shape of the requests.               *)
LEMMA ShapeStep ==
    TypeOK /\ ShapeInv /\ SealInv /\ [Next]_vars => TypeOK' /\ ShapeInv'
<1> SUFFICES ASSUME TypeOK, ShapeInv, SealInv, [Next]_vars
             PROVE  TypeOK' /\ ShapeInv'
  OBVIOUS
<1> USE RegistryAssumption
<1> DEFINE Reqs == /\ req' \in [Requests -> Request]
                   /\ \A q \in Requests : RequestShape(req'[q])
           Rest == /\ files' \subseteq Accounts \X Blobs
                   /\ ref' \in [Slots -> Blobs \cup {None}]
                   /\ userIndex' \in [Wallets -> Accounts \cup {None}]
                   /\ sealedWallet' \in [SealedBlobs -> Wallets \cup {None}]
                   /\ reply' \in [Requests -> Replies]
                   /\ acked' \subseteq Accounts \X (Records \cup Wallets)
                   /\ \A a \in Accounts, k \in Kinds :
                         ref'[<<a, k>>] \in BlobsOf(k) \cup {None}
<1>q. Reqs /\ Rest => TypeOK' /\ ShapeInv'
  BY DEF TypeOK, ShapeInv
<1>s. ASSUME UNCHANGED <<files, ref, userIndex, sealedWallet, acked>>,
             reply' \in [Requests -> Replies]
      PROVE  Rest
  BY <1>s DEF TypeOK, ShapeInv
<1>r. \A p \in Requests, answer \in Replies :
         [reply EXCEPT ![p] = answer] \in [Requests -> Replies]
  BY DEF TypeOK
<1>n. reply \in [Requests -> Replies]
  BY DEF TypeOK
<1> HIDE DEF Reqs, Rest
<1>1. ASSUME NEW p \in Requests, Start(p) PROVE Reqs /\ Rest
  <2>1. ASSUME NEW a \in Accounts, NEW b \in Backups, StartPutBackup(p, a, b)
        PROVE  Reqs /\ Rest
    <3>1. Reqs
      BY <2>1, BeginPutShape, ReplaceRequest DEF StartPutBackup, Begin, Puts, Blobs, Reqs
    <3>2. Rest
      BY <2>1, <1>s, <1>r DEF StartPutBackup, Begin, Replies
    <3> QED
      BY <3>1, <3>2
  <2>2. ASSUME NEW a \in Accounts, NEW s \in SealedBlobs,
               NEW w \in Wallets, StartPutRecovery(p, a, s, w)
        PROVE  Reqs /\ Rest
    <3>1. Reqs
      BY <2>2, BeginPutShape, ReplaceRequest DEF StartPutRecovery, Begin, Puts, Blobs, Reqs
    <3>2. Rest
      BY <2>2, <1>r DEF StartPutRecovery, Begin, Replies, Rest, TypeOK, ShapeInv
    <3> QED
      BY <3>1, <3>2
  <2>3. ASSUME NEW a \in Accounts, NEW r \in Records, StartPutRecord(p, a, r)
        PROVE  Reqs /\ Rest
    <3>1. Reqs
      BY <2>3, BeginPutShape, ReplaceRequest DEF StartPutRecord, Begin, Puts, Blobs, Reqs
    <3>2. Rest
      BY <2>3, <1>s, <1>r DEF StartPutRecord, Begin, Replies
    <3> QED
      BY <3>1, <3>2
  <2>4. ASSUME NEW a \in Accounts, NEW kind \in Kinds, StartGet(p, a, kind)
        PROVE  Reqs /\ Rest
    <3>1. Reqs
      BY <2>4, BeginGetShape, ReplaceRequest DEF StartGet, Begin, GetOf, Kinds, Gets, Reqs
    <3>2. Rest
      BY <2>4, <1>s, <1>r DEF StartGet, Begin, Replies
    <3> QED
      BY <3>1, <3>2
  <2>5. ASSUME NEW w \in Wallets, StartGetByUser(p, w)
        PROVE  Reqs /\ Rest
    <3>1. Reqs
      <4>1. CASE userIndex[w] = None
        BY <2>5, <4>1 DEF StartGetByUser, Reqs, TypeOK, ShapeInv
      <4>2. CASE userIndex[w] # None
        <5>1. userIndex[w] \in Accounts
          BY <4>2 DEF TypeOK
        <5> QED
          BY <2>5, <4>2, <5>1, BeginGetShape, ReplaceRequest
          DEF StartGetByUser, Begin, Gets, Kinds, Reqs
      <4> QED
        BY <4>1, <4>2
    <3>2. Rest
      BY <2>5, <1>s, <1>r DEF StartGetByUser, Begin, Replies
    <3> QED
      BY <3>1, <3>2
  <2> QED
    BY <1>1, <2>1, <2>2, <2>3, <2>4, <2>5 DEF Start
<1>2. ASSUME NEW p \in Requests, Step(p) PROVE Reqs /\ Rest
  <2>r. req[p] \in Request /\ RequestShape(req[p])
    BY DEF TypeOK, ShapeInv
  <2>f. \A answer : Finish(p, answer) => Reqs
    BY IdleShape, ReplaceRequest DEF Finish, Reqs
  <2>o. ASSUME NEW answer \in Replies,
               RemoveOwnThen(p, answer), req[p].pc # "idle",
               req[p].op \in {"put_recovery", "put_record"}
        PROVE  Reqs
    <3> DEFINE r == [req[p] EXCEPT !.pc = "remove_own", !.kind = None,
                                   !.seen = None, !.answer = answer]
    <3>1. r \in Request
      BY <2>o, <2>r DEF Request, Pcs
    <3>2. RequestShape(r)
      BY <2>o, <2>r DEF RequestShape, Request, Puts
    <3> QED
      BY <2>o, <3>1, <3>2, ReplaceRequest DEF RemoveOwnThen, Goto, Reqs
  <2>1. CASE PutBlob(p)
    <3> DEFINE r == IF req[p].op = "put_backup"
                 THEN [req[p] EXCEPT !.pc = "read_ref"]
                 ELSE [req[p] EXCEPT !.pc = "load_ptr", !.kind = "recovery"]
    <3>1. r \in Request
      BY <2>1, <2>r DEF PutBlob, Request, RequestShape, Pcs, TypeOK, ShapeInv, Slot, Slots, Kinds
    <3>2. RequestShape(r)
      BY <2>1, <2>r DEF PutBlob, RequestShape, Request, TypeOK, ShapeInv, Slot, BlobsOf, Kinds
    <3>3. Reqs
      BY <2>1, <3>1, <3>2, ReplaceRequest DEF PutBlob, Goto, Reqs
    <3>4. Rest
      BY <2>1, <2>r DEF PutBlob, Goto, Rest, TypeOK, ShapeInv, RequestShape, Request,
                        Blobs, Puts
    <3> QED
      BY <3>3, <3>4
  <2>2. CASE ReadRef(p)
    <3> DEFINE r == [req[p] EXCEPT !.pc = "cas", !.seen = ref[<<req[p].acct, "backup">>]]
    <3>1. r \in Request
      BY <2>2, <2>r DEF ReadRef, Request, RequestShape, Pcs, TypeOK, ShapeInv, Slot, Slots, Kinds
    <3>2. RequestShape(r)
      <4>1. ref[<<req[p].acct, "backup">>] \in Backups \cup {None}
        BY <2>2, <2>r DEF ReadRef, RequestShape, ShapeInv, BlobsOf, Kinds
      <4> QED
        BY <2>2, <2>r, <4>1 DEF ReadRef, RequestShape, Request, Puts
    <3>3. Reqs
      BY <2>2, <3>1, <3>2, ReplaceRequest DEF ReadRef, Goto, Reqs
    <3>4. Rest
      BY <2>2, <1>s, <1>n DEF ReadRef, Goto
    <3> QED
      BY <3>3, <3>4
  <2>3. CASE LoadPointer(p)
    <3> DEFINE r == [req[p] EXCEPT !.pc = "load_bytes", !.seen = ref[Slot(p)]]
    <3>1. r \in Request
      BY <2>3, <2>r
      DEF LoadPointer, Request, RequestShape, Pcs, TypeOK, ShapeInv, Slot, Slots, Kinds
    <3>2. RequestShape(r)
      BY <2>3, <2>r DEF LoadPointer, RequestShape, Request, TypeOK, ShapeInv, Slot, BlobsOf, Kinds
    <3>3. Reqs
      BY <2>3, <3>1, <3>2, ReplaceRequest DEF LoadPointer, Goto, Reqs
    <3>4. Rest
      BY <2>3, <1>s, <1>n DEF LoadPointer, Goto
    <3> QED
      BY <3>3, <3>4
  <2>4. CASE BytesGone(p)
    <3> DEFINE r == [req[p] EXCEPT !.pc = "recheck"]
    <3>1. r \in Request
      BY <2>4, <2>r DEF BytesGone, Request, RequestShape, Pcs, TypeOK, ShapeInv, Slot, Slots, Kinds
    <3>2. RequestShape(r)
      BY <2>4, <2>r DEF BytesGone, RequestShape, Request, TypeOK, ShapeInv, Slot, BlobsOf, Kinds
    <3>3. Reqs
      BY <2>4, <3>1, <3>2, ReplaceRequest DEF BytesGone, Goto, Reqs
    <3>4. Rest
      BY <2>4, <1>s, <1>n DEF BytesGone, Goto
    <3> QED
      BY <3>3, <3>4
  <2>5. CASE PointerMoved(p)
    <3> DEFINE r == [req[p] EXCEPT !.pc = "load_ptr", !.seen = None]
    <3>1. r \in Request
      BY <2>5, <2>r
      DEF PointerMoved, Request, RequestShape, Pcs, TypeOK, ShapeInv, Slot, Slots, Kinds
    <3>2. RequestShape(r)
      BY <2>5, <2>r DEF PointerMoved, RequestShape, Request, TypeOK, ShapeInv, Slot, BlobsOf, Kinds
    <3>3. Reqs
      BY <2>5, <3>1, <3>2, ReplaceRequest DEF PointerMoved, Goto, Reqs
    <3>4. Rest
      BY <2>5, <1>s, <1>n DEF PointerMoved, Goto
    <3> QED
      BY <3>3, <3>4
  <2>6. CASE GetReturns(p)
    <3>1. Reqs
      BY <2>6, <2>f DEF GetReturns, Loaded
    <3>2. Rest
      <4>1. \E answer \in Replies : Finish(p, answer)
        BY <2>6 DEF GetReturns, Loaded, Replies
      <4> QED
        BY <2>6, <4>1, <1>s, <1>r DEF GetReturns, Finish
    <3> QED
      BY <3>1, <3>2
  <2>7. CASE CompareRecovery(p)
    <3>1. CASE Goto(p, [req[p] EXCEPT !.pc = "cas"]) /\ LoadedNone(p)
      <4> DEFINE r == [req[p] EXCEPT !.pc = "cas"]
      <4>1. r \in Request
        BY <2>r DEF Request, Pcs
      <4>2. RequestShape(r)
        BY <2>7, <3>1, <2>r DEF CompareRecovery, LoadedNone, RequestShape, Request, Puts
      <4> QED
        BY <2>7, <3>1, <4>1, <4>2, <1>s, <1>n, ReplaceRequest
        DEF CompareRecovery, Goto, Reqs
    <3>2. ASSUME NEW answer \in Replies, Finish(p, answer) PROVE Reqs /\ Rest
      BY <2>7, <3>2, <2>f, <1>s, <1>r DEF CompareRecovery, Finish
    <3>3. ASSUME NEW answer \in Replies, RemoveOwnThen(p, answer)
          PROVE  Reqs /\ Rest
      BY <2>7, <3>3, <2>o, <1>s, <1>n
      DEF CompareRecovery, RemoveOwnThen, Goto, Loaded, LoadedNone, LoadedSome, LoadFailed
    <3> QED
      BY <2>7, <3>1, <3>2, <3>3 DEF CompareRecovery, Loaded, Replies
  <2>8. CASE CasRecovery(p)
    <3>1. CASE ref[<<req[p].acct, "recovery">>] = None
      <4>1. Reqs
        BY <2>8, <3>1, <2>f DEF CasRecovery
      <4>2. req[p].acct \in Accounts /\ req[p].blob \in SealedBlobs
        BY <2>8, <2>r DEF CasRecovery, RequestShape
      <4>3. sealedWallet[req[p].blob] \in Wallets
        BY <2>8 DEF CasRecovery, SealInv
      <4>4. reply' \in [Requests -> Replies]
        BY <2>8, <3>1, <1>r DEF CasRecovery, Finish, Replies
      <4>5. /\ ref' \in [Slots -> Blobs \cup {None}]
            /\ \A a \in Accounts, k \in Kinds :
                  ref'[<<a, k>>] \in BlobsOf(k) \cup {None}
        BY <2>8, <3>1, <4>2, SetSlot DEF CasRecovery, Kinds, BlobsOf
      <4> QED
        BY <2>8, <3>1, <4>1, <4>2, <4>3, <4>4, <4>5
        DEF CasRecovery, Acked, Rest, TypeOK
    <3>2. CASE ref[<<req[p].acct, "recovery">>] # None
      <4> DEFINE r == [req[p] EXCEPT !.pc = "load_ptr"]
      <4>1. r \in Request
        BY <2>r DEF Request, Pcs
      <4>2. RequestShape(r)
        BY <2>8, <2>r DEF CasRecovery, RequestShape, Request, Puts, Kinds
      <4> QED
        BY <2>8, <3>2, <4>1, <4>2, <1>s, <1>n, ReplaceRequest
        DEF CasRecovery, Goto, Reqs
    <3> QED
      BY <3>1, <3>2
  <2>9. CASE EnforceRecovery(p)
    <3>1. CASE Goto(p, [req[p] EXCEPT !.pc = "load_ptr", !.kind = "record", !.seen = None]) /\ LoadedSome(p)
      <4> DEFINE r == [req[p] EXCEPT !.pc = "load_ptr", !.kind = "record", !.seen = None]
      <4>1. r \in Request
        BY <2>r DEF Request, Pcs, Kinds
      <4>2. RequestShape(r)
        BY <2>9, <3>1, <2>r
        DEF EnforceRecovery, LoadedNone, LoadedSome, RequestShape, Request, Puts, Kinds, BlobsOf
      <4> QED
        BY <2>9, <3>1, <4>1, <4>2, <1>s, <1>n, ReplaceRequest
        DEF EnforceRecovery, Goto, Reqs
    <3>9. ASSUME NEW answer \in Replies, RemoveOwnThen(p, answer)
          PROVE  Reqs /\ Rest
      BY <2>9, <3>9, <2>o, <1>s, <1>n
      DEF EnforceRecovery, RemoveOwnThen, Goto, Loaded, LoadedNone, LoadedSome, LoadFailed
    <3> QED
      BY <2>9, <3>1, <3>9 DEF EnforceRecovery, Loaded, Replies
  <2>10. CASE EnforceRecord(p)
    <3>1. CASE Goto(p, [req[p] EXCEPT !.pc = "cas"]) /\ (LoadedNone(p) \/ LoadedSome(p))
      <4> DEFINE r == [req[p] EXCEPT !.pc = "cas"]
      <4>1. r \in Request
        BY <2>r DEF Request, Pcs, Kinds
      <4>2. RequestShape(r)
        BY <2>10, <3>1, <2>r
        DEF EnforceRecord, LoadedNone, LoadedSome, RequestShape, Request, Puts, Kinds, BlobsOf
      <4> QED
        BY <2>10, <3>1, <4>1, <4>2, <1>s, <1>n, ReplaceRequest
        DEF EnforceRecord, Goto, Reqs
    <3>9. ASSUME NEW answer \in Replies, RemoveOwnThen(p, answer)
          PROVE  Reqs /\ Rest
      BY <2>10, <3>9, <2>o, <1>s, <1>n
      DEF EnforceRecord, RemoveOwnThen, Goto, Loaded, LoadedNone, LoadedSome, LoadFailed
    <3> QED
      BY <2>10, <3>1, <3>9 DEF EnforceRecord, Loaded, Replies
  <2>11. CASE CasRecordMismatch(p)
    <3>1. CASE Goto(p, [req[p] EXCEPT !.pc = "load_ptr", !.kind = "recovery", !.seen = None])
      <4> DEFINE r == [req[p] EXCEPT !.pc = "load_ptr", !.kind = "recovery", !.seen = None]
      <4>1. r \in Request
        BY <2>r DEF Request, Pcs, Kinds
      <4>2. RequestShape(r)
        BY <2>11, <3>1, <2>r
        DEF CasRecordMismatch, LoadedNone, LoadedSome, RequestShape, Request, Puts, Kinds, BlobsOf
      <4> QED
        BY <2>11, <3>1, <4>1, <4>2, <1>s, <1>n, ReplaceRequest
        DEF CasRecordMismatch, Goto, Reqs
    <3> QED
      BY <2>11, <3>1 DEF CasRecordMismatch
  <2>12. CASE CasRecord(p)
    <3> DEFINE a == req[p].acct
               w == WalletOf[req[p].blob]
               r == [req[p] EXCEPT !.pc = "remove_replaced"]
    <3>1. /\ a \in Accounts /\ req[p].blob \in Records /\ w \in Wallets
          /\ req[p].seen \in Records \cup {None}
      BY <2>12, <2>r DEF CasRecord, RequestShape
    <3>2. CASE userIndex[w] \notin {None, a}
      <4>1. Finish(p, "conflict") /\ UNCHANGED <<ref, userIndex, acked>>
        BY <2>12, <3>2 DEF CasRecord
      <4> QED
        BY <2>12, <4>1, <2>f, <1>s, <1>r DEF CasRecord, Finish, Replies
    <3>3. CASE userIndex[w] \in {None, a}
      <4>1. /\ ref' \in [Slots -> Blobs \cup {None}]
            /\ \A x \in Accounts, k \in Kinds :
                  ref'[<<x, k>>] \in BlobsOf(k) \cup {None}
        BY <2>12, <3>1, <3>3, SetSlot DEF CasRecord, Kinds, BlobsOf
      <4>2. userIndex' \in [Wallets -> Accounts \cup {None}]
        BY <2>12, <3>1, <3>3 DEF CasRecord, TypeOK, Rebound
      <4>3. CASE req[p].seen \in {None, req[p].blob}
        <5>1. Finish(p, "ok") /\ Acked(p, req[p].blob)
          BY <2>12, <3>3, <4>3 DEF CasRecord
        <5>2. acked' \subseteq Accounts \X (Records \cup Wallets)
          BY <5>1, <3>1 DEF Acked, TypeOK
        <5>3. reply' \in [Requests -> Replies]
          BY <5>1, <1>r DEF Finish, Replies
        <5> QED
          BY <2>12, <3>3, <4>1, <4>2, <5>1, <5>2, <5>3, <2>f DEF CasRecord, Rest, TypeOK
      <4>4. CASE req[p].seen \notin {None, req[p].blob}
        <5>1. Goto(p, r) /\ UNCHANGED acked
          BY <2>12, <3>3, <4>4 DEF CasRecord
        <5>2. r \in Request
          BY <2>r DEF Request, Pcs
        <5>3. RequestShape(r)
          BY <2>12, <2>r, <3>1, <4>4 DEF CasRecord, RequestShape, Request, Puts
        <5>4. Reqs
          BY <5>1, <5>2, <5>3, ReplaceRequest DEF Goto, Reqs
        <5> QED
          BY <2>12, <3>3, <4>1, <4>2, <5>1, <5>4, <1>n DEF CasRecord, Goto, Rest, TypeOK
      <4> QED
        BY <4>3, <4>4
    <3> QED
      BY <3>2, <3>3
  <2>13. CASE CasBackup(p)
    <3> DEFINE slot == <<req[p].acct, "backup">>
               q == [req[p] EXCEPT !.seen = ref[slot]]
               r == [req[p] EXCEPT !.pc = "remove_replaced"]
    <3>1. /\ req[p].acct \in Accounts /\ req[p].blob \in Backups
          /\ req[p].seen \in Backups \cup {None}
          /\ ref[slot] \in Backups \cup {None}
      BY <2>13, <2>r DEF CasBackup, RequestShape, ShapeInv, BlobsOf, Kinds
    <3>2. CASE ref[slot] # req[p].seen
      <4>1. Goto(p, q) /\ UNCHANGED ref
        BY <2>13, <3>2 DEF CasBackup
      <4>2. q \in Request
        BY <2>r, <3>1 DEF Request, Blobs
      <4>3. RequestShape(q)
        BY <2>13, <2>r, <3>1 DEF CasBackup, RequestShape, Request
      <4> QED
        BY <2>13, <4>1, <4>2, <4>3, <1>s, <1>n, ReplaceRequest
        DEF CasBackup, Goto, Reqs
    <3>3. CASE ref[slot] = req[p].seen
      <4>1. /\ ref' \in [Slots -> Blobs \cup {None}]
            /\ \A x \in Accounts, k \in Kinds :
                  ref'[<<x, k>>] \in BlobsOf(k) \cup {None}
        BY <2>13, <3>1, <3>3, SetSlot DEF CasBackup, Kinds, BlobsOf
      <4>2. CASE req[p].seen \in {None, req[p].blob}
        <5>1. Finish(p, "ok")
          BY <2>13, <3>3, <4>2 DEF CasBackup
        <5>2. reply' \in [Requests -> Replies]
          BY <5>1, <1>r DEF Finish, Replies
        <5> QED
          BY <2>13, <4>1, <5>1, <5>2, <2>f DEF CasBackup, Rest, TypeOK
      <4>3. CASE req[p].seen \notin {None, req[p].blob}
        <5>1. Goto(p, r)
          BY <2>13, <3>3, <4>3 DEF CasBackup
        <5>2. r \in Request
          BY <2>r DEF Request, Pcs
        <5>3. RequestShape(r)
          BY <2>13, <2>r, <3>1, <4>3 DEF CasBackup, RequestShape, Request, Puts
        <5>4. Reqs
          BY <5>1, <5>2, <5>3, ReplaceRequest DEF Goto, Reqs
        <5> QED
          BY <2>13, <4>1, <5>1, <5>4, <1>n DEF CasBackup, Goto, Rest, TypeOK
      <4> QED
        BY <4>2, <4>3
    <3> QED
      BY <3>2, <3>3
  <2>14. CASE RemoveReplaced(p)
    <3>1. Reqs
      BY <2>14, <2>f DEF RemoveReplaced
    <3>2. reply' \in [Requests -> Replies]
      BY <2>14, <1>r DEF RemoveReplaced, Finish, Replies
    <3>3. acked' \subseteq Accounts \X (Records \cup Wallets)
      BY <2>14, <2>r DEF RemoveReplaced, Acked, TypeOK, RequestShape
    <3> QED
      BY <2>14, <3>1, <3>2, <3>3 DEF RemoveReplaced, Rest, TypeOK, ShapeInv
  <2>15. CASE RemoveOwn(p)
    <3>1. Reqs
      BY <2>15, <2>f DEF RemoveOwn
    <3>2. reply' \in [Requests -> Replies]
      BY <2>15, <2>r, <1>r DEF RemoveOwn, Finish, Request
    <3>3. acked' \subseteq Accounts \X (Records \cup Wallets)
      BY <2>15, <2>r DEF RemoveOwn, Acked, TypeOK, RequestShape, SealInv
    <3> QED
      BY <2>15, <3>1, <3>2, <3>3 DEF RemoveOwn, Rest, TypeOK, ShapeInv
  <2> QED
    BY <1>2, <2>1, <2>2, <2>3, <2>4, <2>5, <2>6, <2>7, <2>8, <2>9, <2>10, <2>11,
       <2>12, <2>13, <2>14, <2>15 DEF Step
<1>3. ASSUME NEW p \in Requests, Fault(p) PROVE Reqs /\ Rest
  <2>r. req[p] \in Request /\ RequestShape(req[p])
    BY DEF TypeOK, ShapeInv
  <2>f. files' \subseteq Accounts \X Blobs
    <3>1. req[p].pc = "put" => req[p].acct \in Accounts /\ req[p].blob \in Blobs
      BY <2>r DEF RequestShape, Puts, Blobs
    <3> QED
      BY <1>3, <3>1, FaultFiles DEF TypeOK
  <2>1. ASSUME NEW answer \in Replies, RemoveOwnThen(p, answer), UNCHANGED acked,
               req[p].op = "put_record"
        PROVE  Reqs /\ Rest
    <3> DEFINE r == [req[p] EXCEPT !.pc = "remove_own", !.kind = None,
                                   !.seen = None, !.answer = answer]
    <3>1. r \in Request
      BY <2>r DEF Request, Pcs
    <3>2. RequestShape(r)
      BY <1>3, <2>1, <2>r DEF Fault, RequestShape, Request, Puts
    <3>3. Reqs
      BY <2>1, <3>1, <3>2, ReplaceRequest DEF RemoveOwnThen, Goto, Reqs
    <3> QED
      BY <1>3, <1>n, <2>1, <2>f, <3>3
      DEF Fault, RemoveOwnThen, Goto, Rest, TypeOK, ShapeInv
  <2>2. ASSUME NEW answer \in Replies, Finish(p, answer),
               \/ UNCHANGED acked
               \/ req[p].op = "put_record" /\ Acked(p, req[p].blob)
        PROVE  Reqs /\ Rest
    <3>1. Reqs
      BY <2>2, IdleShape, ReplaceRequest DEF Finish, Reqs
    <3>2. reply' \in [Requests -> Replies]
      BY <2>2, <1>r DEF Finish
    <3>3. acked' \subseteq Accounts \X (Records \cup Wallets)
      BY <1>3, <2>2, <2>r DEF Fault, Acked, TypeOK, RequestShape
    <3> QED
      BY <1>3, <2>f, <3>1, <3>2, <3>3 DEF Fault, Rest, TypeOK, ShapeInv
  <2>3. /\ req[p].answer \in Replies
        /\ "ok" \in Replies /\ "fault" \in Replies
    BY <2>r DEF Request, Replies
  <2>4. CASE /\ req[p].op = "put_record"
             /\ req[p].pc \in {"load_ptr", "load_bytes", "recheck"}
    BY <1>3, <2>1, <2>3, <2>4 DEF Fault
  <2>5. CASE req[p].pc = "remove_replaced"
    <3>1. Finish(p, "ok")
      BY <1>3, <2>5 DEF Fault
    <3>2. IF req[p].op = "put_record" THEN Acked(p, req[p].blob)
                                      ELSE UNCHANGED acked
      BY <1>3, <2>5 DEF Fault
    <3> QED
      BY <3>1, <3>2, <2>2, <2>3
  <2>6. CASE req[p].op = "put_record" /\ req[p].pc = "remove_own"
    <3>1. Finish(p, req[p].answer) /\ UNCHANGED acked
      BY <1>3, <2>6 DEF Fault
    <3> QED
      BY <3>1, <2>2, <2>3
  <2>7. CASE ~ <2>4!1 /\ ~ <2>5!1 /\ ~ <2>6!1
    <3>1. Finish(p, "fault") /\ UNCHANGED acked
      BY <1>3, <2>7 DEF Fault
    <3> QED
      BY <3>1, <2>2, <2>3
  <2> QED
    BY <2>4, <2>5, <2>6, <2>7
<1>4. CASE Crash
  <2>1. Reqs
    BY <1>4, IdleShape DEF Crash, Reqs
  <2>2. reply' \in [Requests -> Replies]
    BY <1>4 DEF Crash, Replies
  <2> QED
    BY <1>4, <1>q, <2>1, <2>2, <1>s DEF Crash
<1>5. CASE UNCHANGED vars
  BY <1>5 DEF vars, Reqs, Rest, TypeOK, ShapeInv
<1> QED
  BY <1>q, <1>1, <1>2, <1>3, <1>4, <1>5 DEF Next

(* The sealed blob of a request stays sealed.                              *)
LEMMA SealStep == TypeOK /\ ShapeInv /\ SealInv /\ [Next]_vars => SealInv'
<1> SUFFICES ASSUME TypeOK, ShapeInv, SealInv, [Next]_vars PROVE SealInv'
  OBVIOUS
<1>1. ASSUME NEW p \in Requests, NEW r,
             req' = [req EXCEPT ![p] = r], UNCHANGED sealedWallet,
             r.op = "put_recovery" => req[p].op = r.op /\ req[p].blob = r.blob
      PROVE  SealInv'
  BY <1>1 DEF SealInv, TypeOK
<1>i. Idle.op # "put_recovery"
  BY RegistryAssumption DEF Idle, Puts
<1>2. ASSUME NEW p \in Requests, Start(p) PROVE SealInv'
  <2>1. CASE \E a \in Accounts, s \in SealedBlobs, w \in Wallets :
                StartPutRecovery(p, a, s, w)
    BY <2>1 DEF StartPutRecovery, Begin, SealInv, TypeOK, ShapeInv, RequestShape, Idle
  <2>2. CASE \E a \in Accounts, b \in Backups : StartPutBackup(p, a, b)
    BY <2>2, <1>1 DEF StartPutBackup, Begin, Idle
  <2>3. CASE \E a \in Accounts, r \in Records : StartPutRecord(p, a, r)
    BY <2>3, <1>1 DEF StartPutRecord, Begin, Idle
  <2>4. CASE \E a \in Accounts, kind \in Kinds : StartGet(p, a, kind)
    BY <2>4, <1>1 DEF StartGet, Begin, Idle, GetOf, Kinds
  <2>5. CASE \E w \in Wallets : StartGetByUser(p, w)
    BY <2>5, <1>1 DEF StartGetByUser, Begin, Idle, SealInv
  <2> QED
    BY <1>2, <2>1, <2>2, <2>3, <2>4, <2>5 DEF Start
<1>3. ASSUME NEW p \in Requests, Step(p) \/ Fault(p) PROVE SealInv'
  <2>r. req[p] \in Request
    BY DEF TypeOK
  <2>1. UNCHANGED sealedWallet
    BY <1>3 DEF Step, PutBlob, ReadRef, LoadPointer, BytesGone, PointerMoved, GetReturns,
       CompareRecovery, CasRecovery, EnforceRecovery, EnforceRecord, CasRecordMismatch,
       CasRecord, CasBackup, RemoveReplaced, RemoveOwn, Fault
  <2>2. \E r : /\ req' = [req EXCEPT ![p] = r]
               /\ r.op = "put_recovery" => req[p].op = r.op /\ req[p].blob = r.blob
    BY <1>3, <1>i, OwnRequest
  <2> QED
    BY <2>1, <2>2, <1>1
<1>4. CASE Crash
  BY <1>4, <1>i DEF Crash, SealInv
<1>5. CASE UNCHANGED vars
  BY <1>5 DEF vars, SealInv
<1> QED
  BY <1>2, <1>3, <1>4, <1>5 DEF Next

(* A swap of one slot leaves the slots of other kinds alone.               *)
LEMMA OtherSlot ==
    ASSUME TypeOK, NEW a \in Accounts, NEW k \in Kinds, NEW b,
           ref' = [ref EXCEPT ![<<a, k>>] = b]
    PROVE  \A x \in Accounts, kind \in Kinds :
              ref'[<<x, kind>>] = IF x = a /\ kind = k THEN b ELSE ref[<<x, kind>>]
BY DEF TypeOK, Slots

(* The recovery slot is never emptied or overwritten.                      *)
LEMMA RecoveryStep ==
    TypeOK /\ ShapeInv /\ SealInv /\ RecoveryInv /\ [Next]_vars => RecoveryInv'
<1> SUFFICES ASSUME TypeOK, ShapeInv, SealInv, RecoveryInv, [Next]_vars
             PROVE  RecoveryInv'
  OBVIOUS
<1> USE RegistryAssumption
<1> DEFINE Kept == /\ UNCHANGED sealedWallet
                   /\ \A a \in Accounts : RecoveryRef(a)' = RecoveryRef(a)
                   /\ \A a \in Accounts, s \in SealedBlobs :
                         <<a, s>> \in files => <<a, s>> \in files'
           Took(p, r) ==
             /\ req' = [req EXCEPT ![p] = r]
             /\ r.op = "put_recovery" =>
                   /\ req[p].op = r.op /\ req[p].blob = r.blob /\ req[p].acct = r.acct
                   /\ req[p].pc # "put" \/ <<r.acct, r.blob>> \in files'
             /\ r.pc \in {"load_bytes", "recheck"} /\ r.kind = "recovery" =>
                   r.pc = "load_bytes" /\ r.seen = RecoveryRef(r.acct)
(* The frame: a request that moves on without touching what is stored.     *)
<1>a. ASSUME NEW p \in Requests, NEW r, Kept, Took(p, r),
             r.acct \in Accounts \/ r = Idle
      PROVE  RecoveryInv'
  <2>r. req \in [Requests -> Request] /\ \A q \in Requests : RequestShape(req[q])
    BY DEF TypeOK, ShapeInv
  <2>q. \A q \in Requests : req'[q] = IF q = p THEN r ELSE req[q]
    BY <1>a, <2>r
  <2>p. \A a \in Accounts : RecoveryRef(a) \in SealedBlobs \cup {None}
    BY DEF ShapeInv, RecoveryRef, Kinds, BlobsOf
  <2>i. Idle.op # "put_recovery" /\ Idle.pc = "idle"
    BY DEF Idle, Puts
  <2>1. RecoveryStored'
    BY <1>a, <2>p DEF RecoveryInv, RecoveryStored
  <2>2. RecoveryPrivate'
    <3>1. \A q \in Requests : req[q].op = "put_recovery" =>
             req[q].acct \in Accounts /\ req[q].blob \in SealedBlobs
      BY <2>r DEF RequestShape, Idle, Puts
    <3>2. \A q \in Requests : req'[q].op = "put_recovery" =>
             /\ req[q].op = "put_recovery"
             /\ req'[q].blob = req[q].blob /\ req'[q].acct = req[q].acct
             /\ req'[q].pc = "put" \/ <<req[q].acct, req[q].blob>> \in files'
      BY <1>a, <2>q, <3>1 DEF RecoveryInv, RecoveryPrivate
    <3> SUFFICES ASSUME NEW q \in Requests, (req[q].op = "put_recovery")'
                 PROVE  /\ \A a \in Accounts : (RecoveryRef(a) # req[q].blob)'
                        /\ (req[q].pc # "put" => <<req[q].acct, req[q].blob>> \in files)'
                        /\ \A x \in Requests \ {q} :
                              (req[x].op = "put_recovery" => req[q].blob # req[x].blob)'
      BY DEF RecoveryPrivate
    <3>3. \A a \in Accounts : (RecoveryRef(a) # req[q].blob)'
      <4>1. /\ req[q].op = "put_recovery"
            /\ req'[q].blob = req[q].blob
        BY <3>2
      <4>2. \A a \in Accounts : RecoveryRef(a) # req[q].blob
        BY <4>1 DEF RecoveryInv, RecoveryPrivate
      <4>3. \A a \in Accounts : RecoveryRef(a)' = RecoveryRef(a)
        BY <1>a
      <4> QED
        BY <4>1, <4>2, <4>3
    <3>4. (req[q].pc # "put" => <<req[q].acct, req[q].blob>> \in files)'
      BY <3>2
    <3>5. \A x \in Requests \ {q} :
             (req[x].op = "put_recovery" => req[q].blob # req[x].blob)'
      BY <3>2 DEF RecoveryInv, RecoveryPrivate
    <3> QED
      BY <3>3, <3>4, <3>5
  <2>3. RecoveryRead'
    <3>1. \A q \in Requests : req[q].pc # "idle" => req[q].acct \in Accounts
      BY <2>r DEF RequestShape
    <3> QED
      BY <1>a, <2>i, <2>q, <3>1 DEF RecoveryInv, RecoveryRead
  <2> QED
    BY <2>1, <2>2, <2>3 DEF RecoveryInv
<1>b. UNCHANGED <<files, ref, sealedWallet>> => Kept
  BY DEF RecoveryRef
<1>c. ASSUME NEW p \in Requests, NEW answer, Finish(p, answer), Kept
      PROVE  RecoveryInv'
  <2>1. Took(p, Idle)
    BY <1>c DEF Finish, Idle, Puts
  <2> QED
    BY <1>a, <1>c, <2>1
(* A refused put_recovery removes a blob that no account points to.        *)
<1>d. ASSUME NEW p \in Requests, NEW answer, Finish(p, answer),
             req[p].op = "put_recovery",
             files' = files \ {<<req[p].acct, req[p].blob>>},
             UNCHANGED <<ref, sealedWallet>>
      PROVE  RecoveryInv'
  <2>1. \A q \in Requests : req'[q] = IF q = p THEN Idle ELSE req[q]
    BY <1>d DEF Finish, TypeOK
  <2>2. Idle.op # "put_recovery" /\ Idle.pc = "idle"
    BY DEF Idle, Puts
  <2>3. RecoveryStored'
    BY <1>d DEF RecoveryInv, RecoveryStored, RecoveryPrivate, RecoveryRef
  <2>4. \A q \in Requests : req'[q].op = "put_recovery" =>
           req'[q] = req[q] /\ q # p /\ req[q].blob # req[p].blob
    BY <1>d, <2>1, <2>2 DEF RecoveryInv, RecoveryPrivate
  <2>5. RecoveryPrivate'
    BY <1>d, <2>4 DEF RecoveryInv, RecoveryPrivate, RecoveryRef
  <2>6. RecoveryRead'
    BY <1>d, <2>1, <2>2 DEF RecoveryInv, RecoveryRead, RecoveryRef
  <2> QED
    BY <2>3, <2>5, <2>6 DEF RecoveryInv
<1>o. ASSUME NEW p \in Requests, NEW answer, RemoveOwnThen(p, answer), Kept,
             req[p].pc \notin {"idle", "put"}
      PROVE  RecoveryInv'
  <2> DEFINE r == [req[p] EXCEPT !.pc = "remove_own", !.kind = None,
                                 !.seen = None, !.answer = answer]
  <2>r. req[p] \in Request /\ RequestShape(req[p])
    BY DEF TypeOK, ShapeInv
  <2>1. Took(p, r) /\ r.acct \in Accounts
    BY <1>o, <2>r DEF RemoveOwnThen, Goto, Request, RequestShape
  <2> QED
    BY <1>a, <1>o, <2>1
<1> HIDE DEF Kept, Took
<1>1. ASSUME NEW p \in Requests, Start(p) PROVE RecoveryInv'
  <2>1. ASSUME NEW a \in Accounts, NEW b \in Backups, StartPutBackup(p, a, b)
        PROVE  RecoveryInv'
    <3> DEFINE new == [Idle EXCEPT !.op = "put_backup", !.pc = "put", !.acct = a, !.blob = b]
    <3>1. Took(p, new) /\ new.acct \in Accounts
      BY <2>1 DEF StartPutBackup, Begin, Idle, Took
    <3> QED
      BY <2>1, <1>a, <1>b, <3>1 DEF StartPutBackup
  <2>2. ASSUME NEW a \in Accounts, NEW r \in Records, StartPutRecord(p, a, r)
        PROVE  RecoveryInv'
    <3> DEFINE new == [Idle EXCEPT !.op = "put_record", !.pc = "put", !.acct = a, !.blob = r]
    <3>1. Took(p, new) /\ new.acct \in Accounts
      BY <2>2 DEF StartPutRecord, Begin, Idle, Took
    <3> QED
      BY <2>2, <1>a, <1>b, <3>1 DEF StartPutRecord
  <2>3. ASSUME NEW a \in Accounts, NEW kind \in Kinds, StartGet(p, a, kind)
        PROVE  RecoveryInv'
    <3> DEFINE new == [Idle EXCEPT !.op = GetOf(kind), !.pc = "load_ptr",
                                 !.acct = a, !.kind = kind]
    <3>1. Took(p, new) /\ new.acct \in Accounts
      BY <2>3 DEF StartGet, Begin, Idle, GetOf, Kinds, Took
    <3> QED
      BY <2>3, <1>a, <1>b, <3>1 DEF StartGet
  <2>4. ASSUME NEW w \in Wallets, StartGetByUser(p, w) PROVE RecoveryInv'
    <3>1. CASE userIndex[w] = None
      BY <2>4, <3>1
      DEF StartGetByUser, RecoveryInv, RecoveryStored, RecoveryPrivate, RecoveryRead,
          RecoveryRef
    <3>2. CASE userIndex[w] # None
      <4> DEFINE new == [Idle EXCEPT !.op = "get_record", !.pc = "load_ptr",
                                     !.acct = userIndex[w], !.kind = "record"]
      <4>1. userIndex[w] \in Accounts
        BY <3>2 DEF TypeOK
      <4>2. Took(p, new) /\ new.acct \in Accounts
        BY <2>4, <3>2, <4>1 DEF StartGetByUser, Begin, Idle, Took
      <4> QED
        BY <2>4, <1>a, <1>b, <4>2 DEF StartGetByUser
    <3> QED
      BY <3>1, <3>2
  <2>5. ASSUME NEW a \in Accounts, NEW s \in SealedBlobs, NEW w \in Wallets,
               StartPutRecovery(p, a, s, w)
        PROVE  RecoveryInv'
    <3>1. \A q \in Requests :
            /\ q # p => req'[q] = req[q]
            /\ q = p => /\ req'[q].op = "put_recovery" /\ req'[q].pc = "put"
                        /\ req'[q].blob = s /\ req'[q].acct = a
      BY <2>5 DEF StartPutRecovery, Begin, Idle, TypeOK
    <3>2. \A q \in Requests : req[q].op = "put_recovery" => req[q].blob # s
      BY <2>5 DEF StartPutRecovery, SealInv
    <3>3. \A x \in Accounts : RecoveryRef(x) # s /\ RecoveryRef(x) \in SealedBlobs \cup {None}
      BY <2>5 DEF StartPutRecovery, RecoveryInv, RecoveryStored, ShapeInv, RecoveryRef,
                  Kinds, BlobsOf, Blobs
    <3>4. /\ UNCHANGED <<files, ref>>
          /\ \A t \in SealedBlobs : t # s => sealedWallet'[t] = sealedWallet[t]
      BY <2>5 DEF StartPutRecovery, TypeOK
    <3>5. RecoveryStored'
      BY <3>3, <3>4 DEF RecoveryInv, RecoveryStored, RecoveryRef
    <3>6. RecoveryPrivate'
      BY <3>1, <3>2, <3>3, <3>4 DEF RecoveryInv, RecoveryPrivate, RecoveryRef
    <3>7. RecoveryRead'
      BY <3>1, <3>4 DEF RecoveryInv, RecoveryRead, RecoveryRef
    <3> QED
      BY <3>5, <3>6, <3>7 DEF RecoveryInv
  <2> QED
    BY <1>1, <2>1, <2>2, <2>3, <2>4, <2>5 DEF Start
<1>2. ASSUME NEW p \in Requests, Step(p) PROVE RecoveryInv'
  <2>r. req[p] \in Request /\ RequestShape(req[p])
    BY DEF TypeOK, ShapeInv
  <2>1. CASE PutBlob(p)
    <3> DEFINE r == IF req[p].op = "put_backup"
                      THEN [req[p] EXCEPT !.pc = "read_ref"]
                      ELSE [req[p] EXCEPT !.pc = "load_ptr", !.kind = "recovery"]
    <3>1. Took(p, r) /\ r.acct \in Accounts
      BY <2>1, <2>r DEF PutBlob, Goto, Took, Request, RequestShape
    <3>2. Kept
      BY <2>1 DEF PutBlob, Kept, RecoveryRef
    <3> QED
      BY <1>a, <3>1, <3>2
  <2>2. CASE ReadRef(p)
    <3> DEFINE r == [req[p] EXCEPT !.pc = "cas", !.seen = ref[<<req[p].acct, "backup">>]]
    <3>1. Took(p, r) /\ r.acct \in Accounts
      BY <2>2, <2>r DEF ReadRef, Goto, Took, Request, RequestShape
    <3> QED
      BY <2>2, <1>a, <1>b, <3>1 DEF ReadRef
  <2>3. CASE LoadPointer(p)
    <3> DEFINE r == [req[p] EXCEPT !.pc = "load_bytes", !.seen = ref[Slot(p)]]
    <3>1. Took(p, r) /\ r.acct \in Accounts
      BY <2>3, <2>r DEF LoadPointer, Goto, Took, Request, RequestShape, Slot, RecoveryRef
    <3> QED
      BY <2>3, <1>a, <1>b, <3>1 DEF LoadPointer
  <2>4. CASE BytesGone(p)
    <3> DEFINE r == [req[p] EXCEPT !.pc = "recheck"]
    <3>1. req[p].kind # "recovery"
      <4> SUFFICES ASSUME req[p].kind = "recovery" PROVE FALSE
        OBVIOUS
      <4>1. req[p].seen = RecoveryRef(req[p].acct) /\ req[p].acct \in Accounts
        BY <2>4, <2>r DEF BytesGone, RecoveryInv, RecoveryRead, RequestShape
      <4>2. req[p].seen # None
        BY <2>4, <2>r DEF BytesGone, RequestShape, BlobsOf, Blobs
      <4> QED
        BY <2>4, <4>1, <4>2 DEF BytesGone, RecoveryInv, RecoveryStored
    <3>2. Took(p, r) /\ r.acct \in Accounts
      BY <2>4, <2>r, <3>1 DEF BytesGone, Goto, Took, Request, RequestShape
    <3> QED
      BY <2>4, <1>a, <1>b, <3>2 DEF BytesGone
  <2>5. CASE PointerMoved(p)
    <3> DEFINE r == [req[p] EXCEPT !.pc = "load_ptr", !.seen = None]
    <3>1. Took(p, r) /\ r.acct \in Accounts
      BY <2>5, <2>r DEF PointerMoved, Goto, Took, Request, RequestShape
    <3> QED
      BY <2>5, <1>a, <1>b, <3>1 DEF PointerMoved
  <2>11. CASE CasRecordMismatch(p)
    <3> DEFINE r == [req[p] EXCEPT !.pc = "load_ptr", !.kind = "recovery", !.seen = None]
    <3>1. Took(p, r) /\ r.acct \in Accounts
      BY <2>11, <2>r DEF CasRecordMismatch, Goto, Took, Request, RequestShape
    <3> QED
      BY <2>11, <1>a, <1>b, <3>1 DEF CasRecordMismatch
  <2>6. CASE GetReturns(p)
    <3>1. Finish(p, "ok") \/ Finish(p, "not_found") \/ Finish(p, "missing")
      BY <2>6 DEF GetReturns, Loaded
    <3> QED
      BY <2>6, <3>1, <1>b, <1>c DEF GetReturns
  <2>7. CASE CompareRecovery(p)
    <3>1. Kept /\ req[p].pc \notin {"idle", "put"} /\ req[p].op = "put_recovery"
      BY <2>7, <1>b
      DEF CompareRecovery, Loaded, LoadedNone, LoadedSome, LoadFailed
    <3>2. CASE Goto(p, [req[p] EXCEPT !.pc = "cas"])
      <4> DEFINE r == [req[p] EXCEPT !.pc = "cas"]
      <4>1. Took(p, r) /\ r.acct \in Accounts
        BY <2>r, <3>1, <3>2 DEF Goto, Took, Request, RequestShape
      <4> QED
        BY <1>a, <3>1, <4>1
    <3> QED
      BY <2>7, <3>1, <3>2, <1>c, <1>o DEF CompareRecovery, Loaded
  <2>9. CASE EnforceRecovery(p)
    <3>1. Kept /\ req[p].pc \notin {"idle", "put"}
      BY <2>9, <1>b
      DEF EnforceRecovery, Loaded, LoadedNone, LoadedSome, LoadFailed
    <3> DEFINE r == [req[p] EXCEPT !.pc = "load_ptr", !.kind = "record", !.seen = None]
    <3>2. CASE Goto(p, r)
      <4>1. Took(p, r) /\ r.acct \in Accounts
        BY <2>r, <3>1, <3>2 DEF Goto, Took, Request, RequestShape
      <4> QED
        BY <1>a, <3>1, <4>1
    <3> QED
      BY <2>9, <3>1, <3>2, <1>o DEF EnforceRecovery, Loaded
  <2>10. CASE EnforceRecord(p)
    <3>1. Kept /\ req[p].pc \notin {"idle", "put"}
      BY <2>10, <1>b
      DEF EnforceRecord, Loaded, LoadedNone, LoadedSome, LoadFailed
    <3> DEFINE r == [req[p] EXCEPT !.pc = "cas"]
    <3>2. CASE Goto(p, r)
      <4>1. Took(p, r) /\ r.acct \in Accounts
        BY <2>r, <3>1, <3>2 DEF Goto, Took, Request, RequestShape
      <4> QED
        BY <1>a, <3>1, <4>1
    <3> QED
      BY <2>10, <3>1, <3>2, <1>o DEF EnforceRecord, Loaded
  <2>12. CASE CasRecord(p)
    <3> DEFINE r == [req[p] EXCEPT !.pc = "remove_replaced"]
    <3>1. Kept
      <4>1. req[p].acct \in Accounts
        BY <2>12, <2>r DEF CasRecord, RequestShape
      <4>2. \A a \in Accounts : RecoveryRef(a)' = RecoveryRef(a)
        <5>1. \/ UNCHANGED ref
              \/ ref' = [ref EXCEPT ![<<req[p].acct, "record">>] = req[p].blob]
          BY <2>12 DEF CasRecord
        <5>2. "record" \in Kinds /\ "recovery" \in Kinds
          BY DEF Kinds
        <5>3. CASE ref' = [ref EXCEPT ![<<req[p].acct, "record">>] = req[p].blob]
          BY <4>1, <5>2, <5>3, OtherSlot DEF RecoveryRef
        <5> QED
          BY <5>1, <5>3 DEF RecoveryRef
      <4> QED
        BY <2>12, <4>2 DEF CasRecord, Kept
    <3>2. Goto(p, r) => Took(p, r) /\ r.acct \in Accounts
      BY <2>12, <2>r DEF CasRecord, Goto, Took, Request, RequestShape
    <3>3. Goto(p, r) \/ \E answer : Finish(p, answer)
      BY <2>12 DEF CasRecord
    <3> QED
      BY <3>1, <3>2, <3>3, <1>a, <1>c
  <2>13. CASE CasBackup(p)
    <3> DEFINE r == [req[p] EXCEPT !.pc = "remove_replaced"]
               q == [req[p] EXCEPT !.seen = ref[<<req[p].acct, "backup">>]]
    <3>1. Kept
      <4>1. req[p].acct \in Accounts
        BY <2>13, <2>r DEF CasBackup, RequestShape
      <4>2. \A a \in Accounts : RecoveryRef(a)' = RecoveryRef(a)
        <5>1. \/ UNCHANGED ref
              \/ ref' = [ref EXCEPT ![<<req[p].acct, "backup">>] = req[p].blob]
          BY <2>13 DEF CasBackup
        <5>2. "backup" \in Kinds /\ "recovery" \in Kinds
          BY DEF Kinds
        <5>3. CASE ref' = [ref EXCEPT ![<<req[p].acct, "backup">>] = req[p].blob]
          BY <4>1, <5>2, <5>3, OtherSlot DEF RecoveryRef
        <5> QED
          BY <5>1, <5>3 DEF RecoveryRef
      <4> QED
        BY <2>13, <4>2 DEF CasBackup, Kept
    <3>2. Goto(p, r) => Took(p, r) /\ r.acct \in Accounts
      BY <2>13, <2>r DEF CasBackup, Goto, Took, Request, RequestShape
    <3>3. Goto(p, q) => Took(p, q) /\ q.acct \in Accounts
      BY <2>13, <2>r DEF CasBackup, Goto, Took, Request, RequestShape
    <3>4. Goto(p, r) \/ Goto(p, q) \/ Finish(p, "ok")
      BY <2>13 DEF CasBackup
    <3> QED
      BY <3>1, <3>2, <3>3, <3>4, <1>a, <1>c
  <2>14. CASE RemoveReplaced(p)
    <3>1. req[p].seen \notin SealedBlobs
      BY <2>14, <2>r DEF RemoveReplaced, RequestShape
    <3>2. Kept
      BY <2>14, <3>1 DEF RemoveReplaced, Kept, RecoveryRef
    <3> QED
      BY <2>14, <3>2, <1>c DEF RemoveReplaced
  <2>8. CASE CasRecovery(p)
    <3> DEFINE a == req[p].acct
               r == [req[p] EXCEPT !.pc = "load_ptr"]
    <3>0. /\ a \in Accounts /\ req[p].blob \in SealedBlobs
          /\ req[p].op = "put_recovery" /\ req[p].pc = "cas"
      BY <2>8, <2>r DEF CasRecovery, RequestShape
    <3>1. CASE ref[<<a, "recovery">>] # None
      <4>1. Took(p, r) /\ r.acct \in Accounts
        BY <2>8, <2>r, <3>1 DEF CasRecovery, Goto, Took, Request, RequestShape
      <4> QED
        BY <2>8, <3>1, <4>1, <1>a, <1>b DEF CasRecovery
    <3>2. CASE ref[<<a, "recovery">>] = None
      <4>1. /\ \A q \in Requests : req'[q] = IF q = p THEN Idle ELSE req[q]
            /\ UNCHANGED <<files, sealedWallet>>
        BY <2>8, <3>2 DEF CasRecovery, Finish, TypeOK
      <4>2. \A x \in Accounts :
               RecoveryRef(x)' = IF x = a THEN req[p].blob ELSE RecoveryRef(x)
        <5>1. "recovery" \in Kinds
          BY DEF Kinds
        <5>2. ref' = [ref EXCEPT ![<<a, "recovery">>] = req[p].blob]
          BY <2>8, <3>2 DEF CasRecovery
        <5>3. \A x \in Accounts, kind \in Kinds : ref'[<<x, kind>>] =
                 IF x = a /\ kind = "recovery" THEN req[p].blob ELSE ref[<<x, kind>>]
          BY <3>0, <5>1, <5>2 DEF TypeOK, Slots
        <5> QED
          BY <5>1, <5>3 DEF RecoveryRef
      <4>3. Idle.op # "put_recovery" /\ Idle.pc = "idle"
        BY DEF Idle, Puts
      <4>4. RecoveryStored'
        BY <3>0, <4>1, <4>2 DEF RecoveryInv, RecoveryStored, RecoveryPrivate, SealInv
      <4>5. RecoveryPrivate'
        <5>1. \A q \in Requests : req'[q].op = "put_recovery" =>
                 q # p /\ req'[q] = req[q] /\ req[q].blob # req[p].blob
          BY <3>0, <4>1, <4>3 DEF RecoveryInv, RecoveryPrivate
        <5>2. \A q \in Requests : req'[q].op = "put_recovery" =>
                 \A x \in Accounts : RecoveryRef(x)' # req'[q].blob
          BY <4>2, <5>1 DEF RecoveryInv, RecoveryPrivate
        <5>3. \A q \in Requests : req'[q].op = "put_recovery" =>
                 (req'[q].pc # "put" => <<req'[q].acct, req'[q].blob>> \in files')
          BY <4>1, <5>1 DEF RecoveryInv, RecoveryPrivate
        <5>4. \A q \in Requests : req'[q].op = "put_recovery" =>
                 \A x \in Requests \ {q} :
                    req'[x].op = "put_recovery" => req'[q].blob # req'[x].blob
          BY <5>1 DEF RecoveryInv, RecoveryPrivate
        <5> QED
          BY <5>2, <5>3, <5>4 DEF RecoveryPrivate
      <4>6. RecoveryRead'
        <5>1. \A q \in Requests :
                 req[q].pc \in {"load_bytes", "recheck"} /\ req[q].kind = "recovery" =>
                    /\ req[q].acct \in Accounts
                    /\ RecoveryRef(req[q].acct) \in SealedBlobs
          BY DEF ShapeInv, RequestShape, RecoveryInv, RecoveryRead, BlobsOf
        <5>2. RecoveryRef(a) \notin SealedBlobs
          BY <3>2 DEF RecoveryRef, Blobs
        <5> QED
          BY <4>1, <4>2, <4>3, <5>1, <5>2 DEF RecoveryInv, RecoveryRead
      <4> QED
        BY <4>4, <4>5, <4>6 DEF RecoveryInv
    <3> QED
      BY <3>1, <3>2
  <2>15. CASE RemoveOwn(p)
    <3> DEFINE a == req[p].acct
    <3>1. req[p].op \in {"put_recovery", "put_record"} /\ a \in Accounts
      BY <2>15, <2>r DEF RemoveOwn, RequestShape
    <3>2. CASE req[p].op = "put_record"
      <4>1. req[p].blob \notin SealedBlobs
        BY <2>r, <3>2 DEF RequestShape
      <4>2. Kept
        BY <2>15, <4>1 DEF RemoveOwn, Kept, RecoveryRef
      <4> QED
        BY <2>15, <4>2, <1>c DEF RemoveOwn
    <3>3. CASE req[p].op = "put_recovery"
      BY <2>15, <3>3, <1>d DEF RemoveOwn
    <3> QED
      BY <3>1, <3>2, <3>3
  <2> QED
    BY <1>2, <2>1, <2>2, <2>3, <2>4, <2>5, <2>6, <2>7, <2>8, <2>9, <2>10, <2>11,
       <2>12, <2>13, <2>14, <2>15 DEF Step
<1>3. ASSUME NEW p \in Requests, Fault(p) PROVE RecoveryInv'
  <2>r. RequestShape(req[p]) /\ UNCHANGED <<ref, sealedWallet>>
    BY <1>3 DEF ShapeInv, Fault
  <2>2. \/ \E answer : Finish(p, answer)
        \/ /\ req[p].pc \in {"load_ptr", "load_bytes", "recheck"}
           /\ RemoveOwnThen(p, "fault")
    BY <1>3 DEF Fault
  <2>3. CASE /\ req[p].pc = "remove_own" /\ req[p].op = "put_recovery"
             /\ files' = files \ {<<req[p].acct, req[p].blob>>}
    BY <2>r, <2>2, <2>3, <1>d
  <2>4. CASE ~ (/\ req[p].pc = "remove_own" /\ req[p].op = "put_recovery"
                /\ files' = files \ {<<req[p].acct, req[p].blob>>})
    <3>1. \A a \in Accounts, s \in SealedBlobs : <<a, s>> \in files => <<a, s>> \in files'
      <4>1. CASE req[p].pc = "remove_own"
        <5>1. req[p].op = "put_recovery" \/ req[p].blob \notin SealedBlobs
          BY <2>r, <4>1 DEF RequestShape
        <5> QED
          BY <1>3, <2>4, <4>1, <5>1, FaultFiles
      <4>2. CASE req[p].pc = "remove_replaced"
        <5>1. req[p].seen \notin SealedBlobs
          BY <2>r, <4>2 DEF RequestShape
        <5> QED
          BY <1>3, <4>2, <5>1, FaultFiles
      <4>3. CASE req[p].pc \notin {"remove_own", "remove_replaced"}
        BY <1>3, <4>3, FaultFiles
      <4> QED
        BY <4>1, <4>2, <4>3
    <3>2. \A a \in Accounts : RecoveryRef(a)' = RecoveryRef(a)
      BY <2>r DEF RecoveryRef
    <3>3. Kept
      BY <2>r, <3>1, <3>2 DEF Kept
    <3> QED
      BY <2>2, <3>3, <1>c, <1>o
  <2> QED
    BY <2>3, <2>4
<1>4. CASE Crash
  <2>1. Idle.op # "put_recovery" /\ Idle.pc = "idle"
    BY DEF Idle, Puts
  <2> QED
    BY <1>4, <2>1
    DEF Crash, RecoveryInv, RecoveryStored, RecoveryPrivate, RecoveryRead, RecoveryRef
<1>5. CASE UNCHANGED vars
  BY <1>5
  DEF vars, RecoveryInv, RecoveryStored, RecoveryPrivate, RecoveryRead, RecoveryRef
<1> QED
  BY <1>1, <1>2, <1>3, <1>4, <1>5 DEF Next

(* The steps that change a pointer or the user index.                      *)
LEMMA RefSteps ==
    ASSUME [Next]_vars
    PROVE  \/ UNCHANGED <<ref, userIndex>>
           \/ \E p \in Requests : CasRecovery(p) \/ CasRecord(p) \/ CasBackup(p)
<1>1. ASSUME NEW p \in Requests, Start(p) PROVE UNCHANGED <<ref, userIndex>>
  BY <1>1 DEF Start, StartPutBackup, StartPutRecovery, StartPutRecord, StartGet,
              StartGetByUser
<1>2. ASSUME NEW p \in Requests, Step(p),
             ~ CasRecovery(p), ~ CasRecord(p), ~ CasBackup(p)
      PROVE  UNCHANGED <<ref, userIndex>>
  BY <1>2 DEF Step, PutBlob, ReadRef, LoadPointer, BytesGone, PointerMoved, GetReturns,
              CompareRecovery, EnforceRecovery, EnforceRecord, CasRecordMismatch,
              RemoveReplaced, RemoveOwn
<1>3. ASSUME NEW p \in Requests, Fault(p) PROVE UNCHANGED <<ref, userIndex>>
  BY <1>3 DEF Fault
<1>4. Crash \/ UNCHANGED vars => UNCHANGED <<ref, userIndex>>
  BY DEF Crash, vars
<1> QED
  BY <1>1, <1>2, <1>3, <1>4 DEF Next

(* Stored recovery never changes.                                          *)
LEMMA RecoveryFixed ==
    ASSUME TypeOK, ShapeInv, RecoveryInv, [Next]_vars, NEW a \in Accounts,
           RecoveryRef(a) # None
    PROVE  /\ RecoveryRef(a)' = RecoveryRef(a)
           /\ sealedWallet'[RecoveryRef(a)] = sealedWallet[RecoveryRef(a)]
<1> USE RegistryAssumption
<1>k. Kinds = {"backup", "recovery", "record"}
  BY DEF Kinds
<1>1. RecoveryRef(a)' = RecoveryRef(a)
  <2>1. ASSUME NEW p \in Requests, CasRecovery(p) PROVE RecoveryRef(a)' = RecoveryRef(a)
    <3>1. req[p].acct \in Accounts
      BY <2>1 DEF CasRecovery, ShapeInv, RequestShape
    <3>2. CASE ref[<<req[p].acct, "recovery">>] # None
      BY <2>1, <3>2 DEF CasRecovery, RecoveryRef
    <3>3. CASE ref[<<req[p].acct, "recovery">>] = None
      <4>1. ref' = [ref EXCEPT ![<<req[p].acct, "recovery">>] = req[p].blob]
        BY <2>1, <3>3 DEF CasRecovery
      <4>2. a # req[p].acct
        BY <3>3 DEF RecoveryRef
      <4> QED
        BY <3>1, <4>1, <4>2, <1>k, OtherSlot DEF RecoveryRef
    <3> QED
      BY <3>2, <3>3
  <2>2. ASSUME NEW p \in Requests, CasRecord(p) PROVE RecoveryRef(a)' = RecoveryRef(a)
    <3>1. req[p].acct \in Accounts
      BY <2>2 DEF CasRecord, ShapeInv, RequestShape
    <3>2. \/ UNCHANGED ref
          \/ ref' = [ref EXCEPT ![<<req[p].acct, "record">>] = req[p].blob]
      BY <2>2 DEF CasRecord
    <3>3. CASE ref' = [ref EXCEPT ![<<req[p].acct, "record">>] = req[p].blob]
      BY <3>1, <3>3, <1>k, OtherSlot DEF RecoveryRef
    <3> QED
      BY <3>2, <3>3 DEF RecoveryRef
  <2>3. ASSUME NEW p \in Requests, CasBackup(p) PROVE RecoveryRef(a)' = RecoveryRef(a)
    <3>1. req[p].acct \in Accounts
      BY <2>3 DEF CasBackup, ShapeInv, RequestShape
    <3>2. \/ UNCHANGED ref
          \/ ref' = [ref EXCEPT ![<<req[p].acct, "backup">>] = req[p].blob]
      BY <2>3 DEF CasBackup
    <3>3. CASE ref' = [ref EXCEPT ![<<req[p].acct, "backup">>] = req[p].blob]
      BY <3>1, <3>3, <1>k, OtherSlot DEF RecoveryRef
    <3> QED
      BY <3>2, <3>3 DEF RecoveryRef
  <2> QED
    BY <2>1, <2>2, <2>3, RefSteps DEF RecoveryRef
<1>2. sealedWallet'[RecoveryRef(a)] = sealedWallet[RecoveryRef(a)]
  <2>1. sealedWallet[RecoveryRef(a)] # None /\ RecoveryRef(a) \in SealedBlobs
    BY <1>k DEF RecoveryInv, RecoveryStored, ShapeInv, RecoveryRef, BlobsOf
  <2>2. ASSUME NEW p \in Requests, NEW x \in Accounts, NEW s \in SealedBlobs,
               NEW w \in Wallets, StartPutRecovery(p, x, s, w)
        PROVE  sealedWallet'[RecoveryRef(a)] = sealedWallet[RecoveryRef(a)]
    BY <2>1, <2>2 DEF StartPutRecovery, TypeOK
  <2>3. ASSUME NEW p \in Requests, Start(p)
        PROVE  sealedWallet'[RecoveryRef(a)] = sealedWallet[RecoveryRef(a)]
    BY <2>2, <2>3 DEF Start, StartPutBackup, StartPutRecord, StartGet, StartGetByUser
  <2>4. ASSUME NEW p \in Requests, Step(p) \/ Fault(p) PROVE UNCHANGED sealedWallet
    BY <2>4 DEF Step, PutBlob, ReadRef, LoadPointer, BytesGone, PointerMoved, GetReturns,
       CompareRecovery, CasRecovery, EnforceRecovery, EnforceRecord, CasRecordMismatch,
       CasRecord, CasBackup, RemoveReplaced, RemoveOwn, Fault
  <2> QED
    BY <2>3, <2>4 DEF Next, Crash, vars
<1> QED
  BY <1>1, <1>2

(* A record that belongs to an account's recovery identity does so for     *)
(* good, since put_recovery writes once.                                   *)
LEMMA OwnedStable ==
    ASSUME TypeOK, ShapeInv, RecoveryInv, [Next]_vars, NEW a \in Accounts, NEW r,
           Owned(a, r)
    PROVE  Owned(a, r)'
BY RecoveryFixed DEF Owned

(* What each thread's request becomes.                                     *)
LEMMA Schedule ==
    ASSUME TypeOK, [Next]_vars, NEW q \in Requests
    PROVE  \/ req'[q] = req[q]
           \/ req'[q] = Idle
           \/ Start(q)
           \/ Step(q) \/ Fault(q)
<1>1. ASSUME NEW p \in Requests, Start(p), p # q PROVE req'[q] = req[q]
  <2>1. req' = req \/ \E r : req' = [req EXCEPT ![p] = r]
    BY <1>1 DEF Start, StartPutBackup, StartPutRecovery, StartPutRecord, StartGet,
                StartGetByUser, Begin
  <2> QED
    BY <1>1, <2>1 DEF TypeOK
<1>2. ASSUME NEW p \in Requests, Step(p) \/ Fault(p), p # q PROVE req'[q] = req[q]
  <2>1. PICK r : req' = [req EXCEPT ![p] = r]
    BY <1>2, OwnRequest
  <2> QED
    BY <1>2, <2>1 DEF TypeOK
<1> QED
  BY <1>1, <1>2 DEF Next, Crash, vars

(* The moves of a put_record request that goes on, field by field.         *)
Kept(p) == /\ req'[p].acct = req[p].acct /\ req'[p].blob = req[p].blob
           /\ req[p].op = "put_record"
Written(p) ==
    /\ req[p].pc = "put" /\ req'[p].pc = "load_ptr"
    /\ req'[p].kind = "recovery"
    /\ files' = files \cup {<<req[p].acct, req[p].blob>>}
    /\ UNCHANGED ref
Loading(p) ==
    /\ req'[p].kind = req[p].kind
    /\ UNCHANGED <<files, ref>>
    /\ \/ /\ req[p].pc = "load_ptr" /\ req'[p].pc = "load_bytes"
          /\ req'[p].seen = ref[Slot(p)] /\ ref[Slot(p)] # None
       \/ /\ req[p].pc = "load_bytes" /\ req'[p].pc = "recheck"
          /\ req'[p].seen = req[p].seen
          /\ <<req[p].acct, req[p].seen>> \notin files
       \/ req[p].pc = "recheck" /\ req'[p].pc = "load_ptr"
Identified(p) ==
    /\ req[p].kind = "recovery" /\ req[p].pc = "load_bytes"
    /\ req'[p].kind = "record" /\ req'[p].pc = "load_ptr"
    /\ WalletOf[req[p].blob] = sealedWallet[req[p].seen]
    /\ UNCHANGED <<files, ref>>
Accepted(p) ==
    /\ req[p].kind = "record" /\ req[p].pc \in {"load_ptr", "load_bytes"}
    /\ req'[p].kind = "record" /\ req'[p].pc = "cas"
    /\ req'[p].seen = req[p].seen
    /\ req[p].seen # None => ~ Beats(req[p].seen, req[p].blob)
    /\ UNCHANGED <<files, ref>>
Again(p) ==
    /\ req[p].pc = "cas" /\ req'[p].pc = "load_ptr"
    /\ req'[p].kind = "recovery"
    /\ UNCHANGED <<files, ref>>
Swapped(p) ==
    /\ req[p].pc = "cas" /\ req'[p].pc = "remove_replaced"
    /\ req[p].kind = "record" /\ req'[p].kind = "record"
    /\ req'[p].seen = req[p].seen
    /\ req[p].seen \notin {None, req[p].blob}
    /\ ref' = [ref EXCEPT ![<<req[p].acct, "record">>] = req[p].blob]
    /\ UNCHANGED files
Refused(p) ==
    /\ req'[p].pc = "remove_own" /\ req'[p].kind = None
    /\ req[p].pc \in {"load_ptr", "load_bytes", "recheck"}
    /\ UNCHANGED <<files, ref>>
    /\ \/ IoFaults
       \/ LoadFailed(p)
       \/ req[p].kind = "recovery" /\ LoadedNone(p)
       \/ /\ req[p].kind = "recovery" /\ LoadedSome(p)
          /\ WalletOf[req[p].blob] # sealedWallet[req[p].seen]
       \/ /\ req[p].kind = "record" /\ LoadedSome(p)
          /\ Beats(req[p].seen, req[p].blob)

(* A put_record request that goes on makes one of these moves.             *)
LEMMA RecordMoves ==
    ASSUME TypeOK, ShapeInv, NEW p \in Requests, Step(p) \/ Fault(p),
           req'[p].op = "put_record"
    PROVE  /\ Kept(p)
           /\ \/ Written(p) \/ Loading(p) \/ Identified(p) \/ Accepted(p)
              \/ Again(p) \/ Swapped(p) \/ Refused(p)
<1> USE RegistryAssumption
<1> DEFINE Goal == \/ Written(p) \/ Loading(p) \/ Identified(p) \/ Accepted(p)
                   \/ Again(p) \/ Swapped(p) \/ Refused(p)
<1>r. req[p] \in Request /\ RequestShape(req[p]) /\ req \in [Requests -> Request]
  BY DEF TypeOK, ShapeInv
<1>i. Idle.op # "put_record" /\ Idle.pc = "idle"
  BY DEF Idle, Puts
<1>g. \A r : Goto(p, r) => req'[p] = r
  BY <1>r DEF Goto
<1>f. \A answer : ~ Finish(p, answer)
  BY <1>r, <1>i DEF Finish
<1>o. \A answer : RemoveOwnThen(p, answer) =>
         req'[p].pc = "remove_own" /\ req'[p].kind = None
  BY <1>r, <1>g DEF RemoveOwnThen, Request
<1>1. Kept(p)
  <2>1. PICK r : /\ req' = [req EXCEPT ![p] = r]
                 /\ \/ r = Idle
                    \/ /\ r.op = req[p].op
                       /\ r.acct = req[p].acct
                       /\ r.blob = req[p].blob
    BY OwnRequest
  <2>2. req'[p] = r
    BY <2>1, <1>r
  <2> QED
    BY <2>1, <2>2, <1>i DEF Kept
<1>2. req[p].op = "put_record" /\ req[p].pc # "idle"
  BY <1>1, <1>i, <1>r DEF Kept, RequestShape
<1>3. ASSUME Fault(p) PROVE Goal
  <2>1. /\ RemoveOwnThen(p, "fault") /\ IoFaults
        /\ req[p].pc \in {"load_ptr", "load_bytes", "recheck"}
        /\ UNCHANGED <<files, ref>>
    BY <1>3, <1>2, <1>f, FaultFiles DEF Fault
  <2> QED
    BY <2>1, <1>o DEF Refused
<1>4. ASSUME Step(p) PROVE Goal
  <2>1. CASE PutBlob(p)
    <3>1. req'[p] = [req[p] EXCEPT !.pc = "load_ptr", !.kind = "recovery"]
      BY <2>1, <1>2, <1>g DEF PutBlob
    <3> QED
      BY <2>1, <3>1, <1>r DEF PutBlob, Written, Request
  <2>2. CASE LoadPointer(p)
    <3>1. req'[p] = [req[p] EXCEPT !.pc = "load_bytes", !.seen = ref[Slot(p)]]
      BY <2>2, <1>g DEF LoadPointer
    <3> QED
      BY <2>2, <3>1, <1>r DEF LoadPointer, Loading, Request
  <2>3. CASE BytesGone(p)
    <3>1. req'[p] = [req[p] EXCEPT !.pc = "recheck"]
      BY <2>3, <1>g DEF BytesGone
    <3> QED
      BY <2>3, <3>1, <1>r DEF BytesGone, Loading, Request
  <2>4. CASE PointerMoved(p)
    <3>1. req'[p] = [req[p] EXCEPT !.pc = "load_ptr", !.seen = None]
      BY <2>4, <1>g DEF PointerMoved
    <3> QED
      BY <2>4, <3>1, <1>r DEF PointerMoved, Loading, Request
  <2>5. CASE EnforceRecovery(p)
    <3> DEFINE r == [req[p] EXCEPT !.pc = "load_ptr", !.kind = "record", !.seen = None]
    <3>0. UNCHANGED <<files, ref>> /\ req[p].kind = "recovery"
      BY <2>5 DEF EnforceRecovery
    <3>1. \/ LoadedNone(p) /\ RemoveOwnThen(p, "conflict")
          \/ LoadFailed(p) /\ RemoveOwnThen(p, "missing")
          \/ /\ LoadedSome(p) /\ WalletOf[req[p].blob] = sealedWallet[req[p].seen]
             /\ Goto(p, r)
          \/ /\ LoadedSome(p) /\ WalletOf[req[p].blob] # sealedWallet[req[p].seen]
             /\ RemoveOwnThen(p, "conflict")
      BY <2>5 DEF EnforceRecovery, Loaded
    <3>2. CASE /\ LoadedSome(p) /\ WalletOf[req[p].blob] = sealedWallet[req[p].seen]
               /\ Goto(p, r)
      <4>1. req'[p] = r
        BY <3>2, <1>g
      <4> QED
        BY <3>0, <3>2, <4>1, <1>r DEF Identified, LoadedSome, Request
    <3> QED
      BY <3>0, <3>1, <3>2, <1>o DEF Refused, LoadedNone, LoadedSome, LoadFailed
  <2>6. CASE EnforceRecord(p)
    <3> DEFINE r == [req[p] EXCEPT !.pc = "cas"]
    <3>0. UNCHANGED <<files, ref>> /\ req[p].kind = "record"
      BY <2>6 DEF EnforceRecord
    <3>1. \/ LoadedNone(p) /\ Goto(p, r)
          \/ LoadFailed(p) /\ RemoveOwnThen(p, "missing")
          \/ /\ LoadedSome(p) /\ ~ Beats(req[p].seen, req[p].blob) /\ Goto(p, r)
          \/ /\ LoadedSome(p) /\ Beats(req[p].seen, req[p].blob)
             /\ RemoveOwnThen(p, "conflict")
      BY <2>6 DEF EnforceRecord, Loaded
    <3>2. CASE Goto(p, r) /\ (LoadedNone(p) \/
                  (LoadedSome(p) /\ ~ Beats(req[p].seen, req[p].blob)))
      <4>1. req'[p] = r
        BY <3>2, <1>g
      <4>2. LoadedNone(p) => req[p].seen = None
        BY <1>r DEF LoadedNone, RequestShape
      <4>3. r.pc = "cas" /\ r.kind = req[p].kind /\ r.seen = req[p].seen
        BY <1>r DEF Request
      <4> QED
        BY <3>0, <3>2, <4>1, <4>2, <4>3 DEF Accepted, LoadedSome, LoadedNone
    <3> QED
      BY <3>0, <3>1, <3>2, <1>o DEF Refused, LoadedNone, LoadedSome, LoadFailed
  <2>7. CASE CasRecordMismatch(p)
    <3>1. req'[p] = [req[p] EXCEPT !.pc = "load_ptr", !.kind = "recovery", !.seen = None]
      BY <2>7, <1>g DEF CasRecordMismatch
    <3> QED
      BY <2>7, <3>1, <1>r DEF CasRecordMismatch, Again, Request
  <2>8. CASE CasRecord(p)
    <3> DEFINE r == [req[p] EXCEPT !.pc = "remove_replaced"]
    <3>1. /\ Goto(p, r) /\ req[p].pc = "cas"
          /\ req[p].seen \notin {None, req[p].blob}
          /\ ref' = [ref EXCEPT ![<<req[p].acct, "record">>] = req[p].blob]
          /\ UNCHANGED files
      BY <2>8, <1>f DEF CasRecord
    <3>2. req'[p] = r /\ r.pc = "remove_replaced" /\ r.kind = req[p].kind
          /\ r.seen = req[p].seen
      BY <3>1, <1>g, <1>r DEF Request
    <3>3. req[p].kind = "record"
      BY <3>1, <1>2, <1>r DEF RequestShape
    <3> QED
      BY <3>1, <3>2, <3>3 DEF Swapped
  <2>9. CASE RemoveReplaced(p) \/ RemoveOwn(p)
    BY <2>9, <1>f DEF RemoveReplaced, RemoveOwn
  <2> QED
    BY <1>2, <1>4, <1>r, <2>1, <2>2, <2>3, <2>4, <2>5, <2>6, <2>7, <2>8, <2>9
    DEF Step, GetReturns, CompareRecovery, CasRecovery, CasBackup, ReadRef, RequestShape,
        Gets
<1> QED
  BY <1>1, <1>3, <1>4

(* A put_record request begins without having looked at anything.          *)
LEMMA RecordBegins ==
    ASSUME TypeOK, NEW p \in Requests, Start(p), req'[p].op = "put_record"
    PROVE  \/ req'[p] = req[p]
           \/ /\ req'[p].pc = "put" /\ req'[p].kind = None
              /\ req'[p].acct \in Accounts
              /\ RecoveryFirst => RecoveryRef(req'[p].acct) # None
<1>r. req \in [Requests -> Request]
  BY DEF TypeOK
<1>b. \A r : Begin(p, r) => req'[p] = r
  BY <1>r DEF Begin
<1>1. ASSUME NEW a \in Accounts, NEW r \in Records, StartPutRecord(p, a, r)
      PROVE  /\ req'[p].pc = "put" /\ req'[p].kind = None
             /\ req'[p].acct \in Accounts
             /\ RecoveryFirst => RecoveryRef(req'[p].acct) # None
  <2>1. req'[p] = [Idle EXCEPT !.op = "put_record", !.pc = "put",
                               !.acct = a, !.blob = r]
    BY <1>1, <1>b DEF StartPutRecord
  <2>2. req'[p].pc = "put" /\ req'[p].kind = None /\ req'[p].acct = a
    BY <2>1 DEF Idle
  <2> QED
    BY <1>1, <2>2 DEF StartPutRecord, RecoveryRef
<1>2. ASSUME NEW a \in Accounts, NEW b \in Backups, StartPutBackup(p, a, b)
      PROVE  FALSE
  <2>1. req'[p] = [Idle EXCEPT !.op = "put_backup", !.pc = "put",
                               !.acct = a, !.blob = b]
    BY <1>2, <1>b DEF StartPutBackup
  <2> QED
    BY <2>1 DEF Idle
<1>3. ASSUME NEW a \in Accounts, NEW s \in SealedBlobs, NEW w \in Wallets,
             StartPutRecovery(p, a, s, w)
      PROVE  FALSE
  <2>1. req'[p] = [Idle EXCEPT !.op = "put_recovery", !.pc = "put",
                               !.acct = a, !.blob = s]
    BY <1>3, <1>b DEF StartPutRecovery
  <2> QED
    BY <2>1 DEF Idle
<1>4. ASSUME NEW a \in Accounts, NEW kind \in Kinds, StartGet(p, a, kind)
      PROVE  FALSE
  <2>1. req'[p] = [Idle EXCEPT !.op = GetOf(kind), !.pc = "load_ptr",
                               !.acct = a, !.kind = kind]
    BY <1>4, <1>b DEF StartGet
  <2>2. req'[p].op = GetOf(kind)
    BY <2>1 DEF Idle
  <2> QED
    BY <2>2 DEF GetOf, Kinds
<1>5. ASSUME NEW w \in Wallets, StartGetByUser(p, w)
      PROVE  req'[p] = req[p]
  <2>1. CASE userIndex[w] = None
    BY <1>5, <2>1 DEF StartGetByUser
  <2>2. CASE userIndex[w] # None
    <3>1. req'[p] = [Idle EXCEPT !.op = "get_record", !.pc = "load_ptr",
                                 !.acct = userIndex[w], !.kind = "record"]
      BY <1>5, <2>2, <1>b DEF StartGetByUser
    <3> QED
      BY <3>1 DEF Idle
  <2> QED
    BY <2>1, <2>2
<1> QED
  BY <1>1, <1>2, <1>3, <1>4, <1>5 DEF Start

(* A record pointer changes only in the swap of a put_record request.      *)
LEMMA RecordSwap ==
    ASSUME TypeOK, ShapeInv, [Next]_vars, NEW a \in Accounts
    PROVE  \/ RecordRef(a)' = RecordRef(a)
           \/ \E p \in Requests :
                 /\ CasRecord(p)
                 /\ req[p].acct = a /\ req[p].kind = "record"
                 /\ req[p].blob \in Records
                 /\ RecordRef(a) = req[p].seen
                 /\ RecordRef(a)' = req[p].blob
<1>k. Kinds = {"backup", "recovery", "record"}
  BY DEF Kinds
<1>1. ASSUME NEW p \in Requests, CasRecovery(p) PROVE RecordRef(a)' = RecordRef(a)
  <2>1. req[p].acct \in Accounts
    BY <1>1 DEF CasRecovery, ShapeInv, RequestShape
  <2>2. \/ UNCHANGED ref
        \/ ref' = [ref EXCEPT ![<<req[p].acct, "recovery">>] = req[p].blob]
    BY <1>1 DEF CasRecovery
  <2>3. CASE ref' = [ref EXCEPT ![<<req[p].acct, "recovery">>] = req[p].blob]
    BY <2>1, <2>3, <1>k, OtherSlot DEF RecordRef
  <2> QED
    BY <2>2, <2>3 DEF RecordRef
<1>2. ASSUME NEW p \in Requests, CasBackup(p) PROVE RecordRef(a)' = RecordRef(a)
  <2>1. req[p].acct \in Accounts
    BY <1>2 DEF CasBackup, ShapeInv, RequestShape
  <2>2. \/ UNCHANGED ref
        \/ ref' = [ref EXCEPT ![<<req[p].acct, "backup">>] = req[p].blob]
    BY <1>2 DEF CasBackup
  <2>3. CASE ref' = [ref EXCEPT ![<<req[p].acct, "backup">>] = req[p].blob]
    BY <2>1, <2>3, <1>k, OtherSlot DEF RecordRef
  <2> QED
    BY <2>2, <2>3 DEF RecordRef
<1>3. ASSUME NEW p \in Requests, CasRecord(p), RecordRef(a)' # RecordRef(a)
      PROVE  /\ req[p].acct = a /\ req[p].kind = "record"
             /\ req[p].blob \in Records
             /\ RecordRef(a) = req[p].seen
             /\ RecordRef(a)' = req[p].blob
  <2>1. /\ req[p].acct \in Accounts /\ req[p].kind = "record"
        /\ req[p].blob \in Records
    BY <1>3 DEF CasRecord, ShapeInv, RequestShape
  <2>2. /\ ref' = [ref EXCEPT ![<<req[p].acct, "record">>] = req[p].blob]
        /\ ref[<<req[p].acct, "record">>] = req[p].seen
    BY <1>3 DEF CasRecord, RecordRef
  <2>3. ref'[<<a, "record">>] =
           IF a = req[p].acct THEN req[p].blob ELSE ref[<<a, "record">>]
    <3>1. "record" \in Kinds
      BY <1>k
    <3>2. \A x \in Accounts, kind \in Kinds : ref'[<<x, kind>>] =
             IF x = req[p].acct /\ kind = "record" THEN req[p].blob ELSE ref[<<x, kind>>]
      BY <2>1, <2>2, <3>1 DEF TypeOK, Slots
    <3> QED
      BY <3>1, <3>2
  <2> QED
    BY <1>3, <2>1, <2>2, <2>3 DEF RecordRef
<1> QED
  BY <1>1, <1>2, <1>3, RefSteps DEF RecordRef

(* Ownership and the freshness check survive every step.                   *)
LEMMA OwnerStep ==
    TypeOK /\ ShapeInv /\ SealInv /\ RecoveryInv /\ OwnerInv /\ [Next]_vars => OwnerInv'
<1> SUFFICES ASSUME TypeOK, ShapeInv, SealInv, RecoveryInv, OwnerInv, [Next]_vars
             PROVE  OwnerInv'
  OBVIOUS
<1> USE RegistryAssumption
<1>1. ASSUME NEW a \in Accounts, RecordRef(a)' # None
      PROVE  Owned(a, RecordRef(a))'
  <2>1. CASE RecordRef(a)' = RecordRef(a)
    <3>1. Owned(a, RecordRef(a))
      BY <1>1, <2>1 DEF OwnerInv
    <3>2. (RecoveryRef(a) # None)' /\ sealedWallet'[RecoveryRef(a)'] = sealedWallet[RecoveryRef(a)]
      BY <3>1, RecoveryFixed DEF Owned
    <3> QED
      BY <2>1, <3>1, <3>2 DEF Owned
  <2>2. ASSUME NEW p \in Requests, CasRecord(p), req[p].acct = a,
               req[p].kind = "record", RecordRef(a)' = req[p].blob
        PROVE  Owned(a, RecordRef(a))'
    <3>1. Owned(a, req[p].blob)
      BY <2>2 DEF OwnerInv, CasRecord
    <3>2. (RecoveryRef(a) # None)' /\ sealedWallet'[RecoveryRef(a)'] = sealedWallet[RecoveryRef(a)]
      BY <3>1, RecoveryFixed DEF Owned
    <3> QED
      BY <2>2, <3>1, <3>2 DEF Owned
  <2> QED
    BY <2>1, <2>2, RecordSwap
<1>2. ASSUME NEW q \in Requests, (req[q].op = "put_record")'
      PROVE  /\ (req[q].kind = "record")' => Owned(req[q].acct, req[q].blob)'
             /\ (req[q].pc = "cas" /\ req[q].seen # None)' =>
                   ~ Beats(req'[q].seen, req'[q].blob)
  <2> DEFINE Mine == /\ req'[q].kind = "record" => Owned(req'[q].acct, req'[q].blob)
                     /\ req'[q].pc = "cas" /\ req'[q].seen # None =>
                           ~ Beats(req'[q].seen, req'[q].blob)
  <2>i. Idle.op # "put_record" /\ Idle.pc = "idle"
    BY DEF Idle, Puts
  <2>1. ASSUME req'[q] = req[q] PROVE Mine
    BY <1>2, <2>1 DEF OwnerInv
  <2>2. ASSUME Start(q) PROVE Mine
    BY <1>2, <2>1, <2>2, RecordBegins DEF Kinds
  <2>3. ASSUME Step(q) \/ Fault(q) PROVE Mine
    <3>1. /\ Kept(q)
          /\ \/ Written(q) \/ Loading(q) \/ Identified(q) \/ Accepted(q)
             \/ Again(q) \/ Swapped(q) \/ Refused(q)
      BY <1>2, <2>3, RecordMoves
    <3>2. CASE Identified(q)
      <4>1. req[q].seen = RecoveryRef(req[q].acct) /\ req[q].seen \in SealedBlobs
        BY <3>2 DEF Identified, RecoveryInv, RecoveryRead, ShapeInv, RequestShape, BlobsOf
      <4>2. req[q].seen # None
        BY <4>1 DEF Blobs
      <4> QED
        BY <3>1, <3>2, <4>1, <4>2 DEF Identified, Kept, Owned
    <3>3. CASE Written(q) \/ Again(q) \/ Refused(q)
      BY <3>3 DEF Written, Again, Refused, Kinds
    <3>4. CASE Loading(q)
      BY <3>1, <3>4 DEF Loading, OwnerInv, Kept
    <3>5. CASE Accepted(q)
      BY <3>1, <3>5 DEF Accepted, OwnerInv, Kept
    <3>6. CASE Swapped(q)
      BY <3>1, <3>6 DEF Swapped, OwnerInv, Kept
    <3> QED
      BY <3>1, <3>2, <3>3, <3>4, <3>5, <3>6
  <2>4. Mine
    BY <1>2, <2>1, <2>2, <2>3, <2>i, Schedule
  <2>5. req'[q].kind = "record" => req'[q].acct \in Accounts
    <3>1. req'[q].kind = "record" => Owned(req'[q].acct, req'[q].blob)
      BY <2>4
    <3> QED
      BY <1>2, <2>i, ShapeStep DEF ShapeInv, RequestShape
  <2>6. req'[q].kind = "record" => Owned(req[q].acct, req[q].blob)'
    BY <2>4, <2>5, RecoveryFixed DEF Owned
  <2> QED
    BY <2>4, <2>6
<1> QED
  BY <1>1, <1>2 DEF OwnerInv

(* One transaction moves the record pointer and the user index together.   *)
LEMMA UserIndexStep ==
    TypeOK /\ ShapeInv /\ OwnerInv /\ UserIndexAgrees /\ [Next]_vars
       => UserIndexAgrees'
<1> SUFFICES ASSUME TypeOK, ShapeInv, OwnerInv, UserIndexAgrees, [Next]_vars
             PROVE  UserIndexAgrees'
  OBVIOUS
<1> USE RegistryAssumption
<1>1. CASE /\ UNCHANGED userIndex
           /\ \A a \in Accounts : RecordRef(a)' = RecordRef(a)
  BY <1>1 DEF UserIndexAgrees
<1>2. ASSUME NEW p \in Requests, CasRecord(p) PROVE UserIndexAgrees'
  <2> DEFINE a == req[p].acct
             b == req[p].blob
             w == WalletOf[b]
  <2>1. /\ a \in Accounts /\ b \in Records /\ req[p].kind = "record"
        /\ req[p].op = "put_record"
    BY <1>2 DEF CasRecord, ShapeInv, RequestShape
  <2>2. CASE userIndex[w] \notin {None, a}
    <3>1. UNCHANGED <<ref, userIndex>>
      BY <1>2, <2>2 DEF CasRecord
    <3> QED
      BY <1>1, <3>1 DEF RecordRef
  <2>3. CASE userIndex[w] \in {None, a}
    <3>1. /\ ref' = [ref EXCEPT ![<<a, "record">>] = b]
          /\ userIndex' = Rebound(a, w, req[p].seen)
          /\ RecordRef(a) = req[p].seen
      BY <1>2, <2>3 DEF CasRecord, RecordRef
    <3>2. \A x \in Accounts : RecordRef(x)' = IF x = a THEN b ELSE RecordRef(x)
      BY <2>1, <3>1 DEF TypeOK, Slots, RecordRef, Kinds
    <3>3. RecordRef(a) # None => WalletOf[RecordRef(a)] = w
      BY <2>1 DEF OwnerInv, Owned
    <3>4. \A u \in Wallets : userIndex'[u] = IF u = w THEN a ELSE userIndex[u]
      BY <3>1, <3>3 DEF Rebound
    <3>5. w \in Wallets /\ b # None /\ \A x \in Accounts : x # None
      BY <2>1 DEF Blobs
    <3> HIDE DEF a, b, w
    <3> SUFFICES ASSUME NEW u \in Wallets, NEW x \in Accounts
                 PROVE  (userIndex'[u] = x) <=>
                           RecordRef(x)' # None /\ WalletOf[RecordRef(x)'] = u
      BY DEF UserIndexAgrees
    <3>6. CASE u = w
      BY <2>3, <3>2, <3>4, <3>5, <3>6 DEF UserIndexAgrees, w
    <3>7. CASE u # w
      BY <3>2, <3>3, <3>4, <3>5, <3>7, <2>1 DEF UserIndexAgrees, w, a
    <3> QED
      BY <3>6, <3>7
  <2> QED
    BY <2>2, <2>3
<1>3. ASSUME NEW p \in Requests, CasRecovery(p) \/ CasBackup(p) PROVE UserIndexAgrees'
  <2>1. UNCHANGED userIndex
    BY <1>3 DEF CasRecovery, CasBackup
  <2>2. ASSUME NEW a \in Accounts PROVE RecordRef(a)' = RecordRef(a)
    <3>1. req[p].acct \in Accounts
      BY <1>3 DEF CasRecovery, CasBackup, ShapeInv, RequestShape
    <3>2. \E k \in {"recovery", "backup"} :
             UNCHANGED ref \/ ref' = [ref EXCEPT ![<<req[p].acct, k>>] = req[p].blob]
      BY <1>3 DEF CasRecovery, CasBackup
    <3> QED
      BY <3>1, <3>2 DEF TypeOK, Slots, RecordRef, Kinds
  <2> QED
    BY <1>1, <2>1, <2>2
<1> QED
  BY <1>1, <1>2, <1>3, RefSteps DEF RecordRef

(* Of two records, one is older than the other or they are equally fresh.  *)
LEMMA FreshnessTotal ==
    ASSUME NEW c \in Records, NEW r \in Records, c # r, ~ Beats(c, r)
    PROVE  Older(Freshness[c], Freshness[r])
<1>1. Freshness[c] \in Nat \X Nat \X Nat /\ Freshness[r] \in Nat \X Nat \X Nat
  BY RegistryAssumption
<1>2. \A f, g \in Nat \X Nat \X Nat : Older(f, g) \/ Older(g, f) \/ f = g
  BY DEF Older
<1> QED
  BY <1>1, <1>2 DEF Beats

(* A swap replaces a record only by a fresher one of the same owner.       *)
LEMMA AdvanceStep ==
    TypeOK /\ ShapeInv /\ RecoveryInv /\ OwnerInv /\ [Next]_vars => Advance
<1> SUFFICES ASSUME TypeOK, ShapeInv, RecoveryInv, OwnerInv, [Next]_vars,
                    NEW a \in Accounts
             PROVE
       /\ RecordRef(a) # None /\ RecordRef(a)' # RecordRef(a) =>
             /\ RecordRef(a)' \in Records
             /\ Older(Freshness[RecordRef(a)], Freshness[RecordRef(a)'])
             /\ WalletOf[RecordRef(a)'] = WalletOf[RecordRef(a)]
       /\ RecoveryRef(a) # None => RecoveryRef(a)' = RecoveryRef(a)
  BY DEF Advance
<1>1. ASSUME RecordRef(a) # None, RecordRef(a)' # RecordRef(a)
      PROVE  /\ RecordRef(a)' \in Records
             /\ Older(Freshness[RecordRef(a)], Freshness[RecordRef(a)'])
             /\ WalletOf[RecordRef(a)'] = WalletOf[RecordRef(a)]
  <2>1. PICK p \in Requests :
                 /\ CasRecord(p)
                 /\ req[p].acct = a /\ req[p].kind = "record"
                 /\ req[p].blob \in Records
                 /\ RecordRef(a) = req[p].seen
                 /\ RecordRef(a)' = req[p].blob
    BY <1>1, RecordSwap
  <2>2. req[p].op = "put_record" /\ req[p].pc = "cas"
    BY <2>1 DEF CasRecord
  <2>3. RecordRef(a) \in Records
    BY <1>1, <2>1, <2>2 DEF ShapeInv, RequestShape
  <2>4. ~ Beats(RecordRef(a), req[p].blob) /\ Owned(a, req[p].blob)
        /\ Owned(a, RecordRef(a))
    BY <1>1, <2>1, <2>2 DEF OwnerInv
  <2>5. Older(Freshness[RecordRef(a)], Freshness[req[p].blob])
    BY <1>1, <2>1, <2>3, <2>4, FreshnessTotal
  <2> QED
    BY <2>1, <2>4, <2>5 DEF Owned
<1> QED
  BY <1>1, RecoveryFixed

(* Everything holds when the server starts empty.                          *)
LEMMA BaseInit == Init => BaseInv
<1> SUFFICES ASSUME Init PROVE BaseInv
  OBVIOUS
<1> USE RegistryAssumption
<1>r. \A p \in Requests : req[p] = Idle
  BY DEF Init
<1>i. Idle.op = None /\ Idle.pc = "idle" /\ Idle.kind = None
  BY DEF Idle
<1>f. \A a \in Accounts, k \in Kinds : ref[<<a, k>>] = None
  BY DEF Init, Slots
<1>1. TypeOK
  BY IdleShape DEF Init, TypeOK, Replies
<1>2. ShapeInv
  BY <1>r, <1>f, IdleShape DEF ShapeInv
<1>3. SealInv
  BY <1>r, <1>i DEF SealInv, Puts
<1>4. RecoveryInv
  BY <1>r, <1>i, <1>f DEF RecoveryInv, RecoveryStored, RecoveryPrivate, RecoveryRead,
                          RecoveryRef, Puts, Kinds
<1>5. OwnerInv
  BY <1>r, <1>i, <1>f DEF OwnerInv, RecordRef, Puts, Kinds
<1>6. UserIndexAgrees
  BY <1>f DEF Init, UserIndexAgrees, RecordRef, Kinds
<1> QED
  BY <1>1, <1>2, <1>3, <1>4, <1>5, <1>6 DEF BaseInv

(* BaseInv is preserved by every step of every request, a failing store    *)
(* call and a crash included.                                              *)
LEMMA BaseStep == BaseInv /\ [Next]_vars => BaseInv'
BY ShapeStep, SealStep, RecoveryStep, OwnerStep, UserIndexStep DEF BaseInv

(* The inductive invariant holds in every reachable state.                 *)
THEOREM BaseInvariant == Spec => []BaseInv
<1> QED
  BY BaseInit, BaseStep, PTL DEF Spec

(* The variables keep their types: every pointer, file and request of the  *)
(* registry is well-formed in every reachable state.                       *)
THEOREM TypeCorrect == Spec => []TypeOK
<1>1. BaseInv => TypeOK
  BY DEF BaseInv
<1> QED
  BY <1>1, BaseInvariant, PTL

(* The bytes behind an account's recovery pointer are always on disk:      *)
(* put_recovery's removals of repeated or refused blobs never hit the      *)
(* stored one, whatever crashes or fails.                                  *)
THEOREM RecoveryNeverLost == Spec => []RecoveryPresent
<1>1. BaseInv => RecoveryPresent
  BY DEF BaseInv, RecoveryInv, RecoveryStored, RecoveryPresent
<1> QED
  BY <1>1, BaseInvariant, PTL

(* compare_and_swap_public_record_ref keeps the user index and the record  *)
(* pointers in agreement, so a user id resolves to the one account that    *)
(* publishes for its wallet.                                               *)
THEOREM IndexAgrees == Spec => []UserIndexAgrees
<1>1. BaseInv => UserIndexAgrees
  BY DEF BaseInv
<1> QED
  BY <1>1, BaseInvariant, PTL

(* A record pointer moves only to a strictly fresher record of the same    *)
(* wallet and stored recovery never changes, however PUTs interleave.      *)
THEOREM RecordsAdvance == Spec => PointersAdvance
<1>1. BaseInv /\ [Next]_vars => [Advance]_vars
  BY AdvanceStep DEF BaseInv
<1> QED
  BY <1>1, BaseInvariant, PTL DEF Spec, PointersAdvance

-----------------------------------------------------------------------------
(* The record slot, when clients store recovery first and no store call    *)
(* fails.                                                                  *)

(* Older is a strict order.                                                *)
LEMMA OlderOrder ==
    /\ \A r \in Records : ~ Older(Freshness[r], Freshness[r])
    /\ \A c, r, x \in Records :
          Older(Freshness[c], Freshness[r]) /\ Older(Freshness[r], Freshness[x])
             => Older(Freshness[c], Freshness[x])
<1>1. \A r \in Records : Freshness[r] \in Nat \X Nat \X Nat
  BY RegistryAssumption
<1>2. \A f \in Nat \X Nat \X Nat : ~ Older(f, f)
  BY DEF Older
<1>3. \A f, g, h \in Nat \X Nat \X Nat : Older(f, g) /\ Older(g, h) => Older(f, h)
  BY DEF Older
<1> QED
  BY <1>1, <1>2, <1>3

(* A record fresher than one that beats r beats r.                         *)
LEMMA BeatsOrder ==
    /\ \A r \in Records : ~ Beats(r, r)
    /\ \A c, r, x \in Records :
          Beats(c, r) /\ Older(Freshness[c], Freshness[x]) => Beats(x, r)
BY OlderOrder DEF Beats

(* A pointer holds a record, a recovery blob or nothing.                   *)
LEMMA Pointers ==
    ASSUME ShapeInv, NEW a \in Accounts
    PROVE  RecordRef(a) \in Records \cup {None}
BY DEF ShapeInv, RecordRef, Kinds, BlobsOf

(* What is superseded stays so.                                            *)
LEMMA SupersededStable ==
    ASSUME TypeOK, ShapeInv, ShapeInv', RecoveryInv, OwnerInv, [Next]_vars,
           NEW a \in Accounts, NEW r \in Records,
           RecordRef(a) = r \/ Superseded(a, r)
    PROVE  RecordRef(a)' = r \/ Superseded(a, r)'
<1>n. \A x \in Records : x # None
  BY RegistryAssumption DEF Blobs
<1>1. RecordRef(a) \in Records
  BY Pointers DEF Superseded
<1>2. \/ RecordRef(a)' = RecordRef(a)
      \/ /\ RecordRef(a)' \in Records
         /\ Older(Freshness[RecordRef(a)], Freshness[RecordRef(a)'])
  BY <1>1, <1>n, AdvanceStep DEF Advance
<1> QED
  BY <1>1, <1>2, <1>n, OlderOrder DEF Superseded

(* A superseded record never becomes current again.                        *)
LEMMA SupersededForever ==
    ASSUME TypeOK, ShapeInv, ShapeInv', RecoveryInv, OwnerInv, [Next]_vars,
           NEW a \in Accounts, NEW r \in Records, Superseded(a, r)
    PROVE  Superseded(a, r)'
<1>n. \A x \in Records : x # None
  BY RegistryAssumption DEF Blobs
<1>1. RecordRef(a) \in Records
  BY Pointers DEF Superseded
<1>2. \/ RecordRef(a)' = RecordRef(a)
      \/ /\ RecordRef(a)' \in Records
         /\ Older(Freshness[RecordRef(a)], Freshness[RecordRef(a)'])
  BY <1>1, <1>n, AdvanceStep DEF Advance
<1> QED
  BY <1>1, <1>2, <1>n, OlderOrder DEF Superseded

(* A doomed record stays doomed, ...                                       *)
LEMMA DoomedStable ==
    ASSUME TypeOK, ShapeInv, ShapeInv', RecoveryInv, OwnerInv, [Next]_vars,
           NEW a \in Accounts, NEW r \in Records, Doomed(a, r)
    PROVE  Doomed(a, r)'
<1>n. \A x \in Records : x # None
  BY RegistryAssumption DEF Blobs
<1>1. /\ RecoveryRef(a)' # None
      /\ sealedWallet'[RecoveryRef(a)'] = sealedWallet[RecoveryRef(a)]
  BY RecoveryFixed DEF Doomed
<1>2. ASSUME RecordRef(a) # None, Beats(RecordRef(a), r)
      PROVE  RecordRef(a)' # None /\ Beats(RecordRef(a)', r)
  <2>1. RecordRef(a) \in Records
    BY <1>2, Pointers
  <2>2. \/ RecordRef(a)' = RecordRef(a)
        \/ /\ RecordRef(a)' \in Records
           /\ Older(Freshness[RecordRef(a)], Freshness[RecordRef(a)'])
    BY <1>2, AdvanceStep DEF Advance
  <2> QED
    BY <1>2, <1>n, <2>1, <2>2, BeatsOrder
<1>3. CASE WalletOf[r] # sealedWallet[RecoveryRef(a)]
  BY <1>1, <1>3 DEF Doomed
<1>4. CASE RecordRef(a) # None /\ Beats(RecordRef(a), r)
  BY <1>1, <1>2, <1>4 DEF Doomed
<1> QED
  BY <1>3, <1>4 DEF Doomed

(* ... and is not the current one.                                         *)
LEMMA DoomedNotCurrent ==
    ASSUME ShapeInv, OwnerInv, NEW a \in Accounts, NEW r \in Records, Doomed(a, r)
    PROVE  RecordRef(a) # r
<1>n. \A x \in Records : x # None
  BY RegistryAssumption DEF Blobs
<1> QED
  BY <1>n, BeatsOrder DEF Doomed, OwnerInv, Owned

(* Only the file of a doomed record is ever removed.                       *)
LEMMA FilesKept ==
    ASSUME TypeOK, ShapeInv, CleanupInv, ~ IoFaults, [Next]_vars,
           NEW a \in Accounts, NEW r \in Records, <<a, r>> \in files
    PROVE  <<a, r>> \in files' \/ Doomed(a, r)
<1> USE RegistryAssumption
<1>1. ASSUME NEW p \in Requests, RemoveReplaced(p), <<a, r>> \notin files'
      PROVE  Doomed(a, r)
  <2>1. req[p].acct = a /\ req[p].seen = r /\ req[p].pc = "remove_replaced"
    BY <1>1 DEF RemoveReplaced
  <2>2. req[p].op = "put_record"
    BY <2>1 DEF ShapeInv, RequestShape
  <2>3. RecoveryRef(a) # None /\ Superseded(a, r)
    BY <2>1, <2>2 DEF CleanupInv, PutCleanup
  <2> QED
    BY <2>3 DEF Superseded, Doomed, Beats
<1>2. ASSUME NEW p \in Requests, RemoveOwn(p), <<a, r>> \notin files'
      PROVE  Doomed(a, r)
  <2>1. req[p].acct = a /\ req[p].blob = r /\ req[p].pc = "remove_own"
    BY <1>2 DEF RemoveOwn
  <2>2. req[p].op = "put_record"
    BY <2>1 DEF ShapeInv, RequestShape
  <2> QED
    BY <2>1, <2>2 DEF CleanupInv, PutCleanup
<1>3. ASSUME NEW p \in Requests, Start(p) \/ Fault(p) PROVE UNCHANGED files
  BY <1>3 DEF Start, StartPutBackup, StartPutRecovery, StartPutRecord, StartGet,
              StartGetByUser, Fault
<1>4. ASSUME NEW p \in Requests, Step(p), ~ RemoveReplaced(p), ~ RemoveOwn(p)
      PROVE  files \subseteq files'
  BY <1>4 DEF Step, PutBlob, ReadRef, LoadPointer, BytesGone, PointerMoved, GetReturns,
       CompareRecovery, CasRecovery, EnforceRecovery, EnforceRecord, CasRecordMismatch,
       CasRecord, CasBackup
<1> QED
  BY <1>1, <1>2, <1>3, <1>4 DEF Next, Crash, vars

(* A request begins with its put or its first load.                        *)
LEMMA RequestBegins ==
    ASSUME TypeOK, NEW p \in Requests, Start(p)
    PROVE  req'[p] = req[p] \/ req'[p].pc \in {"put", "load_ptr"}
<1>r. req \in [Requests -> Request]
  BY DEF TypeOK
<1>g. \A r : Begin(p, r) => req'[p] = r
  BY <1>r DEF Begin
<1>1. ASSUME NEW a, NEW op, NEW b PROVE
         [Idle EXCEPT !.op = op, !.pc = "put", !.acct = a, !.blob = b].pc = "put"
  BY DEF Idle
<1>2. ASSUME NEW a, NEW op, NEW kind PROVE
         [Idle EXCEPT !.op = op, !.pc = "load_ptr", !.acct = a, !.kind = kind].pc
            = "load_ptr"
  BY DEF Idle
<1>3. ASSUME NEW r, Begin(p, r), r.pc \in {"put", "load_ptr"}
      PROVE  req'[p].pc \in {"put", "load_ptr"}
  BY <1>3, <1>g
<1>4. ASSUME NEW a, NEW b, StartPutBackup(p, a, b) PROVE req'[p].pc \in {"put", "load_ptr"}
  BY <1>1, <1>3, <1>4 DEF StartPutBackup
<1>5. ASSUME NEW a, NEW s, NEW w, StartPutRecovery(p, a, s, w)
      PROVE  req'[p].pc \in {"put", "load_ptr"}
  BY <1>1, <1>3, <1>5 DEF StartPutRecovery
<1>6. ASSUME NEW a, NEW r, StartPutRecord(p, a, r) PROVE req'[p].pc \in {"put", "load_ptr"}
  BY <1>1, <1>3, <1>6 DEF StartPutRecord
<1>7. ASSUME NEW a, NEW kind, StartGet(p, a, kind) PROVE req'[p].pc \in {"put", "load_ptr"}
  BY <1>2, <1>3, <1>7 DEF StartGet
<1>8. ASSUME NEW w, StartGetByUser(p, w)
      PROVE  req'[p] = req[p] \/ req'[p].pc \in {"put", "load_ptr"}
  <2> DEFINE r == [Idle EXCEPT !.op = "get_record", !.pc = "load_ptr",
                               !.acct = userIndex[w], !.kind = "record"]
  <2>1. r.pc = "load_ptr"
    BY <1>2
  <2>2. req' = req \/ Begin(p, r)
    BY <1>8 DEF StartGetByUser
  <2> QED
    BY <1>3, <2>1, <2>2
<1> QED
  BY <1>4, <1>5, <1>6, <1>7, <1>8 DEF Start

(* How a request comes to hold a pointer it read from a record slot.       *)
LEMMA RecordReads ==
    ASSUME TypeOK, ShapeInv, NEW p \in Requests, Start(p) \/ Step(p) \/ Fault(p),
           req'[p].kind = "record", req'[p].pc \in {"load_bytes", "recheck"}
    PROVE  \/ req'[p] = req[p]
           \/ /\ req'[p].acct = req[p].acct /\ req[p].kind = "record"
              /\ UNCHANGED <<files, ref>>
              /\ \/ /\ req'[p].pc = "load_bytes"
                    /\ req'[p].seen = RecordRef(req[p].acct)
                 \/ /\ req'[p].pc = "recheck" /\ req[p].pc = "load_bytes"
                    /\ req'[p].seen = req[p].seen
                    /\ <<req[p].acct, req[p].seen>> \notin files
<1> USE RegistryAssumption
<1> DEFINE Quiet == req'[p].pc \notin {"load_bytes", "recheck"}
<1>r. req[p] \in Request /\ req \in [Requests -> Request]
  BY DEF TypeOK
<1>g. \A r : Goto(p, r) \/ Begin(p, r) => req'[p] = r
  BY <1>r DEF Goto, Begin
<1>f. \A answer : Finish(p, answer) => Quiet
  BY <1>r DEF Finish, Idle
<1>o. \A answer : RemoveOwnThen(p, answer) => Quiet
  BY <1>r, <1>g DEF RemoveOwnThen, Request
<1>2. ASSUME Start(p), ~ Quiet PROVE req'[p] = req[p]
  BY <1>2, RequestBegins
<1>3. ASSUME Fault(p) PROVE Quiet
  BY <1>3, <1>f, <1>o DEF Fault
<1>4. CASE LoadPointer(p)
  <2>1. req'[p] = [req[p] EXCEPT !.pc = "load_bytes", !.seen = ref[Slot(p)]]
    BY <1>4, <1>g DEF LoadPointer
  <2>2. /\ req'[p].acct = req[p].acct /\ req'[p].kind = req[p].kind
        /\ req'[p].pc = "load_bytes" /\ req'[p].seen = ref[Slot(p)]
    BY <2>1, <1>r DEF Request
  <2> QED
    BY <1>4, <2>2 DEF LoadPointer, Slot, RecordRef
<1>5. CASE BytesGone(p)
  <2>1. req'[p] = [req[p] EXCEPT !.pc = "recheck"]
    BY <1>5, <1>g DEF BytesGone
  <2>2. /\ req'[p].acct = req[p].acct /\ req'[p].kind = req[p].kind
        /\ req'[p].pc = "recheck" /\ req'[p].seen = req[p].seen
    BY <2>1, <1>r DEF Request
  <2> QED
    BY <1>5, <2>2 DEF BytesGone
<1>6. ASSUME Step(p), ~ LoadPointer(p), ~ BytesGone(p) PROVE Quiet
  <2>r. req[p].pc \in Pcs /\ RequestShape(req[p])
    BY <1>r DEF Request, ShapeInv
  <2>1. ASSUME NEW r, Goto(p, r), r.pc \notin {"load_bytes", "recheck"} PROVE Quiet
    BY <2>1, <1>g
  <2>2. CASE PutBlob(p)
    BY <2>2, <2>1, <1>r DEF PutBlob, Request
  <2>3. CASE ReadRef(p)
    BY <2>3, <2>1, <1>r DEF ReadRef, Request
  <2>4. CASE PointerMoved(p)
    BY <2>4, <2>1, <1>r DEF PointerMoved, Request
  <2>5. CASE CasRecordMismatch(p)
    BY <2>5, <2>1, <1>r DEF CasRecordMismatch, Request
  <2>6. Goto(p, [req[p] EXCEPT !.pc = "cas"]) => Quiet
    BY <2>1, <1>r DEF Request
  <2>7. CASE GetReturns(p) \/ CompareRecovery(p) \/ EnforceRecord(p)
    BY <2>7, <2>6, <1>f, <1>o DEF GetReturns, CompareRecovery, EnforceRecord, Loaded
  <2>8. CASE EnforceRecovery(p)
    <3>1. Goto(p, [req[p] EXCEPT !.pc = "load_ptr", !.kind = "record", !.seen = None])
             => Quiet
      BY <2>1, <1>r DEF Request
    <3> QED
      BY <2>8, <3>1, <1>o DEF EnforceRecovery, Loaded
  <2>9. CASE CasRecovery(p)
    <3>1. Goto(p, [req[p] EXCEPT !.pc = "load_ptr"]) => Quiet
      BY <2>1, <1>r DEF Request
    <3> QED
      BY <2>9, <3>1, <1>f DEF CasRecovery
  <2>10. Goto(p, [req[p] EXCEPT !.pc = "remove_replaced"]) => Quiet
    BY <2>1, <1>r DEF Request
  <2>11. CASE CasRecord(p)
    BY <2>10, <2>11, <1>f DEF CasRecord
  <2>12. CASE CasBackup(p)
    <3>1. Goto(p, [req[p] EXCEPT !.seen = ref[<<req[p].acct, "backup">>]]) => Quiet
      BY <2>1, <2>12, <1>r DEF Request, CasBackup
    <3> QED
      BY <2>10, <2>12, <3>1, <1>f DEF CasBackup
  <2>13. CASE RemoveReplaced(p) \/ RemoveOwn(p)
    BY <2>13, <1>f DEF RemoveReplaced, RemoveOwn
  <2> QED
    BY <1>6, <2>2, <2>3, <2>4, <2>5, <2>7, <2>8, <2>9, <2>11, <2>12, <2>13 DEF Step
<1> QED
  BY <1>2, <1>3, <1>4, <1>5, <1>6

(* The bytes of the current record stay.                                   *)
LEMMA PresentStep ==
    ASSUME TypeOK, ShapeInv, ShapeInv', RecoveryInv, OwnerInv, CleanupInv, ~ IoFaults,
           [Next]_vars
    PROVE  RecordPresent'
<1> SUFFICES ASSUME NEW a \in Accounts, RecordRef(a)' # None
             PROVE  <<a, RecordRef(a)'>> \in files'
  BY DEF RecordPresent
<1>1. CASE RecordRef(a)' = RecordRef(a)
  <2>1. RecordRef(a) \in Records /\ <<a, RecordRef(a)>> \in files
    BY <1>1, Pointers DEF CleanupInv, RecordPresent
  <2>2. ~ Doomed(a, RecordRef(a))
    BY <2>1, DoomedNotCurrent
  <2> QED
    BY <1>1, <2>1, <2>2, FilesKept
<1>2. ASSUME NEW p \in Requests, CasRecord(p), req[p].acct = a,
             req[p].kind = "record", req[p].blob \in Records,
             RecordRef(a) = req[p].seen, RecordRef(a)' = req[p].blob
      PROVE  <<a, RecordRef(a)'>> \in files'
  <2>1. req[p].op = "put_record" /\ req[p].pc = "cas" /\ UNCHANGED files
    BY <1>2 DEF CasRecord
  <2>2. Owned(a, req[p].blob) /\ (req[p].seen # None => ~ Beats(req[p].seen, req[p].blob))
    BY <1>2, <2>1 DEF OwnerInv
  <2>3. ~ Doomed(a, req[p].blob)
    BY <1>2, <2>2 DEF Owned, Doomed
  <2> QED
    BY <1>2, <2>1, <2>3 DEF CleanupInv, PutCleanup
<1> QED
  BY <1>1, <1>2, RecordSwap

(* A refused put_record request was refused for good.                      *)
LEMMA RefusedForGood ==
    ASSUME TypeOK, ShapeInv, RecoveryInv, OwnerInv, CleanupInv, ~ IoFaults,
           NEW p \in Requests, req[p].op = "put_record", Refused(p)
    PROVE  Doomed(req[p].acct, req[p].blob)
<1> DEFINE a == req[p].acct
           b == req[p].blob
<1>n. \A x \in Records : x # None
  BY RegistryAssumption DEF Blobs
<1>s. /\ a \in Accounts /\ b \in Records
      /\ req[p].kind \in {"recovery", "record"}
      /\ req[p].kind = "record" /\ req[p].pc \in {"load_bytes", "recheck"} =>
            req[p].seen \in Records
  BY DEF Refused, ShapeInv, RequestShape, BlobsOf
<1>c. RecoveryRef(a) # None /\ (req[p].kind = "record" => ReadCleanup(p))
  BY DEF CleanupInv, PutCleanup
<1>1. CASE LoadFailed(p)
  <2>1. req[p].kind = "record"
    BY <1>1, <1>s DEF LoadFailed, RecoveryInv, RecoveryRead
  <2>2. RecordRef(a) = req[p].seen /\ Superseded(a, req[p].seen)
    BY <1>1, <1>c, <2>1 DEF LoadFailed, Slot, RecordRef, ReadCleanup
  <2> QED
    BY <1>1, <1>s, <2>1, <2>2, OlderOrder DEF Superseded, LoadFailed
<1>2. CASE req[p].kind = "recovery" /\ LoadedNone(p)
  BY <1>2, <1>c DEF LoadedNone, Slot, RecoveryRef
<1>3. CASE /\ req[p].kind = "recovery" /\ LoadedSome(p)
           /\ WalletOf[b] # sealedWallet[req[p].seen]
  BY <1>3, <1>c DEF LoadedSome, RecoveryInv, RecoveryRead, Doomed
<1>4. CASE /\ req[p].kind = "record" /\ LoadedSome(p)
           /\ Beats(req[p].seen, b)
  <2>1. /\ req[p].seen \in Records
        /\ RecordRef(a) = req[p].seen \/ Superseded(a, req[p].seen)
    BY <1>4, <1>s, <1>c DEF LoadedSome, ReadCleanup
  <2>2. RecordRef(a) \in Records
    BY <1>s, <2>1, Pointers DEF Superseded
  <2>3. Beats(RecordRef(a), b)
    BY <1>4, <1>s, <2>1, <2>2, BeatsOrder DEF Superseded
  <2> QED
    BY <1>c, <1>n, <2>2, <2>3 DEF Doomed
<1> QED
  BY <1>1, <1>2, <1>3, <1>4 DEF Refused

(* What a put_record request relies on survives every step.                *)
LEMMA PutCleanupStep ==
    ASSUME TypeOK, ShapeInv, SealInv, ShapeInv', RecoveryInv, OwnerInv, CleanupInv,
           [Next]_vars, RecoveryFirst, ~ IoFaults,
           NEW q \in Requests, (req[q].op = "put_record")'
    PROVE  PutCleanup(q)'
<1> USE RegistryAssumption
<1>a. PICK a, b, s : a = req'[q].acct /\ b = req'[q].blob /\ s = req'[q].seen
  OBVIOUS
<1> DEFINE Holds == \/ <<a, b>> \in files'
                    \/ Doomed(a, b)'
<1>i. Idle.op # "put_record" /\ Idle.pc = "idle"
  BY DEF Idle, Puts
<1>s. /\ a \in Accounts /\ b \in Records
      /\ req'[q].pc = "remove_replaced" => s \in Records
  BY <1>a, <1>i DEF ShapeInv, RequestShape
<1>n. \A x \in Records : x # None
  BY DEF Blobs
(* The frame: what was there, or doomed, is there or doomed.               *)
<1>f. <<a, b>> \in files \/ Doomed(a, b) => Holds
  <2>1. <<a, b>> \in files => <<a, b>> \in files' \/ Doomed(a, b)
    BY <1>s, FilesKept
  <2>2. Doomed(a, b) => Doomed(a, b)'
    BY <1>s, DoomedStable
  <2> QED
    BY <2>1, <2>2
<1>d. Doomed(a, b) => Doomed(a, b)'
  BY <1>s, DoomedStable
<1>r. RecoveryRef(a) # None => RecoveryRef(a)' # None
  BY <1>s, RecoveryFixed
<1>q. ASSUME RecoveryRef(a) # None,
             req'[q].pc \in {"load_ptr", "load_bytes", "recheck", "cas"} => Holds,
             req'[q].pc = "remove_replaced" => Superseded(a, s)',
             req'[q].pc = "remove_own" => Doomed(a, b)'
      PROVE  PutCleanup(q)'
  BY <1>a, <1>q, <1>r DEF PutCleanup, Holds
<1> HIDE DEF Holds
<1>1. CASE req'[q] = req[q]
  <2>1. PutCleanup(q) /\ req[q].acct = a /\ req[q].blob = b /\ req[q].seen = s
        /\ req[q].pc = req'[q].pc
    BY <1>a, <1>1 DEF CleanupInv
  <2>2. RecoveryRef(a) # None
    BY <2>1 DEF PutCleanup
  <2>3. req'[q].pc \in {"load_ptr", "load_bytes", "recheck", "cas"} => Holds
    BY <2>1, <1>f DEF PutCleanup
  <2>4. req'[q].pc = "remove_replaced" => Superseded(a, s)'
    BY <2>1, <1>s, SupersededForever DEF PutCleanup
  <2>5. req'[q].pc = "remove_own" => Doomed(a, b)'
    BY <2>1, <1>d DEF PutCleanup
  <2> QED
    BY <2>2, <2>3, <2>4, <2>5, <1>q
<1>2. CASE Start(q)
  <2>1. ASSUME req'[q].pc = "put", RecoveryRef(a) # None PROVE PutCleanup(q)'
    BY <2>1, <1>q
  <2> QED
    BY <1>a, <1>1, <1>2, <2>1, RecordBegins
<1>3. CASE Step(q) \/ Fault(q)
  <2>1. /\ Kept(q)
        /\ \/ Written(q) \/ Loading(q) \/ Identified(q) \/ Accepted(q)
           \/ Again(q) \/ Swapped(q) \/ Refused(q)
    BY <1>3, RecordMoves
  <2>2. req[q].acct = a /\ req[q].blob = b /\ req[q].op = "put_record"
    BY <1>a, <2>1 DEF Kept
  <2>3. PutCleanup(q) /\ RecoveryRef(a) # None
    BY <2>2 DEF CleanupInv, PutCleanup
  <2>4. CASE Written(q)
    <3>1. Holds /\ req'[q].pc = "load_ptr"
      BY <2>2, <2>4 DEF Written, Holds
    <3> QED
      BY <3>1, <2>3, <1>q
  <2>5. CASE Loading(q) \/ Identified(q) \/ Accepted(q) \/ Again(q)
    <3>1. /\ req[q].pc \in {"load_ptr", "load_bytes", "recheck", "cas"}
          /\ req'[q].pc \in {"load_ptr", "load_bytes", "recheck", "cas"}
      BY <2>5 DEF Loading, Identified, Accepted, Again
    <3>2. Holds
      BY <2>2, <2>3, <3>1, <1>f DEF PutCleanup
    <3> QED
      BY <2>3, <3>1, <3>2, <1>q
  <2>6. CASE Swapped(q)
    <3>1. /\ req[q].seen = s /\ s \notin {None, b} /\ s \in Records
          /\ req'[q].pc = "remove_replaced"
      BY <1>a, <2>2, <2>6, <1>s DEF Swapped
    <3>2. ~ Beats(s, b)
      BY <2>2, <2>6, <3>1 DEF OwnerInv, Swapped
    <3>3. Older(Freshness[s], Freshness[b])
      BY <3>1, <3>2, <1>s, FreshnessTotal
    <3>4. RecordRef(a)' = b
      BY <2>2, <2>6, <1>s DEF Swapped, RecordRef, TypeOK, Slots, Kinds
    <3>5. Superseded(a, s)'
      BY <3>3, <3>4, <1>s, <1>n DEF Superseded
    <3> QED
      BY <2>3, <3>1, <3>5, <1>q
  <2>7. CASE Refused(q)
    <3>1. Doomed(a, b)
      BY <2>2, <2>7, RefusedForGood
    <3>2. req'[q].pc = "remove_own" /\ Doomed(a, b)'
      BY <2>7, <3>1, <1>d DEF Refused
    <3> QED
      BY <2>3, <3>2, <1>q
  <2> QED
    BY <2>1, <2>4, <2>5, <2>6, <2>7
<1> QED
  BY <1>1, <1>2, <1>3, <1>i, Schedule

(* What a reader relies on survives every step.                            *)
LEMMA ReadCleanupStep ==
    ASSUME TypeOK, ShapeInv, ShapeInv', RecoveryInv, OwnerInv, CleanupInv,
           [Next]_vars, NEW q \in Requests, (req[q].kind = "record")'
    PROVE  ReadCleanup(q)'
<1> USE RegistryAssumption
<1>a. PICK a, s : a = req'[q].acct /\ s = req'[q].seen
  OBVIOUS
<1> DEFINE Reading == req'[q].pc \in {"load_bytes", "recheck"}
<1>i. Idle.kind # "record"
  BY DEF Idle, Kinds
<1>s. Reading => a \in Accounts /\ s \in Records
  BY <1>a DEF ShapeInv, RequestShape, BlobsOf
<1>w. ~ Reading => ReadCleanup(q)'
  BY DEF ReadCleanup
<1>1. ASSUME req'[q] = req[q], Reading PROVE ReadCleanup(q)'
  <2>1. ReadCleanup(q) /\ req[q].acct = a /\ req[q].seen = s /\ req[q].pc = req'[q].pc
    BY <1>a, <1>1 DEF CleanupInv
  <2>2. req'[q].pc = "load_bytes" => RecordRef(a)' = s \/ Superseded(a, s)'
    BY <1>1, <1>s, <2>1, SupersededStable DEF ReadCleanup
  <2>3. req'[q].pc = "recheck" => Superseded(a, s)'
    BY <1>1, <1>s, <2>1, SupersededForever DEF ReadCleanup
  <2> QED
    BY <1>a, <2>2, <2>3 DEF ReadCleanup
<1>2. ASSUME Reading, a = req[q].acct, UNCHANGED <<files, ref>>,
             req'[q].pc = "load_bytes", s = RecordRef(a)
      PROVE  ReadCleanup(q)'
  BY <1>a, <1>2 DEF ReadCleanup, RecordRef
<1>3. ASSUME Reading, a = req[q].acct, UNCHANGED <<files, ref>>,
             req[q].kind = "record", req'[q].pc = "recheck", req[q].pc = "load_bytes",
             s = req[q].seen, <<a, s>> \notin files
      PROVE  ReadCleanup(q)'
  <2>1. RecordRef(a) # s
    BY <1>3, <1>s DEF CleanupInv, RecordPresent, Blobs
  <2>2. Superseded(a, s)
    BY <1>3, <2>1 DEF CleanupInv, ReadCleanup
  <2>3. Superseded(a, s)'
    BY <1>3, <1>s, <2>2, SupersededForever
  <2> QED
    BY <1>a, <1>3, <2>3 DEF ReadCleanup
<1>4. ASSUME Start(q) \/ Step(q) \/ Fault(q), Reading PROVE ReadCleanup(q)'
  BY <1>a, <1>1, <1>2, <1>3, <1>4, RecordReads
<1> QED
  BY <1>1, <1>4, <1>w, <1>i, Schedule

(* The cleanup invariant survives every step.                              *)
LEMMA CleanupStep ==
    ASSUME RecoveryFirst, ~ IoFaults, BaseInv, BaseInv', CleanupInv, [Next]_vars
    PROVE  CleanupInv'
<1>1. TypeOK /\ ShapeInv /\ SealInv /\ ShapeInv' /\ RecoveryInv /\ OwnerInv
  BY DEF BaseInv
<1>2. RecordPresent'
  BY <1>1, PresentStep
<1>3. \A p \in Requests : (req[p].op = "put_record")' => PutCleanup(p)'
  BY <1>1, PutCleanupStep
<1>4. \A p \in Requests : (req[p].kind = "record")' => ReadCleanup(p)'
  BY <1>1, ReadCleanupStep
<1> QED
  BY <1>2, <1>3, <1>4 DEF CleanupInv

(* Only blobs that can never become current again are removed, in every    *)
(* reachable state of a registry whose clients store recovery first and    *)
(* whose store calls do not fail.                                          *)
THEOREM CleanupInvariant ==
    ASSUME RecoveryFirst, ~ IoFaults
    PROVE  Spec => []CleanupInv
<1>1. Init => CleanupInv
  <2> SUFFICES ASSUME Init PROVE CleanupInv
    OBVIOUS
  <2>1. \A a \in Accounts : RecordRef(a) = None
    BY DEF Init, RecordRef, Slots, Kinds
  <2>2. \A p \in Requests : req[p].op = None /\ req[p].kind = None
    BY DEF Init, Idle
  <2> QED
    BY <2>1, <2>2, RegistryAssumption DEF CleanupInv, RecordPresent, Puts, Kinds
<1>2. BaseInv /\ BaseInv' /\ CleanupInv /\ [Next]_vars => CleanupInv'
  BY CleanupStep
<1> QED
  BY <1>1, <1>2, BaseInvariant, PTL DEF Spec

(* The bytes behind an account's record pointer are always on disk: the    *)
(* cleanup of put_public_record removes only records that can never become *)
(* current again.                                                          *)
THEOREM RecordNeverLost ==
    ASSUME RecoveryFirst, ~ IoFaults
    PROVE  Spec => []RecordPresent
<1>1. CleanupInv => RecordPresent
  BY DEF CleanupInv
<1> QED
  BY <1>1, CleanupInvariant, PTL

-----------------------------------------------------------------------------
(* Nothing that was answered 200 is undone, whatever fails.                *)

(* A sealed blob keeps what is inside it.                                  *)
LEMMA SealFixed ==
    ASSUME TypeOK, [Next]_vars, NEW s \in SealedBlobs, sealedWallet[s] # None
    PROVE  sealedWallet'[s] = sealedWallet[s]
<1>1. ASSUME NEW p \in Requests, NEW x \in Accounts, NEW t \in SealedBlobs,
             NEW w \in Wallets, StartPutRecovery(p, x, t, w)
      PROVE  sealedWallet'[s] = sealedWallet[s]
  BY <1>1 DEF StartPutRecovery, TypeOK
<1>2. ASSUME NEW p \in Requests, Start(p) PROVE sealedWallet'[s] = sealedWallet[s]
  BY <1>1, <1>2 DEF Start, StartPutBackup, StartPutRecord, StartGet, StartGetByUser
<1>3. ASSUME NEW p \in Requests, Step(p) \/ Fault(p) PROVE UNCHANGED sealedWallet
  BY <1>3 DEF Step, PutBlob, ReadRef, LoadPointer, BytesGone, PointerMoved, GetReturns,
     CompareRecovery, CasRecovery, EnforceRecovery, EnforceRecord, CasRecordMismatch,
     CasRecord, CasBackup, RemoveReplaced, RemoveOwn, Fault
<1> QED
  BY <1>2, <1>3 DEF Next, Crash, vars

(* The steps that answer a PUT with 200, and what they then know.          *)
RecoveryAnswered(p) ==
    /\ acked' = acked \cup {<<req[p].acct, sealedWallet[req[p].blob]>>}
    /\ req[p].op = "put_recovery"
    /\ UNCHANGED sealedWallet
    /\ \/ ref' = [ref EXCEPT ![<<req[p].acct, "recovery">>] = req[p].blob]
       \/ UNCHANGED ref /\ req[p].pc = "remove_own" /\ req[p].answer = "ok"
RecordAnswered(p) ==
    /\ acked' = acked \cup {<<req[p].acct, req[p].blob>>}
    /\ req[p].op = "put_record"
    /\ \/ ref' = [ref EXCEPT ![<<req[p].acct, "record">>] = req[p].blob]
       \/ UNCHANGED ref /\ req[p].pc = "remove_replaced"

(* Every other step leaves the answered PUTs alone.                        *)
LEMMA AckedGrows ==
    ASSUME [Next]_vars
    PROVE  \/ UNCHANGED acked
           \/ \E p \in Requests : /\ req[p].pc # "idle"
                                  /\ RecoveryAnswered(p) \/ RecordAnswered(p)
<1>1. ASSUME NEW p \in Requests, Start(p) PROVE UNCHANGED acked
  BY <1>1 DEF Start, StartPutBackup, StartPutRecovery, StartPutRecord, StartGet,
              StartGetByUser
<1>2. ASSUME NEW p \in Requests, Step(p), acked' # acked
      PROVE  req[p].pc # "idle" /\ (RecoveryAnswered(p) \/ RecordAnswered(p))
  <2>1. CASE CasRecovery(p)
    BY <1>2, <2>1 DEF CasRecovery, Acked, RecoveryAnswered
  <2>2. CASE CasRecord(p)
    BY <1>2, <2>2 DEF CasRecord, Acked, RecordAnswered
  <2>3. CASE RemoveReplaced(p)
    BY <1>2, <2>3 DEF RemoveReplaced, Acked, RecordAnswered
  <2>4. CASE RemoveOwn(p)
    BY <1>2, <2>4 DEF RemoveOwn, Acked, RecoveryAnswered
  <2> QED
    BY <1>2, <2>1, <2>2, <2>3, <2>4
    DEF Step, PutBlob, ReadRef, LoadPointer, BytesGone, PointerMoved, GetReturns,
        CompareRecovery, EnforceRecovery, EnforceRecord, CasRecordMismatch, CasBackup
<1>3. ASSUME NEW p \in Requests, Fault(p), acked' # acked
      PROVE  req[p].pc # "idle" /\ RecordAnswered(p)
  BY <1>3 DEF Fault, Acked, RecordAnswered
<1> QED
  BY <1>1, <1>2, <1>3 DEF Next, Crash, vars

(* A repeated put_recovery is answered 200 only after it found its own     *)
(* secret behind the pointer it read.                                      *)
LEMMA RecoveryMatched ==
    ASSUME TypeOK, ShapeInv, NEW p \in Requests, Step(p) \/ Fault(p),
           req'[p].op = "put_recovery", req'[p].pc = "remove_own", req'[p].answer = "ok"
    PROVE  /\ req'[p].acct = req[p].acct /\ req'[p].blob = req[p].blob
           /\ req[p].op = "put_recovery" /\ req[p].kind = "recovery"
           /\ req[p].pc = "load_bytes"
           /\ sealedWallet[req[p].seen] = sealedWallet[req[p].blob]
           /\ UNCHANGED <<ref, sealedWallet>>
<1> USE RegistryAssumption
<1>r. req[p] \in Request /\ req \in [Requests -> Request] /\ RequestShape(req[p])
  BY DEF TypeOK, ShapeInv
<1>g. \A r : Goto(p, r) => req'[p] = r
  BY <1>r DEF Goto
<1>f. \A answer : ~ Finish(p, answer)
  BY <1>r DEF Finish, Idle
<1>o. ASSUME NEW answer, RemoveOwnThen(p, answer)
      PROVE  /\ answer = "ok" /\ req[p].op = "put_recovery"
             /\ req'[p].acct = req[p].acct /\ req'[p].blob = req[p].blob
  BY <1>o, <1>g, <1>r DEF RemoveOwnThen, Request
<1>n. ASSUME NEW r, Goto(p, r), r.pc # "remove_own" PROVE FALSE
  BY <1>n, <1>g
<1>1. ~ Fault(p)
  BY <1>f, <1>o DEF Fault
<1>c. ~ Goto(p, [req[p] EXCEPT !.pc = "cas"])
  BY <1>n, <1>r DEF Request
<1>2. CompareRecovery(p)
  <2>1. ~ PutBlob(p) /\ ~ ReadRef(p) /\ ~ LoadPointer(p) /\ ~ BytesGone(p)
        /\ ~ PointerMoved(p) /\ ~ CasRecordMismatch(p)
    BY <1>n, <1>r
    DEF PutBlob, ReadRef, LoadPointer, BytesGone, PointerMoved, CasRecordMismatch, Request
  <2>2. ~ GetReturns(p) /\ ~ RemoveReplaced(p) /\ ~ RemoveOwn(p)
    BY <1>f DEF GetReturns, Loaded, RemoveReplaced, RemoveOwn
  <2>3. ~ EnforceRecovery(p)
    BY <1>n, <1>o, <1>r DEF EnforceRecovery, Loaded, Request
  <2>4. ~ EnforceRecord(p)
    BY <1>c, <1>o DEF EnforceRecord, Loaded
  <2>5. ~ CasRecovery(p) /\ ~ CasRecord(p)
    BY <1>n, <1>f, <1>r DEF CasRecovery, CasRecord, Request
  <2>6. ~ CasBackup(p)
    BY <1>n, <1>f, <1>r DEF CasBackup, Request
  <2> QED
    BY <1>1, <2>1, <2>2, <2>3, <2>4, <2>5, <2>6 DEF Step
<1>3. /\ LoadedSome(p)
      /\ sealedWallet[req[p].seen] = sealedWallet[req[p].blob]
      /\ RemoveOwnThen(p, "ok")
  <2>1. ~ RemoveOwnThen(p, "conflict")
    BY <1>o
  <2>2. ~ LoadedNone(p) /\ ~ LoadFailed(p)
    BY <1>2, <1>c, <1>f, <1>r DEF CompareRecovery, LoadedNone, LoadFailed, LoadedSome
  <2> QED
    BY <1>2, <2>1, <2>2, <1>f DEF CompareRecovery, Loaded
<1> QED
  BY <1>2, <1>3, <1>o, <1>r DEF CompareRecovery, LoadedSome, RequestShape

(* What a request will be answered 200 for keeps holding.                  *)
LEMMA PendingStep ==
    ASSUME BaseInv, BaseInv', AckInv, [Next]_vars, NEW q \in Requests
    PROVE  PendingAck(q)'
<1> USE RegistryAssumption
<1>b. TypeOK /\ ShapeInv /\ ShapeInv' /\ SealInv /\ RecoveryInv /\ OwnerInv
  BY DEF BaseInv
<1>a. PICK a, b : a = req'[q].acct /\ b = req'[q].blob
  OBVIOUS
<1>i. Idle.op = None /\ Idle.pc = "idle"
  BY DEF Idle
<1>1. ASSUME req'[q].op = "put_recovery", req'[q].pc = "remove_own",
             req'[q].answer = "ok"
      PROVE  RecoveryRef(a)' # None /\ sealedWallet'[RecoveryRef(a)'] = sealedWallet'[b]
  <2>1. a \in Accounts /\ b \in SealedBlobs
    BY <1>1, <1>a, <1>b DEF ShapeInv, RequestShape
  <2>2. ASSUME req'[q] = req[q]
        PROVE  RecoveryRef(a)' # None /\ sealedWallet'[RecoveryRef(a)'] = sealedWallet'[b]
    <3>1. RecoveryRef(a) # None /\ sealedWallet[RecoveryRef(a)] = sealedWallet[b]
      BY <1>1, <1>a, <2>2 DEF AckInv, PendingAck
    <3>2. sealedWallet[b] # None
      BY <1>1, <1>a, <1>b, <2>2 DEF SealInv
    <3> QED
      BY <2>1, <3>1, <3>2, <1>b, RecoveryFixed, SealFixed
  <2>3. ~ Start(q) \/ req'[q] = req[q]
    BY <1>1, <1>b, RequestBegins
  <2>4. ASSUME Step(q) \/ Fault(q)
        PROVE  RecoveryRef(a)' # None /\ sealedWallet'[RecoveryRef(a)'] = sealedWallet'[b]
    <3>1. /\ a = req[q].acct /\ b = req[q].blob /\ req[q].kind = "recovery"
          /\ req[q].pc = "load_bytes" /\ sealedWallet[req[q].seen] = sealedWallet[b]
          /\ UNCHANGED <<ref, sealedWallet>>
      BY <1>1, <1>a, <1>b, <2>4, RecoveryMatched
    <3>2. req[q].seen = RecoveryRef(a) /\ req[q].seen \in SealedBlobs
      BY <3>1, <1>b DEF RecoveryInv, RecoveryRead, ShapeInv, RequestShape, BlobsOf
    <3>3. RecoveryRef(a) # None
      BY <3>2 DEF Blobs
    <3> QED
      BY <3>1, <3>2, <3>3 DEF RecoveryRef
  <2> QED
    BY <1>1, <1>b, <1>i, <2>2, <2>3, <2>4, Schedule
<1>2. ASSUME req'[q].op = "put_record", req'[q].pc = "remove_replaced"
      PROVE  RecordRef(a)' = b \/ Superseded(a, b)'
  <2>1. a \in Accounts /\ b \in Records
    BY <1>2, <1>a, <1>b DEF ShapeInv, RequestShape
  <2>2. ASSUME req'[q] = req[q] PROVE RecordRef(a)' = b \/ Superseded(a, b)'
    <3>1. RecordRef(a) = b \/ Superseded(a, b)
      BY <1>2, <1>a, <2>2 DEF AckInv, PendingAck
    <3> QED
      BY <2>1, <3>1, <1>b, SupersededStable
  <2>3. ~ Start(q) \/ req'[q] = req[q]
    BY <1>2, <1>b, RecordBegins
  <2>4. ASSUME Step(q) \/ Fault(q) PROVE RecordRef(a)' = b
    <3>1. Kept(q) /\ Swapped(q)
      BY <1>2, <1>b, <2>4, RecordMoves
      DEF Written, Loading, Identified, Accepted, Again, Refused
    <3> QED
      BY <1>a, <1>b, <2>1, <3>1 DEF Kept, Swapped, RecordRef, TypeOK, Slots, Kinds
  <2> QED
    BY <1>2, <1>b, <1>i, <2>2, <2>3, <2>4, Schedule DEF Puts
<1> QED
  BY <1>a, <1>1, <1>2 DEF PendingAck

(* What was answered 200 keeps holding.                                    *)
LEMMA AckedStep ==
    ASSUME BaseInv, BaseInv', AckInv, [Next]_vars
    PROVE  AckedCurrent'
<1> USE RegistryAssumption
<1>b. /\ TypeOK /\ ShapeInv /\ ShapeInv' /\ SealInv /\ RecoveryInv /\ OwnerInv
      /\ RecoveryInv'
  BY DEF BaseInv
<1>n. \A x \in Records \cup SealedBlobs : x # None
  BY DEF Blobs
<1>k. "record" \in Kinds /\ "recovery" \in Kinds
  BY DEF Kinds
(* The frame: a PUT answered before this step.                             *)
<1>1. ASSUME NEW a \in Accounts, NEW w \in Wallets, <<a, w>> \in acked
      PROVE  RecoveryRef(a)' # None /\ sealedWallet'[RecoveryRef(a)'] = w
  <2>1. RecoveryRef(a) # None /\ sealedWallet[RecoveryRef(a)] = w
    BY <1>1 DEF AckInv, AckedCurrent
  <2> QED
    BY <1>b, <2>1, RecoveryFixed
<1>2. ASSUME NEW a \in Accounts, NEW r \in Records, <<a, r>> \in acked
      PROVE  RecordRef(a)' = r \/ Superseded(a, r)'
  <2>1. RecordRef(a) = r \/ Superseded(a, r)
    BY <1>2 DEF AckInv, AckedCurrent, Superseded
  <2> QED
    BY <1>b, <2>1, SupersededStable
(* A PUT answered by this step.                                            *)
<1>3. ASSUME NEW p \in Requests, RecoveryAnswered(p), req[p].pc # "idle",
             NEW a, NEW b, a = req[p].acct, b = req[p].blob
      PROVE  /\ a \in Accounts /\ sealedWallet[b] \in Wallets
             /\ RecoveryRef(a)' # None
             /\ sealedWallet'[RecoveryRef(a)'] = sealedWallet[b]
  <2>1. a \in Accounts /\ b \in SealedBlobs /\ sealedWallet[b] \in Wallets
    BY <1>3, <1>b DEF RecoveryAnswered, ShapeInv, RequestShape, SealInv
  <2>2. CASE ref' = [ref EXCEPT ![<<a, "recovery">>] = b]
    <3>1. RecoveryRef(a)' = b
      BY <1>b, <1>k, <2>1, <2>2 DEF RecoveryRef, TypeOK, Slots
    <3> QED
      BY <2>1, <3>1, <1>3, <1>n DEF RecoveryAnswered
  <2>3. CASE UNCHANGED ref /\ req[p].pc = "remove_own" /\ req[p].answer = "ok"
    <3>1. RecoveryRef(a) # None /\ sealedWallet[RecoveryRef(a)] = sealedWallet[b]
      BY <2>3, <1>3 DEF AckInv, PendingAck, RecoveryAnswered
    <3> QED
      BY <2>1, <2>3, <3>1, <1>3 DEF RecoveryAnswered, RecoveryRef
  <2> QED
    BY <1>3, <2>2, <2>3 DEF RecoveryAnswered
<1>4. ASSUME NEW p \in Requests, RecordAnswered(p), req[p].pc # "idle",
             NEW a, NEW b, a = req[p].acct, b = req[p].blob
      PROVE  /\ a \in Accounts /\ b \in Records
             /\ RecordRef(a)' = b \/ Superseded(a, b)'
  <2>1. a \in Accounts /\ b \in Records
    BY <1>4, <1>b DEF RecordAnswered, ShapeInv, RequestShape
  <2>2. CASE ref' = [ref EXCEPT ![<<a, "record">>] = b]
    <3>1. RecordRef(a)' = b
      BY <1>b, <1>k, <2>1, <2>2 DEF RecordRef, TypeOK, Slots
    <3> QED
      BY <2>1, <3>1
  <2>3. CASE UNCHANGED ref /\ req[p].pc = "remove_replaced"
    <3>1. RecordRef(a) = b \/ Superseded(a, b)
      BY <2>3, <1>4 DEF AckInv, PendingAck, RecordAnswered
    <3>2. RecordRef(a)' = b \/ Superseded(a, b)'
      BY <1>b, <2>1, <3>1, SupersededStable
    <3> QED
      BY <2>1, <3>2
  <2> QED
    BY <1>4, <2>2, <2>3 DEF RecordAnswered
<1>5. ASSUME NEW a \in Accounts, NEW w \in Wallets, <<a, w>> \in acked'
      PROVE  RecoveryRef(a)' # None /\ sealedWallet'[RecoveryRef(a)'] = w
  <2>1. ASSUME NEW p \in Requests, RecordAnswered(p), req[p].pc # "idle"
        PROVE  <<a, w>> \in acked
    <3>1. req[p].blob # w
      BY <1>4, <2>1
    <3> QED
      BY <1>5, <2>1, <3>1 DEF RecordAnswered
  <2>2. ASSUME NEW p \in Requests, RecoveryAnswered(p), req[p].pc # "idle"
        PROVE  \/ <<a, w>> \in acked
               \/ a = req[p].acct /\ w = sealedWallet[req[p].blob]
    BY <1>5, <2>2 DEF RecoveryAnswered
  <2> QED
    BY <1>1, <1>3, <1>5, <2>1, <2>2, AckedGrows
<1>6. ASSUME NEW a \in Accounts, NEW r \in Records, <<a, r>> \in acked'
      PROVE  RecordRef(a)' = r \/ Superseded(a, r)'
  <2>1. ASSUME NEW p \in Requests, RecoveryAnswered(p), req[p].pc # "idle"
        PROVE  <<a, r>> \in acked
    <3>1. sealedWallet[req[p].blob] # r
      BY <1>3, <2>1
    <3> QED
      BY <1>6, <2>1, <3>1 DEF RecoveryAnswered
  <2>2. ASSUME NEW p \in Requests, RecordAnswered(p), req[p].pc # "idle"
        PROVE  <<a, r>> \in acked \/ (a = req[p].acct /\ r = req[p].blob)
    BY <1>6, <2>2 DEF RecordAnswered
  <2> QED
    BY <1>2, <1>4, <1>6, <2>1, <2>2, AckedGrows
<1> QED
  BY <1>5, <1>6, <1>n DEF AckedCurrent, Superseded

(* The pointers keep every answered PUT, with failing calls and any order  *)
(* of clients.                                                             *)
LEMMA AckInvariant == Spec => []AckInv
<1>1. Init => AckInv
  BY RegistryAssumption DEF Init, AckInv, AckedCurrent, PendingAck, Idle
<1>2. BaseInv /\ BaseInv' /\ AckInv /\ [Next]_vars => AckInv'
  BY PendingStep, AckedStep DEF AckInv
<1> QED
  BY <1>1, <1>2, BaseInvariant, PTL DEF Spec

(* Whatever crashes or fails, and in whatever order clients store and      *)
(* publish, a recovery secret that was answered 200 stays readable: the    *)
(* bytes behind the account's pointer hold that secret.                    *)
THEOREM SecretsHold == Spec => []AckedRecovery
<1>1. BaseInv /\ AckInv => AckedRecovery
  BY DEF BaseInv, RecoveryInv, RecoveryStored, AckInv, AckedCurrent, AckedRecovery,
         StoredRecovery
<1> QED
  BY <1>1, BaseInvariant, AckInvariant, PTL

(* If clients store recovery first and no store call fails, a PUT that was *)
(* answered 200 is never undone, however requests interleave and wherever  *)
(* the server dies: the bytes of that secret, and of that record or of a   *)
(* fresher one, can be read.                                               *)
THEOREM AnswersHold ==
    ASSUME RecoveryFirst, ~ IoFaults
    PROVE  Spec => []AckedHolds
<1>1. BaseInv /\ CleanupInv /\ AckInv /\ AckedRecovery => AckedHolds
  <2> SUFFICES ASSUME BaseInv, CleanupInv, AckInv, AckedRecovery,
                      NEW a \in Accounts, NEW r \in Records, <<a, r>> \in acked
               PROVE  /\ StoredRecord[a] \in Records
                      /\ \/ StoredRecord[a] = r
                         \/ Older(Freshness[r], Freshness[StoredRecord[a]])
    BY DEF AckedHolds
  <2>1. RecordRef(a) # None /\ (RecordRef(a) = r \/ Older(Freshness[r], Freshness[RecordRef(a)]))
    BY DEF AckInv, AckedCurrent
  <2>2. RecordRef(a) \in Records
    BY <2>1, RegistryAssumption DEF BaseInv, ShapeInv, RecordRef, BlobsOf, Kinds
  <2>3. StoredRecord[a] = RecordRef(a)
    BY <2>1 DEF CleanupInv, RecordPresent, StoredRecord
  <2> QED
    BY <2>1, <2>2, <2>3
<1> QED
  BY <1>1, BaseInvariant, CleanupInvariant, AckInvariant, SecretsHold, PTL

-----------------------------------------------------------------------------
(* No reader is told that a current blob is missing.                       *)

(* A stable pointer to a record or to recovery has its bytes.              *)
LEMMA LoadsSucceed ==
    ASSUME BaseInv, CleanupInv, NEW p \in Requests, req[p].kind # "backup"
    PROVE  ~ LoadFailed(p)
<1> SUFFICES ASSUME LoadFailed(p) PROVE FALSE
  OBVIOUS
<1>1. req[p].pc = "recheck" /\ req[p].seen = ref[Slot(p)]
  BY DEF LoadFailed
<1>2. req[p].kind \in Kinds /\ req[p].acct \in Accounts /\ req[p].seen \in BlobsOf(req[p].kind)
  BY <1>1 DEF BaseInv, ShapeInv, RequestShape
<1>3. req[p].kind # "recovery"
  BY <1>1 DEF BaseInv, RecoveryInv, RecoveryRead
<1>4. req[p].kind = "record"
  BY <1>2, <1>3 DEF Kinds
<1>5. /\ req[p].seen = RecordRef(req[p].acct) /\ req[p].seen \in Records
      /\ Superseded(req[p].acct, req[p].seen)
  BY <1>1, <1>2, <1>4 DEF Slot, RecordRef, BlobsOf, CleanupInv, ReadCleanup
<1> QED
  BY <1>5, OlderOrder DEF Superseded

(* No step answers "missing".                                              *)
LEMMA AnswerStep ==
    ASSUME ~ IoFaults, "get_backup" \notin Operations,
           BaseInv, CleanupInv, AnswerInv, [Next]_vars
    PROVE  AnswerInv'
<1> USE RegistryAssumption
<1>t. req \in [Requests -> Request] /\ reply \in [Requests -> Replies]
  BY DEF BaseInv, TypeOK
<1>i. Idle.answer = "none" /\ Idle.kind = None
  BY DEF Idle
<1>k. None # "backup" /\ None # "record"
  BY DEF Kinds
<1>f. ASSUME NEW p \in Requests, NEW answer, Finish(p, answer), answer # "missing"
      PROVE  AnswerInv'
  BY <1>f, <1>t, <1>i, <1>k DEF Finish, AnswerInv
<1>g. ASSUME NEW p \in Requests, NEW r, Goto(p, r) \/ Begin(p, r),
             r.answer # "missing", r.kind # "backup"
      PROVE  AnswerInv'
  BY <1>g, <1>t DEF Goto, Begin, AnswerInv
<1>u. ASSUME UNCHANGED <<req, reply>> PROVE AnswerInv'
  BY <1>u DEF AnswerInv
<1>1. ASSUME NEW p \in Requests, Start(p) PROVE AnswerInv'
  <2>1. ASSUME NEW op, NEW a, NEW b,
               Begin(p, [Idle EXCEPT !.op = op, !.pc = "put", !.acct = a, !.blob = b])
        PROVE  AnswerInv'
    <3> DEFINE r == [Idle EXCEPT !.op = op, !.pc = "put", !.acct = a, !.blob = b]
    <3>1. r.answer # "missing" /\ r.kind # "backup"
      BY <1>k DEF Idle
    <3> QED
      BY <2>1, <3>1, <1>g
  <2>2. ASSUME NEW op, NEW a, NEW kind, kind # "backup",
               Begin(p, [Idle EXCEPT !.op = op, !.pc = "load_ptr", !.acct = a,
                                     !.kind = kind])
        PROVE  AnswerInv'
    <3> DEFINE r == [Idle EXCEPT !.op = op, !.pc = "load_ptr", !.acct = a, !.kind = kind]
    <3>1. r.answer # "missing" /\ r.kind # "backup"
      BY <2>2 DEF Idle
    <3> QED
      BY <2>2, <3>1, <1>g
  <2>3. ASSUME NEW a, NEW b, StartPutBackup(p, a, b) PROVE AnswerInv'
    BY <2>1, <2>3 DEF StartPutBackup
  <2>4. ASSUME NEW a, NEW s, NEW w, StartPutRecovery(p, a, s, w) PROVE AnswerInv'
    BY <2>1, <2>4 DEF StartPutRecovery
  <2>5. ASSUME NEW a, NEW r, StartPutRecord(p, a, r) PROVE AnswerInv'
    BY <2>1, <2>5 DEF StartPutRecord
  <2>6. ASSUME NEW a, NEW kind \in Kinds, StartGet(p, a, kind) PROVE AnswerInv'
    <3>1. kind # "backup"
      BY <2>6 DEF StartGet, GetOf
    <3> QED
      BY <2>2, <2>6, <3>1 DEF StartGet
  <2>7. ASSUME NEW w, StartGetByUser(p, w) PROVE AnswerInv'
    <3>1. CASE userIndex[w] = None
      BY <2>7, <3>1, <1>t DEF StartGetByUser, AnswerInv
    <3>2. CASE userIndex[w] # None
      BY <2>2, <2>7, <3>2 DEF StartGetByUser
    <3> QED
      BY <3>1, <3>2
  <2> QED
    BY <1>1, <2>3, <2>4, <2>5, <2>6, <2>7 DEF Start
<1>2. ASSUME NEW p \in Requests, Step(p) PROVE AnswerInv'
  <2>r. /\ req[p] \in Request /\ req[p].answer # "missing" /\ req[p].kind # "backup"
        /\ ~ LoadFailed(p)
    BY <1>t, LoadsSucceed DEF AnswerInv
  <2>o. ASSUME NEW answer, RemoveOwnThen(p, answer), answer # "missing" PROVE AnswerInv'
    <3>1. LET r == [req[p] EXCEPT !.pc = "remove_own", !.kind = None,
                                  !.seen = None, !.answer = answer]
          IN  r.answer # "missing" /\ r.kind # "backup"
      BY <2>o, <2>r, <1>k DEF Request
    <3> QED
      BY <2>o, <3>1, <1>g DEF RemoveOwnThen
  <2>c. ASSUME NEW pc, Goto(p, [req[p] EXCEPT !.pc = pc]) PROVE AnswerInv'
    <3>1. LET r == [req[p] EXCEPT !.pc = pc]
          IN  r.answer # "missing" /\ r.kind # "backup"
      BY <2>r DEF Request
    <3> QED
      BY <2>c, <3>1, <1>g
  <2>s. ASSUME NEW pc, NEW seen, Goto(p, [req[p] EXCEPT !.pc = pc, !.seen = seen])
        PROVE  AnswerInv'
    <3>1. LET r == [req[p] EXCEPT !.pc = pc, !.seen = seen]
          IN  r.answer # "missing" /\ r.kind # "backup"
      BY <2>r DEF Request
    <3> QED
      BY <2>s, <3>1, <1>g
  <2>k. ASSUME NEW pc, NEW kind \in {"recovery", "record"}, NEW seen,
               Goto(p, [req[p] EXCEPT !.pc = pc, !.kind = kind, !.seen = seen])
        PROVE  AnswerInv'
    <3>1. LET r == [req[p] EXCEPT !.pc = pc, !.kind = kind, !.seen = seen]
          IN  r.answer # "missing" /\ r.kind # "backup"
      BY <2>r DEF Request
    <3> QED
      BY <2>k, <3>1, <1>g
  <2>1. CASE PutBlob(p)
    <3> DEFINE r == [req[p] EXCEPT !.pc = "load_ptr", !.kind = "recovery"]
    <3>1. r.answer # "missing" /\ r.kind # "backup"
      BY <2>r DEF Request
    <3>2. Goto(p, [req[p] EXCEPT !.pc = "read_ref"]) \/ Goto(p, r)
      BY <2>1 DEF PutBlob
    <3> QED
      BY <3>1, <3>2, <2>c, <1>g
  <2>2. CASE ReadRef(p) \/ LoadPointer(p) \/ BytesGone(p) \/ PointerMoved(p)
    BY <2>2, <2>c, <2>s DEF ReadRef, LoadPointer, BytesGone, PointerMoved
  <2>3. CASE GetReturns(p)
    BY <2>3, <2>r, <1>f DEF GetReturns, Loaded
  <2>4. CASE CompareRecovery(p)
    BY <2>4, <2>r, <2>c, <2>o, <1>f DEF CompareRecovery, Loaded
  <2>5. CASE CasRecovery(p)
    BY <2>5, <2>c, <1>f DEF CasRecovery
  <2>6. CASE EnforceRecovery(p)
    BY <2>6, <2>r, <2>k, <2>o DEF EnforceRecovery, Loaded
  <2>7. CASE EnforceRecord(p)
    BY <2>7, <2>r, <2>c, <2>o DEF EnforceRecord, Loaded
  <2>8. CASE CasRecordMismatch(p)
    BY <2>8, <2>k DEF CasRecordMismatch
  <2>9. CASE CasRecord(p)
    BY <2>9, <2>c, <1>f DEF CasRecord
  <2>10. CASE CasBackup(p)
    <3> DEFINE r == [req[p] EXCEPT !.seen = ref[<<req[p].acct, "backup">>]]
    <3>1. r.answer # "missing" /\ r.kind # "backup"
      BY <2>r DEF Request
    <3>2. Goto(p, r) => AnswerInv'
      BY <3>1, <1>g
    <3> QED
      BY <2>10, <3>2, <2>c, <1>f DEF CasBackup
  <2>11. CASE RemoveReplaced(p) \/ RemoveOwn(p)
    BY <2>11, <2>r, <1>f DEF RemoveReplaced, RemoveOwn
  <2> QED
    BY <1>2, <2>1, <2>2, <2>3, <2>4, <2>5, <2>6, <2>7, <2>8, <2>9, <2>10, <2>11 DEF Step
<1>3. \A p \in Requests : ~ Fault(p)
  BY DEF Fault
<1>4. CASE Crash
  BY <1>4, <1>i, <1>k DEF Crash, AnswerInv
<1> QED
  BY <1>1, <1>2, <1>3, <1>4, <1>u DEF Next, vars

(* A reader that loses a race with a writer's cleanup finds the pointer    *)
(* moved and reads again: no request for a record or for recovery is ever  *)
(* answered "current blob is missing".  A backup has no freshness, so a    *)
(* replaced one can return and get_backup is left out.                     *)
THEOREM ReadersFindBytes ==
    ASSUME RecoveryFirst, ~ IoFaults, "get_backup" \notin Operations
    PROVE  Spec => []NeverMissing
<1>1. Init => AnswerInv
  BY RegistryAssumption DEF Init, AnswerInv, Idle, Kinds
<1>2. BaseInv /\ CleanupInv /\ AnswerInv /\ [Next]_vars => AnswerInv'
  BY AnswerStep
<1>3. AnswerInv => NeverMissing
  BY DEF AnswerInv, NeverMissing
<1> QED
  BY <1>1, <1>2, <1>3, BaseInvariant, CleanupInvariant, PTL DEF Spec

-----------------------------------------------------------------------------
(* The slots implement AccountSlots.                                       *)

(* What is stored behind the pointers, when nothing is lost.               *)
SecretOf(a) == IF RecoveryRef(a) = None THEN None ELSE sealedWallet[RecoveryRef(a)]

(* Nothing is lost, so readers see what the pointers name.                 *)
LEMMA StoredMeans ==
    ASSUME BaseInv, CleanupInv
    PROVE  /\ StoredRecovery = [a \in Accounts |-> SecretOf(a)]
           /\ StoredRecord = [a \in Accounts |-> RecordRef(a)]
<1>1. \A a \in Accounts : RecoveryRef(a) # None => <<a, RecoveryRef(a)>> \in files
  BY DEF BaseInv, RecoveryInv, RecoveryStored
<1>2. \A a \in Accounts : RecordRef(a) # None => <<a, RecordRef(a)>> \in files
  BY DEF CleanupInv, RecordPresent
<1>3. StoredRecovery = [a \in Accounts |-> SecretOf(a)]
  BY <1>1 DEF StoredRecovery, SecretOf
<1>4. StoredRecord = [a \in Accounts |-> RecordRef(a)]
  BY <1>2 DEF StoredRecord
<1> QED
  BY <1>3, <1>4

(* What a step does to the two slots of every account.                     *)
Unmoved == \A a \in Accounts : SecretOf(a)' = SecretOf(a) /\ RecordRef(a)' = RecordRef(a)
SecretStored(x, w) ==
    /\ SecretOf(x) = None
    /\ \A a \in Accounts : /\ SecretOf(a)' = IF a = x THEN w ELSE SecretOf(a)
                           /\ RecordRef(a)' = RecordRef(a)
RecordStored(x, r) ==
    /\ SecretOf(x) = WalletOf[r]
    /\ RecordRef(x) # None => ~ Beats(RecordRef(x), r)
    /\ \A a \in Accounts \ {x} : RecordRef(a) # None => WalletOf[RecordRef(a)] # WalletOf[r]
    /\ \A a \in Accounts : /\ SecretOf(a)' = SecretOf(a)
                           /\ RecordRef(a)' = IF a = x THEN r ELSE RecordRef(a)

(* Every step stores one secret, publishes one record or changes no slot.  *)
LEMMA SlotStep ==
    ASSUME BaseInv, BaseInv', [Next]_vars
    PROVE  \/ Unmoved
           \/ \E a \in Accounts, w \in Wallets : SecretStored(a, w)
           \/ \E a \in Accounts, r \in Records : RecordStored(a, r)
<1> USE RegistryAssumption
<1>b. /\ TypeOK /\ ShapeInv /\ SealInv /\ RecoveryInv /\ OwnerInv /\ UserIndexAgrees
      /\ ShapeInv'
  BY DEF BaseInv
<1>k. "record" \in Kinds /\ "recovery" \in Kinds /\ "backup" \in Kinds
  BY DEF Kinds
<1>f. ASSUME NEW a \in Accounts, RecoveryRef(a)' = RecoveryRef(a)
      PROVE  SecretOf(a)' = SecretOf(a)
  BY <1>f, <1>b, RecoveryFixed DEF SecretOf
<1>u. ASSUME UNCHANGED ref PROVE Unmoved
  BY <1>u, <1>f DEF Unmoved, RecordRef, RecoveryRef
<1>1. ASSUME NEW p \in Requests, CasBackup(p) PROVE Unmoved
  <2>1. req[p].acct \in Accounts
    BY <1>1, <1>b DEF CasBackup, ShapeInv, RequestShape
  <2>2. UNCHANGED ref \/ ref' = [ref EXCEPT ![<<req[p].acct, "backup">>] = req[p].blob]
    BY <1>1 DEF CasBackup
  <2>3. ASSUME ref' = [ref EXCEPT ![<<req[p].acct, "backup">>] = req[p].blob],
               NEW a \in Accounts
        PROVE  RecordRef(a)' = RecordRef(a) /\ RecoveryRef(a)' = RecoveryRef(a)
    BY <1>b, <1>k, <2>1, <2>3 DEF TypeOK, Slots, RecordRef, RecoveryRef
  <2> QED
    BY <2>2, <2>3, <1>u, <1>f DEF Unmoved
<1>2. ASSUME NEW p \in Requests, CasRecovery(p), ref' # ref
      PROVE  \E a \in Accounts, w \in Wallets : SecretStored(a, w)
  <2>a. PICK x, s : x = req[p].acct /\ s = req[p].blob
    OBVIOUS
  <2>1. x \in Accounts /\ s \in SealedBlobs /\ sealedWallet[s] \in Wallets
    BY <1>2, <1>b, <2>a DEF CasRecovery, ShapeInv, RequestShape, SealInv
  <2>2. /\ ref' = [ref EXCEPT ![<<x, "recovery">>] = s]
        /\ RecoveryRef(x) = None /\ UNCHANGED sealedWallet
    BY <1>2, <2>a DEF CasRecovery, RecoveryRef
  <2>3. ASSUME NEW a \in Accounts
        PROVE  /\ RecordRef(a)' = RecordRef(a)
               /\ RecoveryRef(a)' = IF a = x THEN s ELSE RecoveryRef(a)
    BY <1>b, <1>k, <2>1, <2>2 DEF TypeOK, Slots, RecordRef, RecoveryRef
  <2>4. s # None
    BY <2>1 DEF Blobs
  <2>5. SecretOf(x) = None /\ SecretOf(x)' = sealedWallet[s]
    BY <2>1, <2>2, <2>3, <2>4 DEF SecretOf
  <2>6. \A a \in Accounts : a # x => SecretOf(a)' = SecretOf(a)
    BY <2>3, <1>f
  <2>7. SecretStored(x, sealedWallet[s])
    BY <2>1, <2>3, <2>5, <2>6 DEF SecretStored
  <2> QED
    BY <2>1, <2>7
<1>3. ASSUME NEW p \in Requests, CasRecord(p), ref' # ref
      PROVE  \E a \in Accounts, r \in Records : RecordStored(a, r)
  <2>a. PICK x, r : x = req[p].acct /\ r = req[p].blob
    OBVIOUS
  <2>1. /\ x \in Accounts /\ r \in Records /\ req[p].kind = "record"
        /\ req[p].op = "put_record" /\ req[p].pc = "cas"
    BY <1>3, <1>b, <2>a DEF CasRecord, ShapeInv, RequestShape
  <2>2. /\ ref' = [ref EXCEPT ![<<x, "record">>] = r]
        /\ RecordRef(x) = req[p].seen
        /\ userIndex[WalletOf[r]] \in {None, x}
    BY <1>3, <2>a DEF CasRecord, RecordRef
  <2>3. ASSUME NEW a \in Accounts
        PROVE  /\ RecordRef(a)' = IF a = x THEN r ELSE RecordRef(a)
               /\ RecoveryRef(a)' = RecoveryRef(a)
    BY <1>b, <1>k, <2>1, <2>2 DEF TypeOK, Slots, RecordRef, RecoveryRef
  <2>4. SecretOf(x) = WalletOf[r]
    BY <1>b, <2>a, <2>1 DEF OwnerInv, Owned, SecretOf
  <2>5. RecordRef(x) # None => ~ Beats(RecordRef(x), r)
    BY <1>b, <2>a, <2>1, <2>2 DEF OwnerInv
  <2>6. ASSUME NEW a \in Accounts \ {x}, RecordRef(a) # None,
               WalletOf[RecordRef(a)] = WalletOf[r]
        PROVE  FALSE
    <3>1. WalletOf[r] \in Wallets /\ a # None
      BY <2>1
    <3>2. userIndex[WalletOf[r]] = a
      BY <1>b, <2>6, <3>1 DEF UserIndexAgrees
    <3> QED
      BY <2>2, <2>6, <3>1, <3>2
  <2>7. RecordStored(x, r)
    BY <2>3, <2>4, <2>5, <2>6, <1>f DEF RecordStored
  <2> QED
    BY <2>1, <2>7
<1> QED
  BY <1>1, <1>2, <1>3, <1>u, RefSteps

(* The registry's files, pointers and interleaved requests implement       *)
(* AccountSlots: recovery is written once, a record gives way only to a    *)
(* fresher one of the same wallet, no two accounts publish for one wallet, *)
(* and nothing stored is lost.                                             *)
THEOREM RefinesSlots ==
    ASSUME RecoveryFirst, ~ IoFaults
    PROVE  Spec => ImplementsSlots
<1>1. Init => Promise!Init
  <2> SUFFICES ASSUME Init PROVE Promise!Init
    OBVIOUS
  <2>1. \A a \in Accounts : RecordRef(a) = None /\ RecoveryRef(a) = None
    BY DEF Init, RecordRef, RecoveryRef, Slots, Kinds
  <2> QED
    BY <2>1 DEF Promise!Init, StoredRecovery, StoredRecord
<1>2. BaseInv /\ BaseInv' /\ CleanupInv /\ CleanupInv' /\ [Next]_vars
         => [Promise!Next]_<<StoredRecovery, StoredRecord>>
  <2> SUFFICES ASSUME BaseInv, BaseInv', CleanupInv, CleanupInv', [Next]_vars
               PROVE  Promise!Next \/ UNCHANGED <<StoredRecovery, StoredRecord>>
    OBVIOUS
  <2>1. /\ StoredRecovery = [a \in Accounts |-> SecretOf(a)]
        /\ StoredRecord = [a \in Accounts |-> RecordRef(a)]
    BY StoredMeans
  <2>2. (/\ StoredRecovery = [a \in Accounts |-> SecretOf(a)]
         /\ StoredRecord = [a \in Accounts |-> RecordRef(a)])'
    BY StoredMeans, PTL
  <2>3. CASE Unmoved
    BY <2>1, <2>2, <2>3 DEF Unmoved
  <2>4. ASSUME NEW x \in Accounts, NEW w \in Wallets, SecretStored(x, w)
        PROVE  Promise!StoreRecovery(x, w)
    BY <2>1, <2>2, <2>4 DEF SecretStored, Promise!StoreRecovery
  <2>5. ASSUME NEW x \in Accounts, NEW r \in Records, RecordStored(x, r)
        PROVE  Promise!PublishRecord(x, r)
    BY <2>1, <2>2, <2>5 DEF RecordStored, Promise!PublishRecord
  <2> QED
    BY <2>3, <2>4, <2>5, SlotStep DEF Promise!Next
<1> QED
  BY <1>1, <1>2, BaseInvariant, CleanupInvariant, PTL
     DEF Spec, ImplementsSlots, Promise!Spec, Promise!slots
=============================================================================
