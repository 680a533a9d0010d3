--------------------------- MODULE RegistryBlobs ---------------------------
(***************************************************************************)
(* The account blobs of the registry server: the PUT and GET handlers of   *)
(* http.rs over the content-addressed files of FileBlobStore and the       *)
(* pointers, one per account and slot, that redb keeps.                    *)
(*                                                                         *)
(* Every handler runs in spawn_blocking, so handlers interleave between    *)
(* any two store calls; one store call (one redb transaction, one blob     *)
(* file operation) is one step here.  A request begins once authorize()    *)
(* and the rate limit have let it pass.                                    *)
(***************************************************************************)
EXTENDS Naturals

CONSTANTS
    Accounts,       \* account ids
    Requests,       \* server threads, each serving one request at a time
    Wallets,        \* wallet keys; the protocol user id is derived from one
    Records,        \* signed public records that pass verification
    WalletOf,       \* the wallet that signed a record
    Freshness,      \* (identity, device, reachability) sequence of a record
    Backups,        \* backup payloads
    SealedBlobs,    \* sealed recovery payloads, each with its own nonce
    None,           \* the absent blob, account, ...
    Operations,     \* the handlers that clients call
    RecoveryFirst,  \* clients store recovery before they publish a record
    IoFaults        \* store calls may fail

Kinds == {"backup", "recovery", "record"}
Blobs == Backups \cup SealedBlobs \cup Records
BlobsOf(kind) == CASE kind = "backup" -> Backups
                   [] kind = "recovery" -> SealedBlobs
                   [] kind = "record" -> Records
Puts == {"put_backup", "put_recovery", "put_record"}
Gets == {"get_backup", "get_recovery", "get_record"}

ASSUME RegistryAssumption ==
    /\ WalletOf \in [Records -> Wallets]
    /\ Freshness \in [Records -> Nat \X Nat \X Nat]
    \* A blob id is its kind and the hash of its bytes.
    /\ Backups \cap SealedBlobs = {}
    /\ Backups \cap Records = {}
    /\ SealedBlobs \cap Records = {}
    /\ Records \cap Wallets = {}
    /\ None \notin Blobs \cup Accounts \cup Wallets \cup Puts \cup Gets \cup Kinds
    /\ Operations \subseteq Puts \cup Gets
    /\ RecoveryFirst \in BOOLEAN
    /\ IoFaults \in BOOLEAN

VARIABLES
    files,         \* blob files on disk, as <<account, blob>>
    ref,           \* BLOBS table: slot |-> pointer
    userIndex,     \* USER_INDEX table: user id |-> account
    sealedWallet,  \* what the recovery cipher finds inside a sealed blob
    req,           \* the request each thread is serving
    reply,         \* the last answer of each thread
    acked          \* record and recovery PUTs that were answered 200 (history)

vars == <<files, ref, userIndex, sealedWallet, req, reply, acked>>

Slots == Accounts \X Kinds
Replies == {"none", "ok", "conflict", "not_found", "missing", "fault"}
Pcs == {"idle", "put", "read_ref", "load_ptr", "load_bytes", "recheck", "cas",
        "remove_replaced", "remove_own"}

Request == [op : Puts \cup Gets \cup {None},
            pc : Pcs,
            acct : Accounts \cup {None},
            blob : Blobs \cup {None},   \* the blob this PUT stores
            kind : Kinds \cup {None},   \* the slot load_current_blob reads
            seen : Blobs \cup {None},   \* the pointer read; CAS expects it
            answer : Replies]           \* the answer after a removal

Idle == [op |-> None, pc |-> "idle", acct |-> None, blob |-> None,
         kind |-> None, seen |-> None, answer |-> "none"]

TypeOK ==
    /\ files \subseteq Accounts \X Blobs
    /\ ref \in [Slots -> Blobs \cup {None}]
    /\ userIndex \in [Wallets -> Accounts \cup {None}]
    /\ sealedWallet \in [SealedBlobs -> Wallets \cup {None}]
    /\ req \in [Requests -> Request]
    /\ reply \in [Requests -> Replies]
    /\ acked \subseteq Accounts \X (Records \cup Wallets)

Init ==
    /\ files = {}
    /\ ref = [slot \in Slots |-> None]
    /\ userIndex = [w \in Wallets |-> None]
    /\ sealedWallet = [s \in SealedBlobs |-> None]
    /\ req = [p \in Requests |-> Idle]
    /\ reply = [p \in Requests |-> "none"]
    /\ acked = {}

-----------------------------------------------------------------------------
(* SignedRecord::freshness is compared lexicographically.                  *)
Older(f, g) ==
    \/ f[1] < g[1]
    \/ f[1] = g[1] /\ f[2] < g[2]
    \/ f[1] = g[1] /\ f[2] = g[2] /\ f[3] < g[3]

(* The stored record c makes record r stale: r is older, or as old but     *)
(* different.                                                              *)
Beats(c, r) ==
    \/ Older(Freshness[r], Freshness[c])
    \/ Freshness[r] = Freshness[c] /\ c # r

-----------------------------------------------------------------------------
(* Requests arrive.                                                        *)

Begin(p, r) ==
    /\ req[p].pc = "idle"
    /\ req' = [req EXCEPT ![p] = r]
    /\ reply' = [reply EXCEPT ![p] = "none"]

StartPutBackup(p, a, b) ==
    /\ "put_backup" \in Operations
    /\ Begin(p, [Idle EXCEPT !.op = "put_backup", !.pc = "put",
                             !.acct = a, !.blob = b])
    /\ UNCHANGED <<files, ref, userIndex, sealedWallet, acked>>

(* Sealing draws a random nonce: the sealed blob s was never used before.  *)
StartPutRecovery(p, a, s, w) ==
    /\ "put_recovery" \in Operations
    /\ sealedWallet[s] = None
    /\ sealedWallet' = [sealedWallet EXCEPT ![s] = w]
    /\ Begin(p, [Idle EXCEPT !.op = "put_recovery", !.pc = "put",
                             !.acct = a, !.blob = s])
    /\ UNCHANGED <<files, ref, userIndex, acked>>

(* The clients publish only after their put_recovery was answered.         *)
StartPutRecord(p, a, r) ==
    /\ "put_record" \in Operations
    /\ RecoveryFirst => ref[<<a, "recovery">>] # None
    /\ Begin(p, [Idle EXCEPT !.op = "put_record", !.pc = "put",
                             !.acct = a, !.blob = r])
    /\ UNCHANGED <<files, ref, userIndex, sealedWallet, acked>>

GetOf(kind) == CASE kind = "backup" -> "get_backup"
                 [] kind = "recovery" -> "get_recovery"
                 [] kind = "record" -> "get_record"

StartGet(p, a, kind) ==
    /\ GetOf(kind) \in Operations
    /\ Begin(p, [Idle EXCEPT !.op = GetOf(kind), !.pc = "load_ptr",
                             !.acct = a, !.kind = kind])
    /\ UNCHANGED <<files, ref, userIndex, sealedWallet, acked>>

(* A lookup by user id resolves the account first.                         *)
StartGetByUser(p, w) ==
    /\ "get_record" \in Operations
    /\ req[p].pc = "idle"
    /\ IF userIndex[w] = None
         THEN /\ reply' = [reply EXCEPT ![p] = "not_found"]
              /\ UNCHANGED req
         ELSE Begin(p, [Idle EXCEPT !.op = "get_record", !.pc = "load_ptr",
                                    !.acct = userIndex[w], !.kind = "record"])
    /\ UNCHANGED <<files, ref, userIndex, sealedWallet, acked>>

-----------------------------------------------------------------------------
(* Steps of a request.                                                     *)

Goto(p, r) == /\ req' = [req EXCEPT ![p] = r]
              /\ UNCHANGED reply

Finish(p, answer) == /\ req' = [req EXCEPT ![p] = Idle]
                     /\ reply' = [reply EXCEPT ![p] = answer]

Slot(p) == <<req[p].acct, req[p].kind>>

(* A 200 answer commits the server to what was stored.                     *)
Acked(p, what) == acked' = acked \cup {<<req[p].acct, what>>}

(* FileBlobStore::put: afterwards the file is there, whoever wrote it.     *)
PutBlob(p) ==
    /\ req[p].pc = "put"
    /\ files' = files \cup {<<req[p].acct, req[p].blob>>}
    /\ Goto(p, IF req[p].op = "put_backup"
                 THEN [req[p] EXCEPT !.pc = "read_ref"]
                 ELSE [req[p] EXCEPT !.pc = "load_ptr", !.kind = "recovery"])
    /\ UNCHANGED <<ref, userIndex, sealedWallet, acked>>

(* put_backup reads the pointer it expects to replace.                     *)
ReadRef(p) ==
    /\ req[p].pc = "read_ref"
    /\ Goto(p, [req[p] EXCEPT !.pc = "cas",
                              !.seen = ref[<<req[p].acct, "backup">>]])
    /\ UNCHANGED <<files, ref, userIndex, sealedWallet, acked>>

(* load_current_blob: pointer, then bytes, then the pointer again if the   *)
(* bytes were gone.                                                        *)
LoadPointer(p) ==
    /\ req[p].pc = "load_ptr"
    /\ ref[Slot(p)] # None
    /\ Goto(p, [req[p] EXCEPT !.pc = "load_bytes", !.seen = ref[Slot(p)]])
    /\ UNCHANGED <<files, ref, userIndex, sealedWallet, acked>>

(* Mutant of BytesGone: no second look at the pointer.                     *)
BytesGoneAtOnce(p) ==
    /\ req[p].pc = "load_bytes"
    /\ <<req[p].acct, req[p].seen>> \notin files
    /\ Finish(p, "missing")
    /\ UNCHANGED <<files, ref, userIndex, sealedWallet, acked>>

BytesGone(p) ==
    /\ req[p].pc = "load_bytes"
    /\ <<req[p].acct, req[p].seen>> \notin files
    /\ Goto(p, [req[p] EXCEPT !.pc = "recheck"])
    /\ UNCHANGED <<files, ref, userIndex, sealedWallet, acked>>

PointerMoved(p) ==
    /\ req[p].pc = "recheck"
    /\ ref[Slot(p)] # req[p].seen
    /\ Goto(p, [req[p] EXCEPT !.pc = "load_ptr", !.seen = None])
    /\ UNCHANGED <<files, ref, userIndex, sealedWallet, acked>>

(* The outcomes of load_current_blob: no pointer, bytes, or an error when  *)
(* a stable pointer has no bytes.                                          *)
LoadedNone(p) == req[p].pc = "load_ptr" /\ ref[Slot(p)] = None
LoadedSome(p) == /\ req[p].pc = "load_bytes"
                 /\ <<req[p].acct, req[p].seen>> \in files
LoadFailed(p) == req[p].pc = "recheck" /\ ref[Slot(p)] = req[p].seen
Loaded(p) == LoadedNone(p) \/ LoadedSome(p) \/ LoadFailed(p)

GetReturns(p) ==
    /\ req[p].op \in Gets
    /\ Loaded(p)
    /\ CASE LoadedNone(p) -> Finish(p, "not_found")
         [] LoadedSome(p) -> Finish(p, "ok")
         [] LoadFailed(p) -> Finish(p, "missing")
    /\ UNCHANGED <<files, ref, userIndex, sealedWallet, acked>>

RemoveOwnThen(p, answer) ==
    Goto(p, [req[p] EXCEPT !.pc = "remove_own", !.kind = None,
                           !.seen = None, !.answer = answer])

(* put_recovery: write once; the same secret again is answered with the    *)
(* stored blob, another secret is refused.                                 *)
CompareRecovery(p) ==
    /\ req[p].op = "put_recovery"
    /\ Loaded(p)
    /\ CASE LoadedNone(p) -> Goto(p, [req[p] EXCEPT !.pc = "cas"])
         [] LoadFailed(p) -> Finish(p, "missing")
         [] LoadedSome(p) ->
              IF sealedWallet[req[p].seen] # sealedWallet[req[p].blob]
                THEN RemoveOwnThen(p, "conflict")
                ELSE IF req[p].seen # req[p].blob
                       THEN RemoveOwnThen(p, "ok")
                       ELSE Finish(p, "ok")
    /\ UNCHANGED <<files, ref, userIndex, sealedWallet, acked>>

CasRecovery(p) ==
    /\ req[p].op = "put_recovery"
    /\ req[p].pc = "cas"
    /\ IF ref[<<req[p].acct, "recovery">>] = None
         THEN /\ ref' = [ref EXCEPT ![<<req[p].acct, "recovery">>] = req[p].blob]
              /\ Acked(p, sealedWallet[req[p].blob])
              /\ Finish(p, "ok")
         ELSE /\ Goto(p, [req[p] EXCEPT !.pc = "load_ptr"])
              /\ UNCHANGED <<ref, acked>>
    /\ UNCHANGED <<files, userIndex, sealedWallet>>

(* Mutant of EnforceRecovery: any stored recovery will do.                 *)
EnforceRecoveryAnyWallet(p) ==
    /\ req[p].op = "put_record"
    /\ req[p].kind = "recovery"
    /\ Loaded(p)
    /\ IF LoadedSome(p)
         THEN Goto(p, [req[p] EXCEPT !.pc = "load_ptr",
                                     !.kind = "record", !.seen = None])
         ELSE RemoveOwnThen(p, "conflict")
    /\ UNCHANGED <<files, ref, userIndex, sealedWallet, acked>>

(* put_record, enforce_public_record_update: first the account's recovery  *)
(* identity, then the stored record.  Every error removes the new blob.    *)
EnforceRecovery(p) ==
    /\ req[p].op = "put_record"
    /\ req[p].kind = "recovery"
    /\ Loaded(p)
    /\ CASE LoadedNone(p) -> RemoveOwnThen(p, "conflict")
         [] LoadFailed(p) -> RemoveOwnThen(p, "missing")
         [] LoadedSome(p) ->
              IF WalletOf[req[p].blob] = sealedWallet[req[p].seen]
                THEN Goto(p, [req[p] EXCEPT !.pc = "load_ptr",
                                            !.kind = "record", !.seen = None])
                ELSE RemoveOwnThen(p, "conflict")
    /\ UNCHANGED <<files, ref, userIndex, sealedWallet, acked>>

(* The record check.  Both records passed the recovery check, so they have *)
(* one wallet and one user id, and a stored record was verified when it    *)
(* was stored: of the conditions of enforce_public_record_update only the  *)
(* freshness can fail.                                                     *)
EnforceRecord(p) ==
    /\ req[p].op = "put_record"
    /\ req[p].kind = "record"
    /\ Loaded(p)
    /\ CASE LoadedNone(p) -> Goto(p, [req[p] EXCEPT !.pc = "cas"])
         [] LoadFailed(p) -> RemoveOwnThen(p, "missing")
         [] LoadedSome(p) ->
              IF Beats(req[p].seen, req[p].blob)
                THEN RemoveOwnThen(p, "conflict")
                ELSE Goto(p, [req[p] EXCEPT !.pc = "cas"])
    /\ UNCHANGED <<files, ref, userIndex, sealedWallet, acked>>

(* The user index after account a publishes a record of wallet w in place  *)
(* of record previous.                                                     *)
Rebound(a, w, previous) ==
    [u \in Wallets |->
        CASE u = w -> a
          [] u # w /\ previous # None /\ u = WalletOf[previous]
             /\ userIndex[u] = a -> None
          [] OTHER -> userIndex[u]]

(* Mutant of CasRecordMismatch: the retry expects the pointer now stored   *)
(* but does not check the update against it again.                         *)
CasRecordMismatchUnchecked(p) ==
    /\ req[p].op = "put_record"
    /\ req[p].pc = "cas"
    /\ ref[<<req[p].acct, "record">>] # req[p].seen
    /\ Goto(p, [req[p] EXCEPT !.seen = ref[<<req[p].acct, "record">>]])
    /\ UNCHANGED <<files, ref, userIndex, sealedWallet, acked>>

(* Mutant of CasRecordMismatch: the retry expects what it expected before. *)
CasRecordMismatchSameExpected(p) ==
    /\ req[p].op = "put_record"
    /\ req[p].pc = "cas"
    /\ ref[<<req[p].acct, "record">>] # req[p].seen
    /\ UNCHANGED vars

(* compare_and_swap_public_record_ref, one transaction.                    *)
CasRecordMismatch(p) ==
    /\ req[p].op = "put_record"
    /\ req[p].pc = "cas"
    /\ ref[<<req[p].acct, "record">>] # req[p].seen
    /\ Goto(p, [req[p] EXCEPT !.pc = "load_ptr", !.kind = "recovery",
                              !.seen = None])
    /\ UNCHANGED <<files, ref, userIndex, sealedWallet, acked>>

(* Mutant of CasRecord: the swap does not compare the pointer.             *)
CasRecordBlind(p) ==
    /\ req[p].op = "put_record"
    /\ req[p].pc = "cas"
    /\ userIndex[WalletOf[req[p].blob]] \in {None, req[p].acct}
    /\ ref' = [ref EXCEPT ![<<req[p].acct, "record">>] = req[p].blob]
    /\ userIndex' = Rebound(req[p].acct, WalletOf[req[p].blob], req[p].seen)
    /\ Finish(p, "ok")
    /\ Acked(p, req[p].blob)
    /\ UNCHANGED <<files, sealedWallet>>

(* Mutant of CasRecord: a repeated PUT of the current record removes it.   *)
CasRecordRemoveSame(p) ==
    /\ req[p].op = "put_record"
    /\ req[p].pc = "cas"
    /\ ref[<<req[p].acct, "record">>] = req[p].seen
    /\ ref' = [ref EXCEPT ![<<req[p].acct, "record">>] = req[p].blob]
    /\ userIndex' = Rebound(req[p].acct, WalletOf[req[p].blob], req[p].seen)
    /\ IF req[p].seen = None
         THEN Finish(p, "ok") /\ Acked(p, req[p].blob)
         ELSE /\ Goto(p, [req[p] EXCEPT !.pc = "remove_replaced"])
              /\ UNCHANGED acked
    /\ UNCHANGED <<files, sealedWallet>>

(* Mutant of CasRecord: another account may already publish for the wallet.*)
CasRecordAnyAccount(p) ==
    /\ req[p].op = "put_record"
    /\ req[p].pc = "cas"
    /\ ref[<<req[p].acct, "record">>] = req[p].seen
    /\ ref' = [ref EXCEPT ![<<req[p].acct, "record">>] = req[p].blob]
    /\ userIndex' = Rebound(req[p].acct, WalletOf[req[p].blob], req[p].seen)
    /\ Finish(p, "ok")
    /\ Acked(p, req[p].blob)
    /\ UNCHANGED <<files, sealedWallet>>

CasRecord(p) ==
    LET a == req[p].acct
        w == WalletOf[req[p].blob]
    IN
    /\ req[p].op = "put_record"
    /\ req[p].pc = "cas"
    /\ ref[<<a, "record">>] = req[p].seen
    /\ IF userIndex[w] \notin {None, a}
         THEN /\ Finish(p, "conflict")
              /\ UNCHANGED <<ref, userIndex, acked>>
         ELSE /\ ref' = [ref EXCEPT ![<<a, "record">>] = req[p].blob]
              /\ userIndex' = Rebound(a, w, req[p].seen)
              /\ IF req[p].seen \in {None, req[p].blob}
                   THEN Finish(p, "ok") /\ Acked(p, req[p].blob)
                   ELSE /\ Goto(p, [req[p] EXCEPT !.pc = "remove_replaced"])
                        /\ UNCHANGED acked
    /\ UNCHANGED <<files, sealedWallet>>

(* put_backup: retry the swap until it applies.                            *)
CasBackup(p) ==
    LET slot == <<req[p].acct, "backup">>
    IN
    /\ req[p].op = "put_backup"
    /\ req[p].pc = "cas"
    /\ IF ref[slot] # req[p].seen
         THEN /\ Goto(p, [req[p] EXCEPT !.seen = ref[slot]])
              /\ UNCHANGED ref
         ELSE /\ ref' = [ref EXCEPT ![slot] = req[p].blob]
              /\ IF req[p].seen \in {None, req[p].blob}
                   THEN Finish(p, "ok")
                   ELSE Goto(p, [req[p] EXCEPT !.pc = "remove_replaced"])
    /\ UNCHANGED <<files, userIndex, sealedWallet, acked>>

(* remove_replaced_blob: drop the blob the swap replaced.                  *)
RemoveReplaced(p) ==
    /\ req[p].pc = "remove_replaced"
    /\ files' = files \ {<<req[p].acct, req[p].seen>>}
    /\ Finish(p, "ok")
    /\ IF req[p].op = "put_record" THEN Acked(p, req[p].blob)
                                   ELSE UNCHANGED acked
    /\ UNCHANGED <<ref, userIndex, sealedWallet>>

(* Mutant of RemoveOwn: the current blob goes instead of the new one.      *)
RemoveOwnCurrent(p) ==
    /\ req[p].pc = "remove_own"
    /\ files' = files \ {<<req[p].acct, ref[<<req[p].acct, "recovery">>]>>}
    /\ Finish(p, req[p].answer)
    /\ UNCHANGED <<ref, userIndex, sealedWallet, acked>>

(* A refused or repeated PUT removes the blob it wrote.                    *)
RemoveOwn(p) ==
    /\ req[p].pc = "remove_own"
    /\ files' = files \ {<<req[p].acct, req[p].blob>>}
    /\ Finish(p, req[p].answer)
    /\ IF req[p].op = "put_recovery" /\ req[p].answer = "ok"
         THEN Acked(p, sealedWallet[req[p].blob])
         ELSE UNCHANGED acked
    /\ UNCHANGED <<ref, userIndex, sealedWallet>>

(* The files after a failed call: put and remove sync the directory last,  *)
(* so the file may have been written or removed already.                   *)
FilesAfterFault(p) ==
    LET own == {<<req[p].acct, req[p].blob>>}
    IN  {files} \cup
        (CASE req[p].pc = "put" -> {files \cup own}
           [] req[p].pc = "remove_own" -> {files \ own}
           [] req[p].pc = "remove_replaced" -> {files \ {<<req[p].acct, req[p].seen>>}}
           [] OTHER -> {})

(* A store call fails.  Handlers return at once, but an error inside       *)
(* enforce_public_record_update still removes the new blob, and a failed   *)
(* cleanup after a swap is only logged.                                    *)
Fault(p) ==
    /\ IoFaults
    /\ req[p].pc # "idle"
    /\ CASE req[p].op = "put_record"
              /\ req[p].pc \in {"load_ptr", "load_bytes", "recheck"} ->
              RemoveOwnThen(p, "fault") /\ UNCHANGED acked
         [] req[p].pc = "remove_replaced" ->
              /\ Finish(p, "ok")
              /\ IF req[p].op = "put_record" THEN Acked(p, req[p].blob)
                                             ELSE UNCHANGED acked
         [] req[p].op = "put_record" /\ req[p].pc = "remove_own" ->
              Finish(p, req[p].answer) /\ UNCHANGED acked
         [] OTHER -> Finish(p, "fault") /\ UNCHANGED acked
    /\ files' \in FilesAfterFault(p)
    /\ UNCHANGED <<ref, userIndex, sealedWallet>>

(* The server dies: requests are lost, files and tables stay.              *)
Crash ==
    /\ \E p \in Requests : req[p].pc # "idle"
    /\ req' = [p \in Requests |-> Idle]
    /\ reply' = [p \in Requests |-> "none"]
    /\ UNCHANGED <<files, ref, userIndex, sealedWallet, acked>>

Start(p) ==
    \/ \E a \in Accounts, b \in Backups : StartPutBackup(p, a, b)
    \/ \E a \in Accounts, s \in SealedBlobs, w \in Wallets :
          StartPutRecovery(p, a, s, w)
    \/ \E a \in Accounts, r \in Records : StartPutRecord(p, a, r)
    \/ \E a \in Accounts, kind \in Kinds : StartGet(p, a, kind)
    \/ \E w \in Wallets : StartGetByUser(p, w)

Step(p) ==
    \/ PutBlob(p) \/ ReadRef(p)
    \/ LoadPointer(p) \/ BytesGone(p) \/ PointerMoved(p) \/ GetReturns(p)
    \/ CompareRecovery(p) \/ CasRecovery(p)
    \/ EnforceRecovery(p) \/ EnforceRecord(p)
    \/ CasRecordMismatch(p) \/ CasRecord(p) \/ CasBackup(p)
    \/ RemoveReplaced(p) \/ RemoveOwn(p)

Next == \/ \E p \in Requests : Start(p) \/ Step(p) \/ Fault(p)
        \/ Crash

Spec == Init /\ [][Next]_vars
-----------------------------------------------------------------------------
(* Properties.                                                             *)

RecordRef(a) == ref[<<a, "record">>]
RecoveryRef(a) == ref[<<a, "recovery">>]

(* The current record pointer of an account always has its bytes on disk:  *)
(* no cleanup of a replaced or refused blob (remove_replaced_blob, the     *)
(* error path of put_public_record) ever removes the current one.          *)
RecordPresent == \A a \in Accounts :
    RecordRef(a) # None => <<a, RecordRef(a)>> \in files

(* The same for the write-once recovery slot (put_recovery removes the     *)
(* sealed blob of a repeated or refused PUT).                              *)
RecoveryPresent == \A a \in Accounts :
    RecoveryRef(a) # None => <<a, RecoveryRef(a)>> \in files

(* The same for the backup slot (put_backup).                              *)
BackupPresent == \A a \in Accounts :
    ref[<<a, "backup">>] # None => <<a, ref[<<a, "backup">>]>> \in files

(* No request is answered "current blob is missing": a reader that lost a  *)
(* race with a writer's cleanup finds the pointer moved (load_current_blob)*)
NeverMissing == \A p \in Requests : reply[p] # "missing"

(* The user index and the record slots agree (one transaction writes both):*)
(* a user id resolves to the one account that publishes for its wallet.    *)
UserIndexAgrees == \A w \in Wallets, a \in Accounts :
    userIndex[w] = a <=> RecordRef(a) # None /\ WalletOf[RecordRef(a)] = w

(* A record pointer is replaced only by that of a strictly fresher record  *)
(* of the same wallet, and the recovery pointer never changes once set.    *)
Advance ==
    \A a \in Accounts :
       /\ RecordRef(a) # None /\ RecordRef(a)' # RecordRef(a) =>
             /\ RecordRef(a)' \in Records
             /\ Older(Freshness[RecordRef(a)], Freshness[RecordRef(a)'])
             /\ WalletOf[RecordRef(a)'] = WalletOf[RecordRef(a)]
       /\ RecoveryRef(a) # None => RecoveryRef(a)' = RecoveryRef(a)
PointersAdvance == [][Advance]_vars

(* The slots implement AccountSlots: what a reader finds behind the        *)
(* pointers, or Lost when the bytes are gone.                              *)
Lost == "lost"
StoredRecovery == [a \in Accounts |->
    IF RecoveryRef(a) = None THEN None
    ELSE IF <<a, RecoveryRef(a)>> \in files THEN sealedWallet[RecoveryRef(a)]
    ELSE Lost]
StoredRecord == [a \in Accounts |->
    IF RecordRef(a) = None THEN None
    ELSE IF <<a, RecordRef(a)>> \in files THEN RecordRef(a)
    ELSE Lost]

(* A recovery PUT that was answered 200 is never undone, whatever fails:   *)
(* a reader finds that secret, with its bytes, behind the pointer.         *)
AckedRecovery == \A a \in Accounts, w \in Wallets :
    <<a, w>> \in acked => StoredRecovery[a] = w

(* A PUT that was answered 200 is never undone: whatever other requests    *)
(* replace, refuse and clean up, a reader finds the bytes of that recovery *)
(* secret, and those of that record or of a fresher one.                   *)
AckedHolds ==
    /\ AckedRecovery
    /\ \A a \in Accounts, r \in Records : <<a, r>> \in acked =>
          /\ StoredRecord[a] \in Records
          /\ \/ StoredRecord[a] = r
             \/ Older(Freshness[r], Freshness[StoredRecord[a]])

Promise == INSTANCE AccountSlots
             WITH recovery <- StoredRecovery, record <- StoredRecord,
                  Stale <- Beats

(* The files, pointers and interleaved requests implement the two slots of *)
(* AccountSlots.                                                           *)
ImplementsSlots == Promise!Spec

(* Every thread keeps being scheduled (tokio's blocking pool), so a        *)
(* request that has begun finishes: the compare-and-swap loops of          *)
(* put_recovery and put_public_record and the retry of load_current_blob   *)
(* end.                                                                    *)
FairSpec == Spec /\ \A p \in Requests : WF_vars(Step(p))
RequestsFinish == \A p \in Requests :
    req[p].pc # "idle" ~> req[p].pc = "idle"
-----------------------------------------------------------------------------
(* The inductive invariants of RegistryBlobs_proof.                        *)

(* What each control state of a handler implies for its local state.       *)
RequestShape(r) ==
    /\ r.pc # "idle" => r.op \in Puts \cup Gets /\ r.acct \in Accounts
    /\ r.op = "put_backup" => r.blob \in Backups
    /\ r.op = "put_recovery" => r.blob \in SealedBlobs
    /\ r.op = "put_record" => r.blob \in Records
    /\ r.pc = "idle" => r = Idle
    /\ r.pc \in {"put", "cas"} => r.op \in Puts
    /\ r.pc = "read_ref" => r.op = "put_backup"
    /\ r.pc \in {"load_ptr", "load_bytes", "recheck"} =>
          /\ r.kind \in Kinds
          /\ r.op # "put_backup"
          /\ r.op = "put_recovery" => r.kind = "recovery"
          /\ r.op = "put_record" => r.kind \in {"recovery", "record"}
    /\ r.pc \in {"put", "read_ref", "load_ptr"} => r.seen = None
    /\ r.pc = "cas" /\ r.op = "put_recovery" =>
          r.kind = "recovery" /\ r.seen = None
    /\ r.pc \in {"load_bytes", "recheck"} => r.seen \in BlobsOf(r.kind)
    /\ r.pc = "cas" /\ r.op = "put_record" =>
          r.kind = "record" /\ r.seen \in Records \cup {None}
    /\ r.pc = "remove_replaced" => /\ r.op \in {"put_backup", "put_record"}
                                   /\ r.op = "put_backup" => r.seen \in Backups
                                   /\ r.op = "put_record" => r.seen \in Records
    /\ r.pc = "cas" /\ r.op = "put_backup" => r.seen \in Backups \cup {None}
    /\ r.pc = "remove_own" => r.op \in {"put_recovery", "put_record"}

ShapeInv ==
    /\ \A a \in Accounts, k \in Kinds :
          ref[<<a, k>>] \in BlobsOf(k) \cup {None}
    /\ \A p \in Requests : RequestShape(req[p])

(* A recovery blob in the hands of a request is sealed.                    *)
SealInv == \A p \in Requests :
    req[p].op = "put_recovery" => sealedWallet[req[p].blob] \in Wallets

(* The recovery slot: a stored blob keeps its file and its secret, ...     *)
RecoveryStored == \A a \in Accounts : RecoveryRef(a) # None =>
    /\ <<a, RecoveryRef(a)>> \in files
    /\ sealedWallet[RecoveryRef(a)] \in Wallets

(* ... a blob still in the hands of a request is stored nowhere and is in  *)
(* no other request's hands, ...                                           *)
RecoveryPrivate == \A p \in Requests : req[p].op = "put_recovery" =>
    /\ \A a \in Accounts : RecoveryRef(a) # req[p].blob
    /\ req[p].pc # "put" => <<req[p].acct, req[p].blob>> \in files
    /\ \A q \in Requests \ {p} :
          req[q].op = "put_recovery" => req[p].blob # req[q].blob

(* ... and a pointer once read is still the current one.                   *)
RecoveryRead == \A p \in Requests :
    req[p].pc \in {"load_bytes", "recheck"} /\ req[p].kind = "recovery" =>
       /\ req[p].pc = "load_bytes"
       /\ req[p].seen = RecoveryRef(req[p].acct)

RecoveryInv == RecoveryStored /\ RecoveryPrivate /\ RecoveryRead

(* Account a has recovery, and record r is signed by that identity.        *)
Owned(a, r) == /\ RecoveryRef(a) # None
               /\ WalletOf[r] = sealedWallet[RecoveryRef(a)]

(* A published record belongs to the account's recovery identity, and so   *)
(* does one that enforce_public_record_update has let past that check; a   *)
(* swap is attempted only against a record that does not beat the new one. *)
OwnerInv ==
    /\ \A a \in Accounts : RecordRef(a) # None => Owned(a, RecordRef(a))
    /\ \A p \in Requests : req[p].op = "put_record" =>
          /\ req[p].kind = "record" => Owned(req[p].acct, req[p].blob)
          /\ req[p].pc = "cas" /\ req[p].seen # None =>
                ~ Beats(req[p].seen, req[p].blob)

(* The current record of account a is fresher than record r.               *)
Superseded(a, r) == /\ RecordRef(a) # None
                    /\ Older(Freshness[r], Freshness[RecordRef(a)])

(* Record r can never become account a's record any more.                  *)
Doomed(a, r) ==
    /\ RecoveryRef(a) # None
    /\ \/ WalletOf[r] # sealedWallet[RecoveryRef(a)]
       \/ RecordRef(a) # None /\ Beats(RecordRef(a), r)

(* Only doomed record blobs are removed, as long as the clients store      *)
(* recovery first and no store call fails: the blob of a PUT in progress   *)
(* is there or does not matter, ...                                        *)
PutCleanup(p) ==
    /\ RecoveryRef(req[p].acct) # None
    /\ req[p].pc \in {"load_ptr", "load_bytes", "recheck", "cas"} =>
          \/ <<req[p].acct, req[p].blob>> \in files
          \/ Doomed(req[p].acct, req[p].blob)
    /\ req[p].pc = "remove_replaced" => Superseded(req[p].acct, req[p].seen)
    /\ req[p].pc = "remove_own" => Doomed(req[p].acct, req[p].blob)

(* ... and bytes that a reader misses belong to a superseded record.       *)
ReadCleanup(p) ==
    /\ req[p].pc = "load_bytes" =>
          \/ RecordRef(req[p].acct) = req[p].seen
          \/ Superseded(req[p].acct, req[p].seen)
    /\ req[p].pc = "recheck" => Superseded(req[p].acct, req[p].seen)

CleanupInv ==
    /\ RecordPresent
    /\ \A p \in Requests : req[p].op = "put_record" => PutCleanup(p)
    /\ \A p \in Requests : req[p].kind = "record" => ReadCleanup(p)

(* What a request will be answered 200 for already holds: a repeated       *)
(* put_recovery found its own secret stored, and a record that was swapped *)
(* in is the current one or a fresher one followed it.                     *)
PendingAck(p) ==
    /\ req[p].op = "put_recovery" /\ req[p].pc = "remove_own" /\ req[p].answer = "ok" =>
          /\ RecoveryRef(req[p].acct) # None
          /\ sealedWallet[RecoveryRef(req[p].acct)] = sealedWallet[req[p].blob]
    /\ req[p].op = "put_record" /\ req[p].pc = "remove_replaced" =>
          \/ RecordRef(req[p].acct) = req[p].blob
          \/ Superseded(req[p].acct, req[p].blob)

(* The pointers alone never go back on an answered PUT, even when calls    *)
(* fail; the bytes of a record are the business of CleanupInv.             *)
AckedCurrent ==
    /\ \A a \in Accounts, w \in Wallets : <<a, w>> \in acked =>
          /\ RecoveryRef(a) # None
          /\ sealedWallet[RecoveryRef(a)] = w
    /\ \A a \in Accounts, r \in Records : <<a, r>> \in acked =>
          /\ RecordRef(a) # None
          /\ RecordRef(a) = r \/ Older(Freshness[r], Freshness[RecordRef(a)])

AckInv == AckedCurrent /\ \A p \in Requests : PendingAck(p)

(* No request is, or will be, answered "missing", and none reads a backup. *)
AnswerInv == \A p \in Requests :
    reply[p] # "missing" /\ req[p].answer # "missing" /\ req[p].kind # "backup"

BaseInv == TypeOK /\ ShapeInv /\ SealInv /\ RecoveryInv /\ OwnerInv /\ UserIndexAgrees
=============================================================================
