# A TLA+ model of Mycellium

Mycellium is a peer-to-peer messenger: a message goes from device to device or
it is not delivered yet. A registry server keeps accounts, recovery secrets,
backups and signed public records; everything else is on the devices. This
directory holds TLA+ modules for the parts of the system whose correctness
depends on interleavings and failures, TLC configurations that check them on
small instances, and TLAPS proofs of the most important properties for every
instance.

- `tlc -config X.cfg MCModule` checks one configuration.
- `tlapm M_proof.tla` checks the proofs of a module.
- `PROJECT.json` lists the components, the runs, a mutant for every property,
  the source lines each definition models, findings, hazards and theorems.

## The system

| Part | State | Operations | What is hard |
|---|---|---|---|
| Registry blobs (`mycellium-registry`: `http.rs`, `lib.rs`, `redb_store.rs`) | content-addressed blob files; one pointer per account and slot; user index | PUT and GET of backup, recovery, public record; GET by user id | handlers run concurrently between store calls; cleanup of replaced and refused blobs; failing calls; crashes |
| Registry login (same crate, `email.rs`) | login tokens, accounts, sessions, rate-limit buckets, expiry indexes | request and confirm a login, authorize, purge | tokens used once, expiry against use, one session per account |
| Outbox and delivery (`mycellium-engine/outbox.rs`, `mycellium-client/runtime.rs`) | entry per delivery: status, sealed item, plaintext for resealing, schedule | send, flush, retry, cancel, record the result | two flushers work on copies; the recipient changes device; replies are late, lost, or another's |
| Inbox and transcript (`inbox.rs`, `history.rs`, `flow/mod.rs`) | accepted delivery ids; segments of messages | accept, append, edit, delete, expire | duplicates under the same or a new delivery id; edits before their message |
| Peer book and anti-rollback (`peerbook.rs`, `antirollback.rs`) | latest signed record of each person, pinned sequence numbers | import, apply, remove | stale answers of the registry |
| Active device (`mycellium-mobile`, `mycellium-linux`) | `device_current`, own record | publish, poll, log in | a replaced device learns of it late; publishing races polling |
| Local store (`mycellium-storage/filestore.rs`) | a file per key, a journal | put, delete, batch, open | crash or power failure at every point, also during recovery |
| Groups (`core/group.rs`, `engine/groups.rs`, `flow/mod.rs`) | membership, sender keys, skipped keys | create, invite, send, leave | reordering, eviction of skipped keys, a member's new device |
| Backups (`mycellium-cli`: `app/backup.rs`) | data directory, staging directory beside it | export, import, wipe | power failure between staging and publishing; other processes use the directory |
| Core (`mycellium-core`) | none | signatures, X3DH, sealing, encodings | cryptography, taken as correct |
| Transport (`mycellium-transport`) | links | send and wait, reply | loss, shared links, timeouts |
| Applications (Linux, CLI, Android, Apple) | user interface | call the parts above | worker, monitor and user threads share one store |

The devices talk to the registry over HTTP and to each other over Reticulum.
Inside a device the user's thread, the outbox worker, the listener and the
monitor share one store behind a mutex; the store's directory is locked
against other processes. What makes each part correct: a pointer of the
registry always has its bytes and only moves forward; a message is never lost
and never shown twice; a delivered mark is proof of receipt; a batch of the
local store is applied whole or not at all. A login link works once and opens
only the account of its address, which has one session, the newest; what a
device believes of a person never goes back; writer and reader see the same
text once everything about it has arrived in order; no chain position of a group
is used twice, whoever is not a member does not get the key in use, and members
find each other; an account can be recovered by the next device at every moment,
and a replaced phone learns that it was; an imported directory is complete or
absent.

## Modules

```
RegistryBlobs   implements  AccountSlots      RegistryBlobs_proof   MCRegistryBlobs
RegistryLogin                                 RegistryLogin_proof   MCRegistryLogin
Delivery        implements  MessageDelivery   Delivery_proof        MCDelivery
PeerBook \
History  -- Conversation  implements  Transcript
                                              Conversation_proof    MCConversation
GroupChat                                     GroupChat_proof       MCGroupChat
DeviceSwitch                                  DeviceSwitch_proof    (cfg only)
FileStore       implements  AtomicStore       FileStore_proof       MCFileStore
BackupImport                                  BackupImport_proof    MCBackupImport
BackupExport    extends FileStore                                   (cfg only)
```

How they fit together. `Delivery` shows that a message is delivered by frames
that may be lost, late and repeated, and `Conversation` and `GroupChat` take
that as their network: any frame that was pushed may be accepted at any time,
in any order or never. `DeviceSwitch` takes the registry's side of a call as
one step, as `RegistryBlobs` and `RegistryLogin` justify: a record slot is
replaced only by a fresher record, an account has one session. The device
modules write through the store that `FileStore` models, whose `AtomicStore`
lets them treat a batch as one step; where the code makes several writes
without a batch, there are several steps. `BackupExport` runs beside a
`FileStore` that another process may use.

Definitions with a comment "Mutant of X" are plausible mistakes in the code
that X models. Nothing uses them; each shows that a property can fail.

### RegistryBlobs

`files`, `ref` and `userIndex` are the blob directory and the two redb tables.
`req[p]` is the local state of one handler in tokio's blocking pool: a program
counter and the variables the Rust function keeps between two store calls. A
store call (one redb transaction, one file operation) is one step, so handlers
interleave exactly where the code lets them. `PutBlob`, `LoadPointer`,
`BytesGone`, `PointerMoved`, `CasRecord`, ... are the calls in the order of
`put_public_record`, `put_recovery`, `put_backup` and `load_current_blob`.
A blob is identified with its content, as its file name is (kind and SHA-256);
sealing a recovery secret draws a nonce, so `sealedWallet` gives every sealed
blob one secret and no two seals are equal. `reply` and `acked` are what
clients have been told.

`RecoveryFirst` says that clients publish a record only after their recovery
secret was stored, which the Linux and mobile login flows do
(`accept_account`, `confirm_email_login_inner`). `IoFaults` lets any store call
fail; `Crash` drops all requests. A failed redb commit is taken not to have
happened. Authorization, sizes and signature checks are guards that have
already passed when a request begins.

`AccountSlots` is the promise: recovery is written once, a record is replaced
only by a fresher one of the same wallet, no two accounts publish for one
wallet, nothing is lost.

### RegistryLogin

The tables of `redb_store.rs` for login: tokens, the index from mail address to
account, the session of an account with the index from bearer token to account,
rate-limit buckets, and an expiry index for each of the three. A handler
(`req[p]`) reads the clock once when it starts, as `now()` is called once, and
each redb transaction is a step: the three `CheckRateLimit` calls,
`FindAccount`, `PutLoginToken`, `SendLoginToken` (the mail may not be sent),
`TakeLoginToken`, `GetOrCreateAccount`, `ReplaceSession`. `Fail` is a call that
returns an error, after which what earlier calls committed stays: a token that
was taken is gone though no session was made. `StartPurge` and `Purge` are the
maintenance task: it reads the clock, then runs passes of at most `Batch` rows
over tokens, sessions and buckets in the order of their expiry until one is not
full. `Crash` drops handlers and the cleanup.

`ExpiryReplaced` keeps the detail that matters: the key of the session index is
(expiry, account), so the old and the new session may have the same key, and
the old entry must go first. `logins`, `owner` and `newest` are history. Random
ids never repeat; a mail address stands for its hash. All requests come from
one source address.

### Delivery

One sender, one recipient, the threads of the sender's process. `outbox[m]` is
the entry of message `m`; its `id` is the delivery id, which names one sealing
for one device. A thread's program counter follows `flush_shared_outbox`:
copy the due entries under the lock (`Snapshot`), then per entry ask the
registry (`Fetch`), apply the answer and read the peer book (`Lookup`), push
the item as it is, reseal it or mark it failed (`Prepare...`), push, wait,
and record the result. A send is `StartSend` (the registry is asked without
the lock) and `Park` (one transaction), followed by the same push. A lock scope
is one step; network calls hold no lock.

The recipient has devices, and version `v` of its record names
`ActiveDevice[v]`. `Accept` is the transaction of `accept_delivery`: the
delivery id goes to the inbox and the message to the transcript, unless it is
there. Frames and acknowledgements can be lost; a reply may reach any thread
that waits on the same device's link, since `send_and_wait` takes the first
reply on the link; `verify_delivery_ack` then compares the id.

Abstracted: times to "due or not"; the three sequence numbers of a record to
its version; a block, a changed identity or a failed transaction at the
recipient to `Refuse`; ciphertext and plaintext to whether they are stored.
Left out: the sender's own transcript copy, reachability statistics, expiry,
an unparsable user id, and a sealing that fails. `MoveSender` is a login on
another device and back; after a restart `current` is TRUE, as in
`open_session`. A message accepted by a device that has been replaced and does
not know it yet counts as delivered, as it does in the code.

`MessageDelivery` is the promise: only a message that some device holds is
marked delivered, a final status stays, and a message that can be resealed is
never given up.

### PeerBook, History, Transcript, Conversation

`PeerBook` is what a device knows of people: the book of signed records, the
anti-rollback pins, contacts, verified people, the block list. A record is
[user, seq, handle]; handles are not unique and anybody may publish under any
of them. `check_and_pin` and `peerbook::put` are two writes, and so are the
parts of `remove_record`; the `...Torn` actions are the process dying in
between. `DhtLookup` is the command-line client's search by handle, whose
answer may be any set of records: `DhtChoice` is `best_dht_record_candidate`
with `trusted_wallet`.

`History` has the operators of `history.rs`: a thread is a sequence of segments
of at most `Segment` rows; append, edit, delete and prune rewrite only the
segments they touch. Filtering a segment (`Without`) puts each row that stays at
the place its rank among them gives it, which is what filter and collect do,
without recursion; `Order` is the order in which `load_segments` joins the
segments, as a relation of message ids. `Conversation` is sending, editing, deleting, receiving,
expiring and clearing of direct messages by several people, on top of both:
`Accept` is `accept_delivery` with `recv_direct`, which checks the sender's
record against book and pins, the block list, the inbox of frames, and then
changes the transcript. A copy that can neither be sent nor parked
(`DeliveryPath::Failed`, after which the sender still keeps its own row) is a
letter that never arrives. Removing expired rows is one step, although on a plain
`FileStore` each segment is a write of its own. A frame carries the sender's record at the time of
sealing; a message that is not acknowledged may be sealed again.

`Transcript` is the promise and knows no segments: a transcript is a set of rows
and the order of their messages. Rows keep their order, a new one comes last, a
message is there once, and only its author adds, changes or takes back a row;
nothing else disappears except by expiry or when the user clears the transcript.

### GroupChat

One group. `mail[p][q]` are the items p sealed for q (invitation, text,
departure) and `got[q][p]` those q accepted, in any order, each once per store.
A sender key is a generation with a chain position; a receiver key has the
position and the skipped positions it keeps, at most `MaxSkip`, of which the
oldest are evicted (`Banked`, `HasMessageKey`, `Ratcheted`: `message_key` and
`bank_skipped` of core `group.rs`). `Create`, `Add`, `Send`, `Leave` are the
commands of the CLI. Each names those whose copy was really parked: one whose
record cannot be found, or whose copy cannot be sealed or parked, is passed over
while the command goes on (`distribute_key_inner`, `group_send`), and then gets
the text without the key. `...Torn` is the same cut short after some of the
deliveries; `Join`, `Learn`, `Read`, `SeeLeave`, `IgnoreLeave` are
`recv_group_invite`, `recv_group_text` and `recv_group_leave`. `Move` gives a
person a new device with an empty store; `Refresh` and `AddContact` are how
others learn of its record. Two variables are history: `missed`, for
`KeyBeforeText`, the texts that went to a device whose share of the key failed
in that send; and `calm`, for `MembersAgree`: nobody has left or moved and no
call has failed. `Cost` and `MaxCost` bound the changes of a
behaviour: rare events cost more, so that each run of three cheap events, or of
one cheap and one rare event, or of a departure alone, is covered.

### DeviceSwitch

One account, phones and desktops. The registry has the recovery wallet, the
published record and the session; a device has the secret it keeps, its
encrypted files, the memory of the running application, the login or
publication it is busy with, and the answer its monitor holds. Each call to the
registry is a step (`GetRecovery`, `GetRecord`, `PutRecovery`, `PutRecord`,
`PollGet`, ...), each with the local work that follows it, and `Fail` is a call
that is refused or lost. The two applications differ where the code does:
`Adopt` and `OpenMobile` are `confirm_email_login_inner` of the mobile facade,
which hands the secret to its application only at the end; `AcceptAccount`,
`CreateIdentity`, `SaveIdentity`, `OpenSession` and `SaveSession` (the lines of
`create_identity` one after the other), `FillRecord` and `AcceptUnlocked` are
the desktop's, and `Fail` and `Quit` may come between any two of them. An
`atomic_write` of the identity that fails after its rename is taken to have
failed altogether. Sessions expire
(`Expire`), applications quit and start again (`Quit`, `Start`), and a started
phone believes that it is current until its first poll.

### FileStore

`dir` is the directory as processes see it: a value per key and perhaps a
journal. `may` is the set of directories a power failure now may leave. A
rename or a removal changes `dir` at once and adds to `may`; a directory sync
leaves only `dir`. With `KeepsOrder` a power failure loses the newest changes
only; without it, any subset of the unsynced ones. `Content` is what a reader finds
once the store is open, the journal over the files. The actions are the file
system calls of `put`, `delete`, `apply_batch` and `commit` (which do the same
with a batch), of `recover_transaction` and of `finish_transaction`; `Fault` returns an
error at any of them. Keys are applied in any order; a batch has one mutation
per key, as a `FileTransaction` has. `promised` is a history variable: what a
caller may find after a power failure.

The file lock makes `Open` possible only when no store is open; systems without
file locks are not covered. Encryption and the choice of temporary names are
left out: a file is replaced whole.

`AtomicStore` is the promise: a batch changes the content in one step, and a
power failure leaves a content the store had since the last call that synced
before it returned. `delete` alone does not sync, so it is not durable when it
returns.

### BackupImport and BackupExport

`BackupImport` is a data directory of the command-line client and the staging
directory beside it. `parent` is what processes see, `may` what a power failure
may leave: a directory entry of the parent that was not synced may be missing
or may be back. `StartImport`, `ClearDestination`, `Stage`, `WriteIdentity`,
`WriteEntry`, `Publish` and `SyncParent` are `import_backup` and
`publish_backup_tree`; `SaveIdentity` and `Wipe` are the other commands that
change the directory. `Overlaps` lets an identity be made while an import runs.

`BackupExport` extends `FileStore`: `export_backup` opens the store and drops
it again, lists the directory and reads one file after the other, while another
process may have opened the store. `Importable` is what `import_backup` asks of
the names.

## Runs

| Run | Bounds | Result |
|---|---|---|
| registry_records | 1 account, 2 requests, 3 records (two equally fresh), 2 sealed blobs, fair threads | `RecordPresent`, `AckedHolds`, `NeverMissing`, `ImplementsSlots`, `RequestsFinish` hold |
| registry_faults | 2 accounts that publish for one wallet, 2 requests, 2 records, 2 sealed blobs, a backup, failing calls, any order of clients | `RecoveryPresent`, `UserIndexAgrees`, `PointersAdvance` hold |
| registry_login | 1 address, 2 handlers, 4 requests, 2 tokens, time 0..1, batches of 2 | `TokenOnce`, `OwnAccountOnly`, `NewestOnly`, `ExpiryIndexed`, `PurgesExpiredOnly`, `ExpiredGo` hold |
| delivery_flush | 1 message, 2 threads, recipient moves and returns, crashes | `NeverLost`, `NoDuplicates`, `DeliveredAccepted`, `FinalIsFinal`, `ImplementsDelivery` hold |
| delivery_cli | 1 message that cannot be resealed, 1 thread, cancels, recipient moves and is forgotten, sender moves | `ImplementsDelivery` holds |
| delivery_live | 1 message, 1 thread, recipient moves, fairness | `PendingDelivered` holds |
| conversation | 2 people and a stranger, 5 records over 2 handles, 2 messages of which one may be sealed again, 2 changes by hand, segments of one row | `Converges`, `ThreadsNamed`, `RecordsAdvance`, `TrustedHandleKept`, `ImplementsTranscript` hold |
| groups | 3 people, changes of total cost 3 | `PositionsOnce`, `KeyBeforeText`, `FormerCannotRead`, `MembersAgree` hold |
| device_switch | 1 phone, 1 desktop, 3 logins, 1 edit, 1 restart, fairness | `Recoverable`, `DesktopFilesReadable`, `MobilesLearn` hold |
| file_store | 2 keys, 2 values, failing calls, order kept | `AllOrNothing`, `JournalHolds`, `ImplementsAtomic` hold |
| backup_import | 4 backups (one with a bad name, one that does not open), 3 imports, 1 wipe, power failures | `CompleteOrAbsent`, `ImportedStays` hold |
| backup_restores | a store with 2 keys | `ExportsRestorable` fails |

Why these bounds are enough to be interesting: the registry's races are between
two requests on one slot, and a removal needs a content that is replaced or
refused and stored again, so two or three contents do; the two equally fresh
records decide ties. A login race needs two links, of which one may be opened
twice, and a session that expires when another begins. A flush race needs two
copies of one entry and a recipient that leaves and comes back, which takes
three record versions. A conversation needs a text and an edit or a deletion of
it, and a handle that two people have. A group needs a member that learns of
another from a third. A torn batch needs two keys. `MaxVersion`, `MaxForgets`,
`MaxUnsynced`, `MaxRequests`, `MaxTime`, `MaxMessages`, `MaxReseals`,
`MaxChanges`, `MaxCost`, `MaxLogins`, `MaxEdits`, `MaxOpens`, `MaxImports` and
`MaxWipes` are the only bounds on behaviour. Requests, threads, sealed blobs,
keys, values and the two group members that are not the founder are
interchangeable, which the symmetry sets use; the runs with a liveness property
use none. Runs that may end when their bounds are used up, or when all
applications are closed, do not check for deadlock.

The failing run shows that no backup that the command-line client exports can
be imported again: opening the store creates its lock file in the directory
that is exported, and the import refuses that name. It is listed under
"findings" in `PROJECT.json` with the lines it contradicts.

### What does not hold

Configurations that are not part of the list of runs and that reproduce places
where the code does less than one may expect, some of them less than its
documents say:

| Configuration (module) | Property | What happens |
|---|---|---|
| `MCRegistryBackupRace` (MCRegistryBlobs) | `BackupPresent` | The delayed cleanup after a backup PUT removes bytes that a concurrent PUT of the same content has made current again. `http.rs:524` calls the result corruption: "a stable pointer to missing bytes is corruption, not a transient." |
| `MCDeliveryCancelled` (MCDelivery) | `CancelledErased` | A cancelled delivery keeps its ciphertext and plaintext; `SERVERLESS.md:84-85` says "erased when the entry is delivered, failed, or cancelled". |
| `MCDeliveryOldEntries` (MCDelivery) | `OldFinalIsFinal` | With two flushers, an entry that cannot be resealed (a group frame) is marked failed from a copy though the other flush has delivered it. |
| `MCDeletedStays` (MCConversation) | `DeletedStaysDeleted` | A deletion that overtakes its text is acknowledged and forgotten; the text appears when it arrives. |
| `MCGroupSender` (MCConversation) | `GroupSenderFound` | A group command looks up one's own record by handle and may find somebody else's. |
| `MCHoldersRead` (MCGroupChat) | `HoldersCanRead` | A repeated invitation replaces the receiver key and with it the positions that were kept for late texts. |
| `MCDesktopsLearn` (DeviceSwitch) | `DesktopsLearn` | When publishing fails after a login, the desktop returns before it starts its monitor, and never learns that it was replaced. |
| `MCMobileFiles` (DeviceSwitch) | `MobileFilesReadable` | The mobile facade creates encrypted files under a new identity before its application has stored the secret; a login that fails in between leaves files that nobody can read. |
| `MCExportsOneState` (BackupExport) | `ExportsOneState` | Files are read while another process writes: a bundle may mix two states. |
| `MCImportOverlap` (MCBackupImport) | `ImportedStays` | `identity new` checks for an identity and writes it in two steps; an import in between is overwritten. |

`MCDeliveryReplies` (MCDelivery) is a larger instance that passes: two messages
to one device whose replies share a link.

Smaller observations, which no property covers: a record removed by hand leaves
a thread without a name, and listing conversations then fails for all of them
(`ThreadsNamed` excludes it); the inbox of accepted frames is never trimmed; a
frame sealed with an older record of its sender is refused once a newer one was
seen, until it is sealed again; a member that left is listed again, and is sent
the new key, when an invitation of a member that has not seen it leave arrives
(`FormerCannotRead` is about those that are not listed); a desktop that was replaced
and publishes with an old record is refused with a conflict; all clients
mark an entry failed on any error of readdressing (desktop and phone in
`flush_shared_outbox`), which an entry with its plaintext cannot meet: it is a
pairwise item of the identity that opened the store, and the record it is sealed
for was verified.

What the assumptions on constants stand for; each can be turned off in a cfg to
see it matter:

- `RecoveryFirst` and no `IoFaults`, for `RecordPresent`, `AckedHolds` and
  `NeverMissing`:
  the error path of `put_public_record` removes its blob unconditionally. A PUT
  that is refused because recovery is not stored yet may remove the blob that
  a second PUT of the same record has published meanwhile; a transient store
  error while the current record is put again removes its bytes.
- `KeepsOrder`, for `JournalHolds`: `delete_raw` does not sync, so on a file
  system that reorders directory changes the removal of the journal may survive
  a power failure that undoes the removal of a file before it.
- `SenderMoves`: a replaced device finishes the flush it has begun, because
  `device_current` is read before the flush only. The model has that behaviour;
  no property forbids it.

## Fairness

`registry_records` assumes that every handler thread is scheduled (tokio's
blocking pool). A swap fails only because another request's swap succeeded, and
records only get fresher, so the loops end. Backups are left out of that run:
nothing stops other writers from winning for ever.

`delivery_live` assumes weak fairness of the worker (it loops every five
seconds), of the steps of a thread, of timeouts, of retry delays and of the
recipient's listener; and strong fairness of a fresh answer of the registry, of
the frame, its acceptance, the reply and the acknowledgement arriving while the
sender still waits. The network guarantees none of the last; the property says
that if among endlessly many attempts some are answered in time, the message is
delivered. Crashes, removal of the contact and cancellation are excluded there.

`registry_login` assumes that the maintenance task keeps running (weak fairness
of `StartPurge`) and that among endlessly many passes some complete although
the server restarts (strong fairness of `Purge`). Handlers need no fairness.

`device_switch` assumes weak fairness of the monitor's request and of storing
its answer, and of the steps of a login or publication, which may also end in
failure. The monitor's loop justifies the first; a poll whose answer is lost is
followed by another.

## Proofs

Eight modules hold the proofs, one for each modelled component but the export.
Each theorem holds for every value of the constants that satisfies the
assumptions of the model's module; these say that bounds and numbers are
natural numbers, that None is none of the values it stands beside, and that the
sets of constants fit together. What a theorem assumes besides is said below.

`RegistryBlobs_proof`, for any sets of accounts, requests, wallets, records and
blobs:

- `BaseInvariant`: the inductive invariant `BaseInv`. Beside types it says what
  each program counter implies for a handler's variables (`ShapeInv`), that a
  recovery blob in a request's hands is sealed and is nobody else's
  (`SealInv`, `RecoveryPrivate`), that a stored recovery keeps its file and
  that a recovery pointer once read is still current (`RecoveryStored`,
  `RecoveryRead`), and that a record past its check belongs to the account's
  recovery identity and is not beaten by the record its swap expects
  (`OwnerInv`). `UserIndexAgrees` is inductive only together with `OwnerInv`.
- `TypeCorrect`, `RecoveryNeverLost` (with failing calls, any client order),
  `IndexAgrees`, `RecordsAdvance`.
- `SecretsHold` (`AckedRecovery`): the bytes of an acknowledged recovery secret
  stay, also with failing calls and any client order. `AckInv` adds what a
  request will be answered for before it is answered (`PendingAck`): after the
  swap a handler still cleans up, and meanwhile another request may replace the
  record, by a fresher one.
- `AnswersHold` (`AckedHolds`), assuming `RecoveryFirst` and no failing calls:
  the bytes of what was acknowledged, or of a fresher record, are there. With
  failing calls this is false of records, whose bytes a repeated PUT that fails
  removes.
- `CleanupInvariant` and from it `RecordNeverLost`, assuming `RecoveryFirst`
  and no failing calls. `CleanupInv` says that only doomed blobs are removed:
  blobs that the freshness order or the recovery identity bars from ever
  becoming current.
- `ReadersFindBytes` (`NeverMissing`) under the same assumptions, for registries
  without `get_backup`: a reader that finds no bytes finds the pointer moved,
  because otherwise the blob it looks for would be current and, by `CleanupInv`,
  there. A backup has no freshness, so a replaced one can become current again
  while its removal is under way; that is the race of `MCRegistryBackupRace`.
- `RefinesSlots` (`ImplementsSlots`) under the same assumptions: every store
  call is a step of `AccountSlots` or changes nothing of it.

`RegistryLogin_proof`, for any addresses, accounts, tokens, handlers, lifetimes,
limits and batch size: `LoginCorrect` proves `LoginInv`. Its core is `TokenInv`,
that a login token is in the hands of one handler, or in the table, or used, and
never two of these: without it two handlers that hold the same token could both
make a session. `OwnerInv` says that whoever names an account (a stored token, a
handler, a session) has it from the index of its address, whose entries never
change once made; `NewestInv` ties sessions to the last one made; `HandlerInv`
says what a handler has at each step. `ExpiryIndexed` is inductive with them:
`put_login_token` adds a row for a token that has none by `TokenInv`, and the
cleanup removes a row exactly with its entry. From `LoginInv` follow
`LoginTypes`, `LinksWorkOnce`, `SessionsOpenOwnAccount`, `OneSession`,
`RowsIndexed` and `CleanupSafe`, which also needs `PurgeInv`: the cleanup's
clock is never ahead of the server's. Lifetimes are assumed to be positive.

`Delivery_proof`, for any messages, devices, threads and record versions:
`DeliveryInvariant` proves `DeliveryInv`, which ties copies and frames to
messages that were sent (`CopyInv`, `WireInv`), believed acknowledgements and
delivered entries to ids in the device's inbox (`ThreadInv`, `EntryInv`), and
ids in an inbox to exactly one row (`RowsInv`). From it follow `TypeCorrect`,
`DeliveredMeansAccepted`, `MessagesNeverLost`, `TranscriptsUnique`,
`FinalsErased` and `FinalsStay`. Entries that cannot be resealed (those of
groups) are marked failed from a copy, whatever the outbox says by then. For a
client with one thread, as the command-line client is, `SoloInvariant` shows
that a copy is never stale when its turn comes (`SoloInv`). With two flushers
(the desktop's and the phone's) it can be, and then a delivered entry becomes a
failed one (`MCDeliveryOldEntries`). `Refines` (`ImplementsDelivery`) therefore
assumes that every message can be resealed, as direct messages are (`send_app`
always passes the plaintext), or that there is one thread.

`Conversation_proof`, for any people, records, handles and bounds:
`TalkCorrect` proves `TalkInv`. A record is kept under its user (`UserInv`); a
record in the book is the pinned one or older than it (`PinInv`), which is more
than the pin's sequence number being as high, since two different records may
have the same; a contact or the partner of a thread is in the book or was
removed by hand (`KnownInv`); a frame carries a record of the one who wrote its
message (`MailInv`), so that the writer is in the book when the message reaches
the transcript. Each action treats an entry of a book in one of the few ways
that `Entry` lists, the torn ones included, and those keep the invariant. From
it follow `PinsCover`, `ThreadsHaveNames`, `RecordsOnlyAdvance` and
`TrustedHandlesKept`.

The transcripts are proved about in three layers. The first is `History` alone:
`WithoutPlaces` shows that ranks fill the shortened segment exactly and keep the
order of the rows that stay (counting, so that no induction over sequences is
needed), and `RemoveKeeps`, `EditKeeps` and `AppendKeeps` say what the
operations do to the rows of a thread and to their order. The second is what is
always true of letters and threads: a message is about an earlier one and what
was accepted was pushed (`PostInv`); a thread holds messages that were sent, each
once (`ThreadInv`). The third, `SettleInv`, is about a text that is not astray:
the writer's thread shows what all messages about it say, the reader's what
those that have arrived say, and these are the earliest of them. What a set of
messages says is the wording of its last one, or nothing after a deletion; so
an arrival in order is the same change to both threads (`OwnShows`), while
messages about other texts, and changes the other side attempts, leave the row
alone (`OtherShows`). `ConversationCorrect` proves all of this (`ConvInv`).
`TranscriptsConverge` (`Converges`) is the case where everything has arrived,
and `RefinesTranscript` (`ImplementsTranscript`) shows action by action that a
thread changes only as `Transcript` allows, for segments of any size and any
number of messages, where the run has two.

`GroupChat_proof`, for any number of people, any contacts and any bounds:
`GroupCorrect` proves `GroupInv`: nothing was sent under a later key or at a
later position than the one in use (`PastInv`), and whoever is noted in
`key_shares` was sent that key (`ShareInv`); a share that could not be sealed or
parked is not noted, so the only text a device gets without the key is that of
the send that tried to share it (`missed`). Every action is an `Effect` of one
person, and `Effect` preserves `GroupInv`. `PositionsUsedOnce`,
`KeysBeforeTexts` and `FormerMembersLockedOut` follow.
`MembersFindEachOther` (`MembersAgree`) is about groups whose people are all
contacts, as long as nobody leaves or moves and no call fails; these hypotheses are
part of the property. `CalmInv` says what has been sent and accepted by then,
and, as its main part, that there are ranks (`AddersRanked`): whoever is not a
member from the start was added by somebody of a lower rank, who tells everyone
it counts in. Learning of members from others keeps the ranks; adding somebody
gives it a rank above all it is told about. When the mail is in, suppose q does not count s in,
and take such a pair with the least sum of ranks: s was added by an x of a lower
rank, so q and x count each other in, x has told q of s, and q has accepted it.

`DeviceSwitch_proof`, for any number of phones and desktops and any bounds:
`SwitchCorrect` proves `SwitchInv`. `Recoverable` alone is not inductive: a
login that is about to keep an identity must already have its wallet in the
registry. `WalletInv` says so of every step after `put_recovery`, and that what
a login or an application remembers of the registry's wallet is still true,
since the registry never replaces it. `DesktopInv` says that a desktop runs with
the identity it keeps and encrypts its files with it. `IdentitiesRecoverable`
and `DesktopsReadTheirFiles` follow.

`FileStore_proof`, for any keys and values: `BaseInvariant` (while a journal is
applied it is there, and handled keys have its values), from which applying a
mutation and removing the journal leave `Content` as it was; `TypeCorrect`;
and, assuming `KeepsOrder`,
`NeverTorn`, `CommitHolds` and `Refines`.

`BackupImport_proof`, for any backups and bounds: `StagingCorrect` proves that
what is staged is at each step the part of the backup that has been written
(`StageInv`), also while other commands run. Assuming that commands do not
overlap (`~ Overlaps`, without which `MCImportOverlap` shows an import
overwritten), the data directory is absent from the moment it was found empty
until the staged tree is renamed into its place (`AloneInv`); hence
`BackupsWhole` and `ImportsDurable`, over every directory that a power failure
may leave.

Only model-checked:

- the liveness properties `RequestsFinish`, `ExpiredGo`, `PendingDelivered` and
  `MobilesLearn`, which are beyond the prover;
- `ExportsRestorable`, which fails.

## Not modelled

- Cryptography and encodings are assumed correct: signatures hold, a ciphertext
  says what was sealed, random ids never repeat.
- The libp2p DHT and noise link are third-party protocols; the model lets the
  DHT answer anything.
- Sending mail, argument parsing, printing, user interfaces, the native Android
  and Apple code: I/O without state that others depend on.
- The event queue of the mobile facade: events are shown, the transcript is
  what is kept. Events after the commit are lost when the process dies, and the
  queue drops the oldest of more than 256.
- Drafts, attachments, reachability statistics: small keyed tables.
- Edits and deletions of group messages, which are authorised by the sender's
  handle.
- Power failures of the registry's host.
- The vendored wayland-scanner.

## Plan

Every safety property that a run checks, and each of the four refinements, is
also proved. What is left:

1. Edits and deletions of group messages, for which the lemmas about `History`
   hold as they are.
2. That the counters of `DeviceSwitch` and `GroupChat` need no bounds: the
   theorems hold for every bound, so bounds could be dropped from the models
   wherever TLC does not need them.
