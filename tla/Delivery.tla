------------------------------ MODULE Delivery ------------------------------
(***************************************************************************)
(* Delivery of one sender's messages to one recipient: the sender's local  *)
(* outbox with the threads that flush it (the background worker, the       *)
(* user's "retry", a send), the Reticulum network, and the devices of the  *)
(* recipient, of which the registry names one as active.                   *)
(*                                                                         *)
(* Threads share the store behind a mutex: one lock scope (for a recipient,*)
(* one store transaction) is one step.  Network calls hold no lock.        *)
(***************************************************************************)
EXTENDS Naturals, FiniteSets

CONSTANTS
    Messages,      \* messages the sender's user writes
    Resealable,    \* those parked with plaintext; the others are old entries
                   \* and group ciphertext
    Devices,       \* the recipient's devices
    MaxVersion,    \* bound on the versions of the recipient's record
    ActiveDevice,  \* the device that a version of the record names
    Threads,       \* threads of the sender's process
    None,          \* no delivery id
    Cancels,       \* the client can cancel deliveries (the CLI)
    MaxForgets,    \* bound on removals of the recipient from the peer book
    SenderMoves,   \* the sender's user may activate another device
    Crashes        \* processes may die

Versions == 1..MaxVersion

ASSUME DeliveryAssumption ==
    /\ Resealable \subseteq Messages
    /\ MaxVersion \in Nat \ {0}
    /\ ActiveDevice \in [Versions -> Devices]
    /\ Cancels \in BOOLEAN
    /\ MaxForgets \in Nat
    /\ SenderMoves \in BOOLEAN
    /\ Crashes \in BOOLEAN

(* A delivery id is the digest of one sealed item: every sealing of a      *)
(* message draws fresh randomness, and is for one device.                  *)
Ids == [msg : Messages, seal : Nat, dev : Devices]

ASSUME NoneAssumption == None \notin Ids \cup Messages \cup Devices

Statuses == {"unsent", "pending", "delivered", "failed", "cancelled"}
Final == {"delivered", "failed", "cancelled"}

Entry == [status : Statuses,
          id : Ids \cup {None},
          item : BOOLEAN,     \* the sealed item is stored
          plain : BOOLEAN,    \* the resealing plaintext is stored
          due : BOOLEAN]      \* send_after has passed

NoEntry == [status |-> "unsent", id |-> None, item |-> FALSE, plain |-> FALSE,
            due |-> FALSE]

Pcs == {"idle", "snapshot", "loop", "lookup", "prepare", "park", "push",
        "wait", "record"}

(* What a flush remembers of an entry it has copied.                       *)
Copy == [id : Ids, plain : BOOLEAN]

Thread == [pc : Pcs,
           todo : SUBSET Copy,             \* copied entries still to try
           entry : Copy \cup {None},       \* the copied entry being tried
           msg : Messages \cup {None},     \* the message being sent
           fetched : Versions \cup {0},    \* answer of the registry, 0 if none
           dev : Devices \cup {None},      \* target device
           id : Ids \cup {None},           \* the id pushed
           accepted : BOOLEAN]             \* its ACK was verified

IdleThread == [pc |-> "idle", todo |-> {}, entry |-> None, msg |-> None,
               fetched |-> 0, dev |-> None, id |-> None, accepted |-> FALSE]

VARIABLES
    outbox,         \* the sender's entry for each message
    seals,          \* how often a message was sealed
    pinned,         \* record version in the sender's peer book, 0 if removed
    forgets,        \* how often the recipient was removed from it
    mine,           \* the registry names this sender device as active
    current,        \* device_current of the sender
    thread,         \* the sender's threads
    net,            \* delivery frames under way
    acks,           \* acknowledgements under way
    registry,       \* version of the recipient's record in the registry
    deviceCurrent,  \* device_current of each recipient device
    serving,        \* the frame each recipient device is serving
    served,         \* it was accepted and its reply is still to be sent
    inbox,          \* delivery ids a device has accepted
    rows            \* rows of a message in a device's transcript

senderVars == <<outbox, seals, pinned, forgets, mine, current, thread>>
recipientVars == <<registry, deviceCurrent, serving, served, inbox, rows>>
vars == <<outbox, seals, pinned, forgets, mine, current, thread, net, acks,
          registry, deviceCurrent, serving, served, inbox, rows>>

TypeOK ==
    /\ outbox \in [Messages -> Entry]
    /\ seals \in [Messages -> Nat]
    /\ pinned \in Versions \cup {0}
    /\ forgets \in 0..MaxForgets
    /\ mine \in BOOLEAN
    /\ current \in BOOLEAN
    /\ thread \in [Threads -> Thread]
    /\ net \subseteq Ids
    /\ acks \subseteq Ids
    /\ registry \in Versions
    /\ deviceCurrent \in [Devices -> BOOLEAN]
    /\ serving \in [Devices -> Ids \cup {None}]
    /\ served \in [Devices -> BOOLEAN]
    /\ inbox \in [Devices -> SUBSET Ids]
    /\ rows \in [Devices -> [Messages -> Nat]]

(* The recipient is a contact: its first record is in the peer book.       *)
Init ==
    /\ outbox = [m \in Messages |-> NoEntry]
    /\ seals = [m \in Messages |-> 0]
    /\ pinned = 1
    /\ forgets = 0
    /\ mine = TRUE
    /\ current = TRUE
    /\ thread = [t \in Threads |-> IdleThread]
    /\ net = {}
    /\ acks = {}
    /\ registry = 1
    /\ deviceCurrent = [d \in Devices |-> TRUE]
    /\ serving = [d \in Devices |-> None]
    /\ served = [d \in Devices |-> FALSE]
    /\ inbox = [d \in Devices |-> {}]
    /\ rows = [d \in Devices |-> [m \in Messages |-> 0]]

-----------------------------------------------------------------------------
(* The outbox (engine/outbox.rs).                                          *)

IsPending(e) == e.status = "pending" /\ e.item

(* The same entry in a final state, without its material.                  *)
Erased(e, status) == [e EXCEPT !.status = status, !.item = FALSE,
                               !.plain = FALSE, !.due = TRUE]

(* record_attempt: only a pending entry takes a result.                    *)
RecordAttempt(id, accepted) ==
    LET e == outbox[id.msg]
    IN  outbox' = IF e.id # id \/ ~ IsPending(e) THEN outbox
                  ELSE [outbox EXCEPT ![id.msg] =
                          IF accepted THEN Erased(e, "delivered")
                                      ELSE [e EXCEPT !.due = FALSE]]

(* mark_failed: set_status does not look at the status it replaces.        *)
MarkFailed(id) ==
    LET e == outbox[id.msg]
    IN  outbox' = IF e.id # id THEN outbox
                  ELSE [outbox EXCEPT ![id.msg] = Erased(e, "failed")]

(* A record of version v reaches the peer book, where anti-rollback pins   *)
(* let it replace only an older one.                                       *)
Pin(v) == IF v >= pinned THEN v ELSE pinned

(* Mutant of Apply: the fetched record is not stored.                      *)
ApplyNothing(v) == pinned

(* apply_registry_record: only for a person the peer book knows.           *)
Apply(v) == IF pinned = 0 \/ v = 0 THEN pinned ELSE Pin(v)

-----------------------------------------------------------------------------
(* The sender's threads.                                                   *)

SetThread(t, th) == thread' = [thread EXCEPT ![t] = th]

(* A send fetches the recipient's record before it takes the store lock.   *)
StartSend(t, m, v) ==
    /\ thread[t].pc = "idle"
    /\ current
    /\ outbox[m].status = "unsent"
    /\ \A u \in Threads : thread[u].msg # m
    /\ v \in {0, registry}
    /\ SetThread(t, [IdleThread EXCEPT !.pc = "park", !.msg = m, !.fetched = v])
    /\ UNCHANGED <<outbox, seals, pinned, forgets, mine, current, net, acks,
                   recipientVars>>

(* One lock scope: apply the record, seal, park in the outbox, commit.     *)
Park(t) ==
    LET m == thread[t].msg
        v == Apply(thread[t].fetched)
        id == [msg |-> m, seal |-> seals[m] + 1, dev |-> ActiveDevice[v]]
    IN
    /\ thread[t].pc = "park"
    /\ pinned' = v
    /\ IF v = 0
         THEN /\ SetThread(t, IdleThread)
              /\ UNCHANGED <<outbox, seals>>
         ELSE /\ outbox' = [outbox EXCEPT ![m] =
                    [status |-> "pending", id |-> id, item |-> TRUE,
                     plain |-> m \in Resealable, due |-> TRUE]]
              /\ seals' = [seals EXCEPT ![m] = seals[m] + 1]
              /\ SetThread(t, [IdleThread EXCEPT !.pc = "push", !.id = id])
    /\ UNCHANGED <<forgets, mine, current, net, acks, recipientVars>>

(* The background worker, if this device is still the active one.          *)
StartFlush(t) ==
    /\ thread[t].pc = "idle"
    /\ current
    /\ SetThread(t, [IdleThread EXCEPT !.pc = "snapshot"])
    /\ UNCHANGED <<outbox, seals, pinned, forgets, mine, current, net, acks,
                   recipientVars>>

(* The user's retry: make_all_due, then the same flush.                    *)
StartRetry(t) ==
    /\ thread[t].pc = "idle"
    /\ current
    /\ outbox' = [m \in Messages |->
                    IF IsPending(outbox[m]) THEN [outbox[m] EXCEPT !.due = TRUE]
                                            ELSE outbox[m]]
    /\ SetThread(t, [IdleThread EXCEPT !.pc = "snapshot"])
    /\ UNCHANGED <<seals, pinned, forgets, mine, current, net, acks,
                   recipientVars>>

(* flush_shared_outbox copies the entries that are due, ...                *)
Snapshot(t) ==
    /\ thread[t].pc = "snapshot"
    /\ SetThread(t, [IdleThread EXCEPT
          !.pc = "loop",
          !.todo = {[id |-> e.id, plain |-> e.plain] :
                      e \in {outbox[m] : m \in {n \in Messages :
                               IsPending(outbox[n]) /\ outbox[n].due}}}])
    /\ UNCHANGED <<outbox, seals, pinned, forgets, mine, current, net, acks,
                   recipientVars>>

(* ... and tries each of them: it asks the registry for the record, ...    *)
Fetch(t, e, v) ==
    /\ thread[t].pc = "loop"
    /\ e \in thread[t].todo
    /\ v \in {0, registry}
    /\ SetThread(t, [IdleThread EXCEPT !.pc = "lookup",
                                       !.todo = thread[t].todo \ {e},
                                       !.entry = e, !.fetched = v])
    /\ UNCHANGED <<outbox, seals, pinned, forgets, mine, current, net, acks,
                   recipientVars>>

(* ... applies it and reads the peer book (two lock scopes that only raise *)
(* pinned between them); without a record the attempt has failed.          *)
Lookup(t) ==
    LET v == Apply(thread[t].fetched)
    IN
    /\ thread[t].pc = "lookup"
    /\ pinned' = v
    /\ SetThread(t, IF v = 0
         THEN [thread[t] EXCEPT !.pc = "record", !.id = thread[t].entry.id,
                                !.entry = None, !.fetched = 0]
         ELSE [thread[t] EXCEPT !.pc = "prepare", !.dev = ActiveDevice[v],
                                !.fetched = 0])
    /\ UNCHANGED <<outbox, seals, forgets, mine, current, net, acks,
                   recipientVars>>

Loop(t) == [IdleThread EXCEPT !.pc = "loop", !.todo = thread[t].todo]

PushOf(t, id) == [Loop(t) EXCEPT !.pc = "push", !.id = id]

(* The entry was sealed for the active device: push it as it is.           *)
PrepareSame(t) ==
    /\ thread[t].pc = "prepare"
    /\ thread[t].dev = thread[t].entry.id.dev
    /\ SetThread(t, PushOf(t, thread[t].entry.id))
    /\ UNCHANGED <<outbox, seals, pinned, forgets, mine, current, net, acks,
                   recipientVars>>

(* Another device is active and the entry cannot be resealed.              *)
PrepareFailed(t) ==
    /\ thread[t].pc = "prepare"
    /\ thread[t].dev # thread[t].entry.id.dev
    /\ ~ thread[t].entry.plain
    /\ MarkFailed(thread[t].entry.id)
    /\ SetThread(t, Loop(t))
    /\ UNCHANGED <<seals, pinned, forgets, mine, current, net, acks,
                   recipientVars>>

(* Mutant of PrepareReseal: an entry that is no longer the copied one has  *)
(* failed.                                                                 *)
PrepareResealElseFailed(t) ==
    LET old == thread[t].entry.id
        m == old.msg
        new == [msg |-> m, seal |-> seals[m] + 1, dev |-> thread[t].dev]
    IN
    /\ thread[t].pc = "prepare"
    /\ thread[t].dev # old.dev
    /\ thread[t].entry.plain
    /\ IF outbox[m].id = old /\ IsPending(outbox[m])
         THEN /\ outbox' = [outbox EXCEPT ![m].id = new, ![m].due = TRUE]
              /\ seals' = [seals EXCEPT ![m] = seals[m] + 1]
              /\ SetThread(t, PushOf(t, new))
         ELSE /\ MarkFailed(old)
              /\ SetThread(t, Loop(t))
              /\ UNCHANGED seals
    /\ UNCHANGED <<pinned, forgets, mine, current, net, acks, recipientVars>>

(* Mutant of PrepareReseal: the entry may have been completed.             *)
PrepareResealAnyStatus(t) ==
    LET old == thread[t].entry.id
        m == old.msg
        new == [msg |-> m, seal |-> seals[m] + 1, dev |-> thread[t].dev]
    IN
    /\ thread[t].pc = "prepare"
    /\ thread[t].dev # old.dev
    /\ thread[t].entry.plain
    /\ IF outbox[m].id = old
         THEN /\ outbox' = [outbox EXCEPT ![m].id = new, ![m].due = TRUE]
              /\ seals' = [seals EXCEPT ![m] = seals[m] + 1]
              /\ SetThread(t, PushOf(t, new))
         ELSE /\ SetThread(t, Loop(t))
              /\ UNCHANGED <<outbox, seals>>
    /\ UNCHANGED <<pinned, forgets, mine, current, net, acks, recipientVars>>

(* Reseal for the active device and replace the entry (readdress_pending), *)
(* unless it was completed or readdressed in the meantime.  The error arm  *)
(* of readdressing, which marks the entry failed, cannot be taken here: an *)
(* entry with its plaintext is a pairwise item of the identity that opened *)
(* the store, and the fetched record was verified.                         *)
PrepareReseal(t) ==
    LET old == thread[t].entry.id
        m == old.msg
        new == [msg |-> m, seal |-> seals[m] + 1, dev |-> thread[t].dev]
    IN
    /\ thread[t].pc = "prepare"
    /\ thread[t].dev # old.dev
    /\ thread[t].entry.plain
    /\ IF outbox[m].id = old /\ IsPending(outbox[m])
         THEN /\ outbox' = [outbox EXCEPT ![m].id = new, ![m].due = TRUE]
              /\ seals' = [seals EXCEPT ![m] = seals[m] + 1]
              /\ SetThread(t, PushOf(t, new))
         ELSE /\ SetThread(t, Loop(t))
              /\ UNCHANGED <<outbox, seals>>
    /\ UNCHANGED <<pinned, forgets, mine, current, net, acks, recipientVars>>

(* direct_push sends the frame and waits for a reply, ...                  *)
Push(t) ==
    /\ thread[t].pc = "push"
    /\ net' = net \cup {thread[t].id}
    /\ SetThread(t, [thread[t] EXCEPT !.pc = "wait"])
    /\ UNCHANGED <<outbox, seals, pinned, forgets, mine, current, acks,
                   recipientVars>>

(* ... but not for ever.                                                   *)
Timeout(t) ==
    /\ thread[t].pc = "wait"
    /\ SetThread(t, [thread[t] EXCEPT !.pc = "record"])
    /\ UNCHANGED <<outbox, seals, pinned, forgets, mine, current, net, acks,
                   recipientVars>>

Record(t) ==
    /\ thread[t].pc = "record"
    /\ RecordAttempt(thread[t].id, thread[t].accepted)
    /\ SetThread(t, Loop(t))
    /\ UNCHANGED <<seals, pinned, forgets, mine, current, net, acks,
                   recipientVars>>

FinishFlush(t) ==
    /\ thread[t].pc = "loop"
    /\ thread[t].todo = {}
    /\ SetThread(t, IdleThread)
    /\ UNCHANGED <<outbox, seals, pinned, forgets, mine, current, net, acks,
                   recipientVars>>

-----------------------------------------------------------------------------
(* The sender's other steps.                                               *)

(* The retry delay of a pending entry passes.                              *)
Elapse(m) ==
    /\ IsPending(outbox[m])
    /\ ~ outbox[m].due
    /\ outbox' = [outbox EXCEPT ![m].due = TRUE]
    /\ UNCHANGED <<seals, pinned, forgets, mine, current, thread, net, acks,
                   recipientVars>>

(* No other process has the store open: FileStore locks its directory.     *)
Alone == \A t \in Threads : thread[t].pc = "idle"

(* cancel_outbox changes the status and the schedule, and nothing else.    *)
Cancel(m) ==
    /\ Cancels
    /\ Alone
    /\ IsPending(outbox[m])
    /\ outbox' = [outbox EXCEPT ![m].status = "cancelled", ![m].due = TRUE]
    /\ UNCHANGED <<seals, pinned, forgets, mine, current, thread, net, acks,
                   recipientVars>>

(* remove_record: the peer book forgets the record and its pins.           *)
Forget ==
    /\ Alone
    /\ pinned # 0
    /\ forgets < MaxForgets
    /\ pinned' = 0
    /\ forgets' = forgets + 1
    /\ UNCHANGED <<outbox, seals, mine, current, thread, net, acks,
                   recipientVars>>

(* A signed record of the recipient arrives on another way: a connection   *)
(* card, or the envelope of a message.                                     *)
Learn(v) ==
    /\ v \in 1..registry
    /\ v > pinned
    /\ pinned' = v
    /\ UNCHANGED <<outbox, seals, forgets, mine, current, thread, net, acks,
                   recipientVars>>

(* The sender's user activates another device, or this one again, ...      *)
MoveSender ==
    /\ SenderMoves
    /\ mine' = ~ mine
    /\ current' = (current \/ mine')
    /\ UNCHANGED <<outbox, seals, pinned, forgets, thread, net, acks,
                   recipientVars>>

(* ... and the monitor thread sees it in the registry.                     *)
PollSender ==
    /\ current # mine
    /\ current' = mine
    /\ UNCHANGED <<outbox, seals, pinned, forgets, mine, thread, net, acks,
                   recipientVars>>

(* The sender's process dies and is started again.                         *)
CrashSender ==
    /\ Crashes
    /\ ~ Alone
    /\ thread' = [t \in Threads |-> IdleThread]
    /\ current' = TRUE
    /\ UNCHANGED <<outbox, seals, pinned, forgets, mine, net, acks,
                   recipientVars>>

-----------------------------------------------------------------------------
(* The network (Reticulum).                                                *)

LoseFrame(id) ==
    /\ id \in net
    /\ net' = net \ {id}
    /\ UNCHANGED <<senderVars, acks, recipientVars>>

(* A reply reaches a link.  Threads that talk to the same device may share *)
(* it, and send_and_wait takes the first reply on it for its own: any of   *)
(* those waiting on that device may get this one (or none: it was lost).   *)
(* verify_delivery_ack then compares the delivery id.                      *)
Waiting(d) == {t \in Threads : thread[t].pc = "wait" /\ thread[t].id.dev = d}

(* Mutant of AckArrives: any acknowledgement of the device will do.        *)
AckArrivesAny(ack, ts) ==
    /\ ack \in acks
    /\ ts \subseteq Waiting(ack.dev)
    /\ acks' = acks \ {ack}
    /\ thread' = [t \in Threads |->
         IF t \in ts THEN [thread[t] EXCEPT !.pc = "record", !.accepted = TRUE]
                     ELSE thread[t]]
    /\ UNCHANGED <<outbox, seals, pinned, forgets, mine, current, net,
                   recipientVars>>

AckArrives(ack, ts) ==
    /\ ack \in acks
    /\ ts \subseteq Waiting(ack.dev)
    /\ acks' = acks \ {ack}
    /\ thread' = [t \in Threads |->
         IF t \in ts THEN [thread[t] EXCEPT !.pc = "record",
                                            !.accepted = (thread[t].id = ack)]
                     ELSE thread[t]]
    /\ UNCHANGED <<outbox, seals, pinned, forgets, mine, current, net,
                   recipientVars>>

-----------------------------------------------------------------------------
(* The recipient.                                                          *)

(* The user logs in on the next device, which publishes its record.        *)
SwitchDevice ==
    /\ registry < MaxVersion
    /\ registry' = registry + 1
    /\ deviceCurrent' = [deviceCurrent EXCEPT ![ActiveDevice[registry + 1]] = TRUE]
    /\ UNCHANGED <<senderVars, net, acks, serving, served, inbox, rows>>

(* The monitor thread of a device looks at the registry.                   *)
PollDevice(d) ==
    /\ deviceCurrent[d] # (ActiveDevice[registry] = d)
    /\ deviceCurrent' = [deviceCurrent EXCEPT ![d] = (ActiveDevice[registry] = d)]
    /\ UNCHANGED <<senderVars, net, acks, registry, serving, served, inbox, rows>>

(* The listener takes a frame; a replaced device drops it.                 *)
Receive(d, id) ==
    /\ serving[d] = None
    /\ id \in net
    /\ id.dev = d
    /\ net' = net \ {id}
    /\ serving' = IF deviceCurrent[d] THEN [serving EXCEPT ![d] = id] ELSE serving
    /\ UNCHANGED <<senderVars, acks, registry, deviceCurrent, served, inbox, rows>>

(* Mutant of Accept: only the delivery id is checked for repetition.       *)
AcceptById(d) ==
    LET id == serving[d]
    IN
    /\ id # None
    /\ ~ served[d]
    /\ inbox' = [inbox EXCEPT ![d] = @ \cup {id}]
    /\ rows' = IF id \notin inbox[d] THEN [rows EXCEPT ![d][id.msg] = @ + 1]
                                     ELSE rows
    /\ served' = [served EXCEPT ![d] = TRUE]
    /\ UNCHANGED <<senderVars, net, acks, registry, deviceCurrent, serving>>

(* Mutant of Accept: the transcript is not part of the transaction.        *)
AcceptIdOnly(d) ==
    LET id == serving[d]
    IN
    /\ id # None
    /\ ~ served[d]
    /\ inbox' = [inbox EXCEPT ![d] = @ \cup {id}]
    /\ served' = [served EXCEPT ![d] = TRUE]
    /\ UNCHANGED <<senderVars, net, acks, registry, deviceCurrent, serving, rows>>

(* accept_delivery: a known id is acknowledged again; a new one goes into  *)
(* the transcript, unless the message is there already, and into the inbox *)
(* in one transaction.                                                     *)
Accept(d) ==
    LET id == serving[d]
    IN
    /\ id # None
    /\ ~ served[d]
    /\ inbox' = [inbox EXCEPT ![d] = @ \cup {id}]
    /\ rows' = IF id \notin inbox[d] /\ rows[d][id.msg] = 0
                 THEN [rows EXCEPT ![d][id.msg] = 1]
                 ELSE rows
    /\ served' = [served EXCEPT ![d] = TRUE]
    /\ UNCHANGED <<senderVars, net, acks, registry, deviceCurrent, serving>>

(* The reply is sent after the commit.                                     *)
Reply(d) ==
    /\ served[d]
    /\ acks' = acks \cup {serving[d]}
    /\ serving' = [serving EXCEPT ![d] = None]
    /\ served' = [served EXCEPT ![d] = FALSE]
    /\ UNCHANGED <<senderVars, net, registry, deviceCurrent, inbox, rows>>

(* The frame is refused (the sender is blocked or changed identity, the    *)
(* transaction failed) without a reply.                                    *)
Refuse(d) ==
    /\ serving[d] # None
    /\ ~ served[d]
    /\ serving' = [serving EXCEPT ![d] = None]
    /\ UNCHANGED <<senderVars, net, acks, registry, deviceCurrent, served, inbox,
                   rows>>

(* The device dies, perhaps before it replies, and is started again: it    *)
(* takes itself for the active one.                                        *)
CrashDevice(d) ==
    /\ Crashes
    /\ serving[d] # None \/ ~ deviceCurrent[d]
    /\ serving' = [serving EXCEPT ![d] = None]
    /\ served' = [served EXCEPT ![d] = FALSE]
    /\ deviceCurrent' = [deviceCurrent EXCEPT ![d] = TRUE]
    /\ UNCHANGED <<senderVars, net, acks, registry, inbox, rows>>

-----------------------------------------------------------------------------
ThreadStep(t) ==
    \/ Park(t) \/ Snapshot(t)
    \/ \E e \in thread[t].todo, v \in {0, registry} : Fetch(t, e, v)
    \/ Lookup(t) \/ PrepareSame(t) \/ PrepareFailed(t) \/ PrepareReseal(t)
    \/ Push(t) \/ Record(t) \/ FinishFlush(t)

Next ==
    \/ \E t \in Threads :
          \/ \E m \in Messages, v \in {0, registry} : StartSend(t, m, v)
          \/ StartFlush(t)
          \/ StartRetry(t)
          \/ ThreadStep(t)
          \/ Timeout(t)
    \/ \E m \in Messages : Elapse(m) \/ Cancel(m)
    \/ Forget
    \/ \E v \in Versions : Learn(v)
    \/ MoveSender \/ PollSender \/ CrashSender
    \/ \E id \in net : LoseFrame(id)
    \/ \E ack \in acks : \E ts \in SUBSET Waiting(ack.dev) : AckArrives(ack, ts)
    \/ SwitchDevice
    \/ \E d \in Devices :
          \/ PollDevice(d)
          \/ \E id \in net : Receive(d, id)
          \/ Accept(d) \/ Reply(d) \/ Refuse(d) \/ CrashDevice(d)

Spec == Init /\ [][Next]_vars
-----------------------------------------------------------------------------
(* Properties.                                                             *)

Held(m) == \E d \in Devices : rows[d][m] > 0

(* A message that can be resealed is never lost: until the user cancels    *)
(* it, it is pending with all that a retry needs, or a device of the       *)
(* recipient has it in its transcript.  Whatever the flushes, crashes,     *)
(* device switches and replies taken for another's (flush_shared_outbox).  *)
NeverLost == \A m \in Resealable :
    outbox[m].status # "unsent" =>
       \/ IsPending(outbox[m]) /\ outbox[m].plain
       \/ outbox[m].status = "delivered" /\ Held(m)
       \/ outbox[m].status = "cancelled"

(* A delivered status is proof of receipt: the device that the entry was   *)
(* sealed for has committed that delivery id (attempt_parked_delivery).    *)
DeliveredAccepted == \A m \in Messages :
    outbox[m].status = "delivered" => outbox[m].id \in inbox[outbox[m].id.dev]

(* A message is in a transcript once, even when it was resealed for a      *)
(* device that already had it (inbox::seen, history::append).              *)
NoDuplicates == \A d \in Devices, m \in Messages : rows[d][m] <= 1

(* A delivered or failed entry keeps neither ciphertext nor plaintext,     *)
(* whatever late results of other flushes follow (set_status,              *)
(* record_attempt).                                                        *)
FinalErased == \A m \in Messages :
    outbox[m].status \in {"delivered", "failed"} =>
       ~ outbox[m].item /\ ~ outbox[m].plain

(* So does an entry that the user cancelled (cancel_outbox).               *)
CancelledErased == \A m \in Messages :
    outbox[m].status = "cancelled" => ~ outbox[m].item /\ ~ outbox[m].plain

(* A message never comes back from a final status: no late result of a     *)
(* second flush changes the entry (record_attempt, readdress_pending).     *)
KeepsFinal(m) == outbox[m].status \in Final => outbox'[m] = outbox[m]
FinalIsFinal == [][\A m \in Resealable : KeepsFinal(m)]_vars

(* The same of entries that cannot be resealed.  It fails: a flush marks   *)
(* such an entry failed from its copy, whatever another flush has made of  *)
(* the entry since (mark_failed in flush_shared_outbox).                   *)
OldFinalIsFinal == [][\A m \in Messages \ Resealable : KeepsFinal(m)]_vars

(* The outbox, the network and the devices implement MessageDelivery: a    *)
(* message is marked delivered only when some device holds it.             *)
Promise == INSTANCE MessageDelivery
             WITH status <- [m \in Messages |-> outbox[m].status],
                  held <- [m \in Messages |-> {d \in Devices : rows[d][m] > 0}]
ImplementsDelivery == Promise!Spec

(* The worker keeps flushing, every thread and every listener keeps        *)
(* running, and retry delays pass.  Of the network and the recipient:      *)
(* among attempts repeated for ever, some are answered before the sender   *)
(* stops waiting.                                                          *)
InTime(id) == \E t \in Threads : thread[t].pc = "wait" /\ thread[t].id = id
FreshFetch(t) == \E e \in thread[t].todo : Fetch(t, e, registry)
ReceiveInTime == \E d \in Devices, id \in net : InTime(id) /\ Receive(d, id)
AcceptInTime == \E d \in Devices : InTime(serving[d]) /\ Accept(d)
ReplyInTime == \E d \in Devices : InTime(serving[d]) /\ Reply(d)
AckInTime == \E ack \in acks : \E ts \in SUBSET Waiting(ack.dev) :
    (\E t \in ts : thread[t].id = ack) /\ AckArrives(ack, ts)

FairSpec ==
    /\ Spec
    /\ WF_vars(\E t \in Threads : StartFlush(t))
    /\ \A t \in Threads : WF_vars(ThreadStep(t)) /\ WF_vars(Timeout(t))
    /\ \A m \in Messages : WF_vars(Elapse(m))
    /\ \A d \in Devices : WF_vars(Accept(d) \/ Reply(d) \/ Refuse(d))
    /\ SF_vars(\E t \in Threads : FreshFetch(t))
    /\ SF_vars(ReceiveInTime) /\ SF_vars(AcceptInTime)
    /\ SF_vars(ReplyInTime) /\ SF_vars(AckInTime)

(* A pending message that can be resealed is delivered in the end, however *)
(* often attempts fail and wherever the recipient has moved.               *)
PendingDelivered == \A m \in Resealable :
    outbox[m].status = "pending" ~> outbox[m].status = "delivered"
-----------------------------------------------------------------------------
(* The inductive invariant of Delivery_proof.                              *)

Sent(m) == outbox[m].status # "unsent"

(* An outbox entry e of message m: its id is of that message, a pending    *)
(* one has all it needs, a completed one has nothing left, and a delivered *)
(* one was committed by its device.                                        *)
EntryInv(m, e) ==
    /\ e.status # "unsent" => e.id \in Ids /\ e.id.msg = m
    /\ e.status = "pending" => e.item
    /\ e.status = "pending" /\ m \in Resealable => e.plain
    /\ m \in Resealable => e.status # "failed"
    /\ e.status \in {"delivered", "failed"} => ~ e.item /\ ~ e.plain
    /\ e.status = "delivered" => e.id \in inbox[e.id.dev]

(* What a copied entry still tells of its message.                         *)
CopyInv(c) == /\ Sent(c.id.msg)
              /\ c.id.msg \in Resealable => c.plain

(* What each control state of a thread implies; an acknowledgement is      *)
(* believed only for an id that its device has committed.                  *)
ThreadInv(th) ==
    /\ \A c \in th.todo : CopyInv(c)
    /\ th.pc \in {"lookup", "prepare"} => th.entry \in Copy /\ CopyInv(th.entry)
    /\ th.pc = "prepare" => th.dev \in Devices
    /\ th.pc \in {"push", "wait", "record"} => th.id \in Ids /\ Sent(th.id.msg)
    /\ th.msg # None <=> th.pc = "park"
    /\ th.pc = "park" => ~ Sent(th.msg)
    /\ th.accepted => th.pc = "record" /\ th.id \in inbox[th.id.dev]

(* A message is being sent by one thread.                                  *)
ParkInv == \A t, u \in Threads :
    thread[t].pc = "park" /\ thread[u].msg = thread[t].msg => u = t

(* Frames are of messages that were sent, and acknowledgements of ids that *)
(* the device has committed.                                               *)
WireInv ==
    /\ \A id \in net : Sent(id.msg)
    /\ \A id \in acks : id \in inbox[id.dev]

ServeInv(d) ==
    /\ serving[d] # None => serving[d].dev = d /\ Sent(serving[d].msg)
    /\ served[d] => serving[d] # None /\ serving[d] \in inbox[d]

(* A committed id has its message in the transcript, once.                 *)
RowsInv(d) ==
    /\ \A id \in inbox[d] : rows[d][id.msg] > 0
    /\ \A m \in Messages : rows[d][m] <= 1

DeliveryInv ==
    /\ TypeOK
    /\ \A m \in Messages : EntryInv(m, outbox[m])
    /\ \A t \in Threads : ThreadInv(thread[t])
    /\ ParkInv
    /\ WireInv
    /\ \A d \in Devices : ServeInv(d) /\ RowsInv(d)

(* A copied entry is still what the outbox has.                            *)
Fresh(c) == /\ IsPending(outbox[c.id.msg])
            /\ outbox[c.id.msg].id = c.id
            /\ outbox[c.id.msg].plain = c.plain

(* With a single flusher nothing happens to an entry between its copy and  *)
(* its turn: the copies still to try are fresh and are of other messages   *)
(* than the one being tried.                                               *)
FlusherInv(th) ==
    /\ \A c \in th.todo : Fresh(c)
    /\ th.pc \in {"idle", "snapshot", "park"} => th.todo = {}
    /\ th.pc \in {"lookup", "prepare"} =>
          Fresh(th.entry) /\ \A c \in th.todo : c.id.msg # th.entry.id.msg
    /\ th.pc \in {"push", "wait", "record"} =>
          \A c \in th.todo : c.id.msg # th.id.msg

SoloInv == \A t \in Threads : FlusherInv(thread[t])
=============================================================================
