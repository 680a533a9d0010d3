--------------------------- MODULE Delivery_proof ---------------------------
(***************************************************************************)
(* Proofs about Delivery, for every set of messages, devices and threads   *)
(* and every sequence of device switches.                                  *)
(***************************************************************************)
EXTENDS Delivery, TLAPS

(* Messages stay sent and ids stay committed.                              *)
Grows == /\ \A m \in Messages : Sent(m) => Sent(m)'
         /\ \A d \in Devices : inbox[d] \subseteq inbox'[d]

(* A thread that does not move stays well-formed while messages stay sent, *)
(* ids stay committed and the message it is about to park is not sent.     *)
LEMMA ThreadStable ==
    ASSUME NEW u \in Threads, thread[u] \in Thread, ThreadInv(thread[u]), Grows,
           thread'[u] = thread[u],
           thread[u].pc = "park" => ~ Sent(thread[u].msg)'
    PROVE  ThreadInv(thread[u])'
<1>1. \A c \in Copy : CopyInv(c) => CopyInv(c)'
  BY DEF CopyInv, Copy, Ids, Grows
<1>2. thread[u].todo \subseteq Copy /\ thread[u].id \in Ids \cup {None}
  BY DEF Thread
<1>3. \A id \in Ids : id.msg \in Messages /\ id.dev \in Devices
  BY DEF Ids
<1>4. thread[u].accepted => thread[u].id \in Ids
  BY DEF ThreadInv
<1> QED
  BY <1>1, <1>2, <1>3, <1>4 DEF ThreadInv, Grows

(* One thread moves to a well-formed state and the others stay.            *)
LEMMA ReplaceThread ==
    ASSUME DeliveryInv, NEW t \in Threads, NEW th \in Thread,
           thread' = [thread EXCEPT ![t] = th],
           ThreadInv(thread[t])', Grows,
           \A u \in Threads \ {t} :
              /\ th.pc = "park" => thread[u].msg # th.msg
              /\ thread[u].pc = "park" =>
                    ~ Sent(thread[u].msg)' /\ th.msg # thread[u].msg
    PROVE  /\ thread' \in [Threads -> Thread]
           /\ \A u \in Threads : ThreadInv(thread[u])'
           /\ ParkInv'
<1>1. thread \in [Threads -> Thread]
  BY DEF DeliveryInv, TypeOK
<1>2. thread' \in [Threads -> Thread]
  BY <1>1
<1>3. \A u \in Threads : thread'[u] = IF u = t THEN th ELSE thread[u]
  BY <1>1
<1>4. ASSUME NEW u \in Threads PROVE ThreadInv(thread[u])'
  <2>1. CASE u = t
    BY <2>1
  <2>2. CASE u # t
    <3>1. ThreadInv(thread[u]) /\ thread[u] \in Thread
      BY <1>1 DEF DeliveryInv
    <3>2. thread'[u] = thread[u]
      BY <2>2, <1>3
    <3>3. thread[u].pc = "park" => ~ Sent(thread[u].msg)'
      BY <2>2
    <3> QED
      BY <3>1, <3>2, <3>3, ThreadStable
  <2> QED
    BY <2>1, <2>2
<1>5. ParkInv'
  BY <1>3 DEF ParkInv, DeliveryInv
<1> QED
  BY <1>2, <1>4, <1>5

(* The common case: outbox and inboxes stay, and the new state does not    *)
(* park.                                                                   *)
LEMMA MoveThread ==
    ASSUME DeliveryInv, NEW t \in Threads, NEW th \in Thread,
           thread' = [thread EXCEPT ![t] = th], UNCHANGED <<outbox, inbox>>,
           th.pc # "park", th.msg = None,
           ThreadInv(thread[t])'
    PROVE  /\ thread' \in [Threads -> Thread]
           /\ \A u \in Threads : ThreadInv(thread[u])'
           /\ ParkInv'
<1>1. Grows
  BY DEF Grows, Sent
<1>2. \A u \in Threads \ {t} : thread'[u] = thread[u]
  BY DEF DeliveryInv, TypeOK
<1>3. \A u \in Threads \ {t} : thread[u].pc = "park" =>
         ~ Sent(thread[u].msg)' /\ thread[u].msg # None
  BY <1>2 DEF DeliveryInv, ThreadInv, Sent
<1> QED
  BY <1>1, <1>3, ReplaceThread

(* A thread without work is well-formed.                                   *)
LEMMA IdleType == IdleThread \in Thread
  BY DEF IdleThread, Thread, Pcs


(* What a step keeps when it touches only the sender's threads and flags.  *)
LEMMA SenderOnly ==
    ASSUME DeliveryInv, UNCHANGED <<outbox, seals, net, acks, recipientVars>>,
           pinned' \in Versions \cup {0}, forgets' \in 0..MaxForgets,
           mine' \in BOOLEAN, current' \in BOOLEAN,
           thread' \in [Threads -> Thread],
           \A u \in Threads : ThreadInv(thread[u])', ParkInv'
    PROVE  DeliveryInv'
<1>1. TypeOK'
  BY DEF DeliveryInv, TypeOK, recipientVars
<1>2. \A m \in Messages : EntryInv(m, outbox[m])'
  BY DEF DeliveryInv, EntryInv, recipientVars
<1>3. WireInv'
  BY DEF DeliveryInv, WireInv, Sent, recipientVars
<1>4. \A d \in Devices : ServeInv(d)' /\ RowsInv(d)'
  BY DEF DeliveryInv, ServeInv, RowsInv, Sent, recipientVars
<1> QED
  BY <1>1, <1>2, <1>3, <1>4 DEF DeliveryInv

(* StartSend and the steps of a flush that read.                           *)
LEMMA StartSendStep ==
    ASSUME DeliveryInv, NEW t \in Threads, NEW m \in Messages,
           NEW v \in {0, registry}, StartSend(t, m, v)
    PROVE  DeliveryInv'
<1> DEFINE th == [IdleThread EXCEPT !.pc = "park", !.msg = m, !.fetched = v]
<1>1. th \in Thread
  BY DEF IdleThread, Thread, Pcs, DeliveryInv, TypeOK
<1>2. /\ th.pc = "park" /\ th.msg = m /\ th.todo = {} /\ ~ th.accepted
      /\ thread' = [thread EXCEPT ![t] = th]
      /\ UNCHANGED <<outbox, seals, pinned, forgets, mine, current, net, acks,
                     recipientVars>>
      /\ ~ Sent(m)
      /\ \A u \in Threads : thread[u].msg # m
  BY DEF StartSend, SetThread, IdleThread, Sent
<1> HIDE DEF th
<1>3. Grows
  BY <1>2 DEF Grows, Sent, recipientVars
<1>4. \A u \in Threads : thread'[u] = IF u = t THEN th ELSE thread[u]
  BY <1>2 DEF DeliveryInv, TypeOK
<1>5. ThreadInv(thread[t])'
  BY <1>2, <1>4, NoneAssumption DEF ThreadInv, Sent
<1>6. \A u \in Threads \ {t} : thread[u].pc = "park" => ~ Sent(thread[u].msg)'
  BY <1>2, <1>4 DEF DeliveryInv, ThreadInv, Sent
<1>7. /\ thread' \in [Threads -> Thread]
      /\ \A u \in Threads : ThreadInv(thread[u])'
      /\ ParkInv'
  BY <1>1, <1>2, <1>3, <1>5, <1>6, ReplaceThread
<1> QED
  BY <1>2, <1>7, SenderOnly DEF DeliveryInv, TypeOK

(* One thread moves, and nothing else changes but the peer book.           *)
LEMMA MoveStep ==
    ASSUME DeliveryInv, NEW t \in Threads, NEW th \in Thread,
           thread' = [thread EXCEPT ![t] = th],
           th.pc # "park", th.msg = None, ThreadInv(thread[t])',
           UNCHANGED <<outbox, seals, forgets, mine, current, net, acks,
                       recipientVars>>,
           pinned' \in Versions \cup {0}
    PROVE  DeliveryInv'
<1>1. /\ thread' \in [Threads -> Thread]
      /\ \A u \in Threads : ThreadInv(thread[u])'
      /\ ParkInv'
  BY MoveThread DEF recipientVars
<1> QED
  BY <1>1, SenderOnly DEF DeliveryInv, TypeOK

(* StartFlush keeps the invariant.                                         *)
LEMMA FlushStart ==
    ASSUME DeliveryInv, NEW t \in Threads, StartFlush(t)
    PROVE  DeliveryInv'
<1> DEFINE th == [IdleThread EXCEPT !.pc = "snapshot"]
<1>1. th \in Thread
  BY DEF IdleThread, Thread, Pcs
<1>2. /\ th.pc = "snapshot" /\ th.msg = None /\ th.todo = {} /\ ~ th.accepted
      /\ thread' = [thread EXCEPT ![t] = th]
      /\ UNCHANGED <<outbox, seals, forgets, mine, current, net, acks,
                     recipientVars>>
      /\ pinned' \in Versions \cup {0}
  BY DEF StartFlush, SetThread, IdleThread, DeliveryInv, TypeOK
<1>3. thread[t] \in Thread /\ ThreadInv(thread[t])
  BY DEF DeliveryInv, TypeOK
<1> HIDE DEF th
<1>4. thread'[t] = th
  BY <1>2 DEF DeliveryInv, TypeOK
<1>5. ThreadInv(thread[t])'
  BY <1>2, <1>4 DEF ThreadInv
<1> QED
  BY <1>1, <1>2, <1>5, MoveStep

(* A copied entry is pending, so a resealable one has its plaintext.       *)
LEMMA SnapshotStep ==
    ASSUME DeliveryInv, NEW t \in Threads, Snapshot(t)
    PROVE  DeliveryInv'
<1> DEFINE th == [IdleThread EXCEPT
          !.pc = "loop",
          !.todo = {[id |-> e.id, plain |-> e.plain] :
                      e \in {outbox[m] : m \in {n \in Messages :
                               IsPending(outbox[n]) /\ outbox[n].due}}}]
<1>0. ASSUME NEW m \in Messages, IsPending(outbox[m])
      PROVE  /\ [id |-> outbox[m].id, plain |-> outbox[m].plain] \in Copy
             /\ CopyInv([id |-> outbox[m].id, plain |-> outbox[m].plain])
  <2>1. /\ outbox[m].status = "pending" /\ outbox[m].id \in Ids
        /\ outbox[m].id.msg = m /\ outbox[m].plain \in BOOLEAN
        /\ m \in Resealable => outbox[m].plain
    BY <1>0 DEF DeliveryInv, TypeOK, EntryInv, IsPending, Entry
  <2>2. [id |-> outbox[m].id, plain |-> outbox[m].plain] \in Copy
    BY <2>1 DEF Copy
  <2>3. CopyInv([id |-> outbox[m].id, plain |-> outbox[m].plain])
    BY <2>1 DEF CopyInv, Sent
  <2> QED
    BY <2>2, <2>3
<1>1. th \in Thread
  BY <1>0 DEF IdleThread, Thread, Pcs
<1>2. /\ th.pc = "loop" /\ th.msg = None /\ ~ th.accepted
      /\ thread' = [thread EXCEPT ![t] = th]
      /\ UNCHANGED <<outbox, seals, forgets, mine, current, net, acks,
                     recipientVars>>
      /\ pinned' \in Versions \cup {0}
  BY DEF Snapshot, SetThread, IdleThread, DeliveryInv, TypeOK
<1>3. thread[t] \in Thread /\ ThreadInv(thread[t])
  BY DEF DeliveryInv, TypeOK
<1>6. \A c \in th.todo : CopyInv(c)
  BY <1>0 DEF IdleThread
<1> HIDE DEF th
<1>4. thread'[t] = th
  BY <1>2 DEF DeliveryInv, TypeOK
<1>5. ThreadInv(thread[t])'
  BY <1>2, <1>4, <1>6 DEF ThreadInv, CopyInv, Sent
<1> QED
  BY <1>1, <1>2, <1>5, MoveStep

(* Fetch keeps the invariant.                                              *)
LEMMA FetchStep ==
    ASSUME DeliveryInv, NEW t \in Threads, NEW e \in thread[t].todo,
           NEW v \in {0, registry}, Fetch(t, e, v)
    PROVE  DeliveryInv'
<1> DEFINE th == [IdleThread EXCEPT !.pc = "lookup",
                                      !.todo = thread[t].todo \ {e},
                                      !.entry = e, !.fetched = v]
<1>1. th \in Thread
  BY DEF IdleThread, Thread, Pcs, DeliveryInv, TypeOK
<1>2. /\ th.pc = "lookup" /\ th.msg = None /\ ~ th.accepted
      /\ th.todo = thread[t].todo \ {e} /\ th.entry = e
      /\ thread' = [thread EXCEPT ![t] = th]
      /\ UNCHANGED <<outbox, seals, forgets, mine, current, net, acks,
                     recipientVars>>
      /\ pinned' \in Versions \cup {0}
  BY DEF Fetch, SetThread, IdleThread, DeliveryInv, TypeOK
<1>3. thread[t] \in Thread /\ ThreadInv(thread[t])
  BY DEF DeliveryInv, TypeOK
<1> HIDE DEF th
<1>4. thread'[t] = th
  BY <1>2 DEF DeliveryInv, TypeOK
<1>5. ThreadInv(thread[t])'
  BY <1>2, <1>3, <1>4 DEF ThreadInv, CopyInv, Sent, Thread
<1> QED
  BY <1>1, <1>2, <1>5, MoveStep

(* Lookup keeps the invariant.                                             *)
LEMMA LookupStep ==
    ASSUME DeliveryInv, NEW t \in Threads, Lookup(t)
    PROVE  DeliveryInv'
<1> DEFINE th == IF Apply(thread[t].fetched) = 0
     THEN [thread[t] EXCEPT !.pc = "record", !.id = thread[t].entry.id,
                            !.entry = None, !.fetched = 0]
     ELSE [thread[t] EXCEPT !.pc = "prepare",
                            !.dev = ActiveDevice[Apply(thread[t].fetched)],
                            !.fetched = 0]
<1>3. thread[t] \in Thread /\ ThreadInv(thread[t]) /\ thread[t].pc = "lookup"
  BY DEF DeliveryInv, TypeOK, Lookup
<1>7. /\ Apply(thread[t].fetched) \in Versions \cup {0}
      /\ thread[t].entry \in Copy
  BY <1>3, DeliveryAssumption DEF Apply, Pin, DeliveryInv, TypeOK, Versions,
                                 ThreadInv, Thread
<1>1. th \in Thread
  BY <1>3, <1>7, DeliveryAssumption DEF Thread, Pcs, Copy
<1>2. /\ th.pc \in {"record", "prepare"} /\ th.msg = thread[t].msg /\ ~ th.accepted
      /\ th.todo = thread[t].todo
      /\ th.pc = "record" => th.id = thread[t].entry.id
      /\ th.pc = "prepare" => th.entry = thread[t].entry /\ th.dev \in Devices
      /\ th.msg = None
      /\ thread' = [thread EXCEPT ![t] = th]
      /\ UNCHANGED <<outbox, seals, forgets, mine, current, net, acks,
                     recipientVars>>
      /\ pinned' \in Versions \cup {0}
  BY <1>3, <1>7, DeliveryAssumption DEF Lookup, SetThread, DeliveryInv, TypeOK, ThreadInv, Thread
<1> HIDE DEF th
<1>4. thread'[t] = th
  BY <1>2 DEF DeliveryInv, TypeOK
<1>5. ThreadInv(thread[t])'
  BY <1>2, <1>3, <1>4, <1>7 DEF ThreadInv, CopyInv, Sent, Copy
<1> QED
  BY <1>1, <1>2, <1>5, MoveStep

(* PrepareSame keeps the invariant.                                        *)
LEMMA PrepareSameStep ==
    ASSUME DeliveryInv, NEW t \in Threads, PrepareSame(t)
    PROVE  DeliveryInv'
<1> DEFINE th == PushOf(t, thread[t].entry.id)
<1>1. th \in Thread
  BY DEF PushOf, Loop, IdleThread, Thread, Pcs, DeliveryInv, TypeOK, PrepareSame,
         ThreadInv, Copy
<1>2. /\ th.pc = "push" /\ th.msg = None /\ ~ th.accepted
      /\ th.todo = thread[t].todo /\ th.id = thread[t].entry.id
      /\ thread' = [thread EXCEPT ![t] = th]
      /\ UNCHANGED <<outbox, seals, forgets, mine, current, net, acks,
                     recipientVars>>
      /\ pinned' \in Versions \cup {0}
  BY DEF PrepareSame, SetThread, PushOf, Loop, IdleThread, DeliveryInv, TypeOK
<1>3. thread[t] \in Thread /\ ThreadInv(thread[t])
  BY DEF DeliveryInv, TypeOK
<1> HIDE DEF th
<1>4. thread'[t] = th
  BY <1>2 DEF DeliveryInv, TypeOK
<1>5. ThreadInv(thread[t])'
  BY <1>2, <1>3, <1>4 DEF ThreadInv, CopyInv, Sent, Thread, Copy, PrepareSame
<1> QED
  BY <1>1, <1>2, <1>5, MoveStep

(* Timeout keeps the invariant.                                            *)
LEMMA TimeoutStep ==
    ASSUME DeliveryInv, NEW t \in Threads, Timeout(t)
    PROVE  DeliveryInv'
<1> DEFINE th == [thread[t] EXCEPT !.pc = "record"]
<1>1. th \in Thread
  BY DEF Thread, Pcs, DeliveryInv, TypeOK
<1>2. /\ th.pc = "record" /\ th.msg = thread[t].msg /\ ~ th.accepted
      /\ th.todo = thread[t].todo /\ th.id = thread[t].id /\ th.msg = None
      /\ thread' = [thread EXCEPT ![t] = th]
      /\ UNCHANGED <<outbox, seals, forgets, mine, current, net, acks,
                     recipientVars>>
      /\ pinned' \in Versions \cup {0}
  BY DEF Timeout, SetThread, DeliveryInv, TypeOK, ThreadInv, Thread
<1>3. thread[t] \in Thread /\ ThreadInv(thread[t])
  BY DEF DeliveryInv, TypeOK
<1> HIDE DEF th
<1>4. thread'[t] = th
  BY <1>2 DEF DeliveryInv, TypeOK
<1>5. ThreadInv(thread[t])'
  BY <1>2, <1>3, <1>4 DEF ThreadInv, CopyInv, Sent, Thread, Timeout
<1> QED
  BY <1>1, <1>2, <1>5, MoveStep

(* FinishFlush keeps the invariant.                                        *)
LEMMA FinishFlushStep ==
    ASSUME DeliveryInv, NEW t \in Threads, FinishFlush(t)
    PROVE  DeliveryInv'
<1> DEFINE th == IdleThread
<1>1. th \in Thread
  BY DEF IdleThread, Thread, Pcs
<1>2. /\ th.pc = "idle" /\ th.msg = None /\ ~ th.accepted /\ th.todo = {}
      /\ thread' = [thread EXCEPT ![t] = th]
      /\ UNCHANGED <<outbox, seals, forgets, mine, current, net, acks,
                     recipientVars>>
      /\ pinned' \in Versions \cup {0}
  BY DEF FinishFlush, SetThread, IdleThread, DeliveryInv, TypeOK
<1>3. thread[t] \in Thread /\ ThreadInv(thread[t])
  BY DEF DeliveryInv, TypeOK
<1> HIDE DEF th
<1>4. thread'[t] = th
  BY <1>2 DEF DeliveryInv, TypeOK
<1>5. ThreadInv(thread[t])'
  BY <1>2, <1>4 DEF ThreadInv
<1> QED
  BY <1>1, <1>2, <1>5, MoveStep

(* What a step keeps when it changes one outbox entry, to a well-formed    *)
(* one of a sent message.                                                  *)
LEMMA SenderEntry ==
    ASSUME DeliveryInv, NEW m \in Messages, NEW e \in Entry,
           outbox' = [outbox EXCEPT ![m] = e],
           EntryInv(m, e), e.status # "unsent",
           seals' \in [Messages -> Nat],
           pinned' \in Versions \cup {0},
           UNCHANGED <<forgets, mine, current, net, acks, recipientVars>>,
           thread' \in [Threads -> Thread],
           \A u \in Threads : ThreadInv(thread[u])', ParkInv'
    PROVE  DeliveryInv'
<1>1. outbox' \in [Messages -> Entry]
      /\ \A n \in Messages : outbox'[n] = IF n = m THEN e ELSE outbox[n]
  BY DEF DeliveryInv, TypeOK
<1>2. TypeOK'
  BY <1>1 DEF DeliveryInv, TypeOK, recipientVars
<1>3. \A n \in Messages : EntryInv(n, outbox[n])'
  BY <1>1 DEF DeliveryInv, EntryInv, recipientVars
<1>4. \A n \in Messages : Sent(n) => Sent(n)'
  BY <1>1 DEF Sent
<1>5. WireInv'
  BY <1>4 DEF DeliveryInv, TypeOK, WireInv, recipientVars, Ids
<1>6. \A d \in Devices : ServeInv(d)' /\ RowsInv(d)'
  BY <1>4 DEF DeliveryInv, TypeOK, ServeInv, RowsInv, recipientVars, Ids
<1> QED
  BY <1>2, <1>3, <1>5, <1>6 DEF DeliveryInv

(* One thread moves and one entry changes, of a message that was sent.     *)
LEMMA MoveEntry ==
    ASSUME DeliveryInv, NEW t \in Threads, NEW th \in Thread,
           thread' = [thread EXCEPT ![t] = th],
           th.pc # "park", th.msg = None, ThreadInv(thread[t])',
           NEW m \in Messages, NEW e \in Entry,
           outbox' = [outbox EXCEPT ![m] = e],
           Sent(m), EntryInv(m, e), e.status # "unsent",
           seals' \in [Messages -> Nat],
           UNCHANGED <<pinned, forgets, mine, current, net, acks, recipientVars>>
    PROVE  DeliveryInv'
<1>1. \A n \in Messages : outbox'[n] = IF n = m THEN e ELSE outbox[n]
  BY DEF DeliveryInv, TypeOK
<1>2. \A n \in Messages : Sent(n)' <=> Sent(n)
  BY <1>1 DEF Sent
<1>3. Grows
  BY <1>2 DEF Grows, recipientVars
<1>4. \A u \in Threads \ {t} : thread'[u] = thread[u]
  BY DEF DeliveryInv, TypeOK
<1>5. \A u \in Threads \ {t} : thread[u].pc = "park" =>
         ~ Sent(thread[u].msg)' /\ thread[u].msg # None
  <2> SUFFICES ASSUME NEW u \in Threads \ {t}, thread[u].pc = "park"
               PROVE  ~ Sent(thread[u].msg)' /\ thread[u].msg # None
    OBVIOUS
  <2>1. /\ thread[u].msg # None /\ ~ Sent(thread[u].msg)
        /\ thread[u].msg \in Messages
    BY DEF DeliveryInv, ThreadInv, TypeOK, Thread
  <2> QED
    BY <2>1, <1>1, <1>4 DEF Sent
<1>6. /\ thread' \in [Threads -> Thread]
      /\ \A u \in Threads : ThreadInv(thread[u])'
      /\ ParkInv'
  BY <1>3, <1>5, ReplaceThread
<1> QED
  BY <1>6, SenderEntry DEF DeliveryInv, TypeOK

(* Park: the message is sent from now on, and only this thread parks it.   *)
LEMMA ParkStep ==
    ASSUME DeliveryInv, NEW t \in Threads, Park(t)
    PROVE  DeliveryInv'
<1> DEFINE m == thread[t].msg
           v == Apply(thread[t].fetched)
           id == [msg |-> m, seal |-> seals[m] + 1, dev |-> ActiveDevice[v]]
           e == [status |-> "pending", id |-> id, item |-> TRUE,
                 plain |-> m \in Resealable, due |-> TRUE]
           th == [IdleThread EXCEPT !.pc = "push", !.id = id]
<1>1. /\ thread[t] \in Thread /\ ThreadInv(thread[t]) /\ thread[t].pc = "park"
      /\ m \in Messages /\ ~ Sent(m) /\ m # None
      /\ v \in Versions \cup {0}
      /\ pinned' = v
  <2>1. /\ thread[t] \in Thread /\ ThreadInv(thread[t]) /\ thread[t].pc = "park"
        /\ m # None /\ ~ Sent(m)
    BY DEF DeliveryInv, TypeOK, Park, ThreadInv
  <2>2. m \in Messages
    BY <2>1 DEF Thread
  <2>3. v \in Versions \cup {0}
    BY <2>1, DeliveryAssumption DEF Apply, Pin, DeliveryInv, TypeOK, Versions, Thread
  <2> QED
    BY <2>1, <2>2, <2>3 DEF Park
<1>2. CASE v = 0
  <2>1. /\ thread' = [thread EXCEPT ![t] = IdleThread]
        /\ UNCHANGED <<outbox, seals, forgets, mine, current, net, acks,
                       recipientVars>>
    BY <1>2 DEF Park, SetThread
  <2>2. /\ IdleThread.pc = "idle" /\ IdleThread.msg = None /\ IdleThread.todo = {}
        /\ ~ IdleThread.accepted
    BY DEF IdleThread
  <2>3. thread'[t] = IdleThread
    BY <2>1 DEF DeliveryInv, TypeOK
  <2>4. ThreadInv(thread[t])'
    BY <2>2, <2>3 DEF ThreadInv
  <2> QED
    BY <1>1, <2>1, <2>2, <2>4, IdleType, MoveStep
<1>3. CASE v # 0
  <2>1. id \in Ids /\ id.msg = m
    BY <1>1, <1>3, DeliveryAssumption DEF Ids, DeliveryInv, TypeOK
  <2>2. /\ outbox' = [outbox EXCEPT ![m] = e]
        /\ seals' = [seals EXCEPT ![m] = seals[m] + 1]
        /\ thread' = [thread EXCEPT ![t] = th]
        /\ UNCHANGED <<forgets, mine, current, net, acks, recipientVars>>
    BY <1>3 DEF Park, SetThread
  <2>3. seals' \in [Messages -> Nat]
    BY <1>1, <2>2 DEF DeliveryInv, TypeOK
  <2> HIDE DEF id
  <2>4. e \in Entry /\ e.status = "pending" /\ EntryInv(m, e)
    <3>1. e \in Entry
      BY <2>1 DEF Entry, Statuses
    <3>2. /\ e.status = "pending" /\ e.id = id /\ e.item
          /\ e.plain <=> m \in Resealable
      OBVIOUS
    <3> QED
      BY <2>1, <3>1, <3>2 DEF EntryInv
  <2>5. /\ th \in Thread /\ th.pc = "push" /\ th.msg = None /\ th.id = id
        /\ th.todo = {} /\ ~ th.accepted
    BY <2>1 DEF IdleThread, Thread, Pcs
  <2> HIDE DEF e, th
  <2>6. \A n \in Messages : outbox'[n] = IF n = m THEN e ELSE outbox[n]
    BY <2>2 DEF DeliveryInv, TypeOK
  <2>7. \A u \in Threads : thread'[u] = IF u = t THEN th ELSE thread[u]
    BY <2>2 DEF DeliveryInv, TypeOK
  <2>8. ThreadInv(thread[t])'
    BY <1>1, <2>1, <2>4, <2>5, <2>6, <2>7 DEF ThreadInv, Sent
  <2>9. Grows
    BY <2>2, <2>4, <2>6 DEF Grows, Sent, recipientVars
  <2>10. \A u \in Threads \ {t} : thread[u].pc = "park" =>
            ~ Sent(thread[u].msg)' /\ thread[u].msg # None
    <3> SUFFICES ASSUME NEW u \in Threads \ {t}, thread[u].pc = "park"
                 PROVE  ~ Sent(thread[u].msg)' /\ thread[u].msg # None
      OBVIOUS
    <3>1. /\ thread[u].msg # None /\ ~ Sent(thread[u].msg)
          /\ thread[u].msg \in Messages
      BY DEF DeliveryInv, ThreadInv, TypeOK, Thread
    <3>2. thread[u].msg # m
      BY <1>1 DEF DeliveryInv, ParkInv
    <3> QED
      BY <3>1, <3>2, <2>6, <2>7 DEF Sent
  <2>11. /\ thread' \in [Threads -> Thread]
         /\ \A u \in Threads : ThreadInv(thread[u])'
         /\ ParkInv'
    BY <2>2, <2>5, <2>8, <2>9, <2>10, ReplaceThread
  <2> QED
    BY <1>1, <2>2, <2>3, <2>4, <2>11, SenderEntry
<1> QED
  BY <1>2, <1>3

(* PrepareFailed gives up an entry only if it cannot be resealed.          *)
LEMMA PrepareFailedStep ==
    ASSUME DeliveryInv, NEW t \in Threads, PrepareFailed(t)
    PROVE  DeliveryInv'
<1> DEFINE id == thread[t].entry.id
           e == Erased(outbox[id.msg], "failed")
<1>1. /\ thread[t] \in Thread /\ ThreadInv(thread[t])
      /\ thread[t].entry \in Copy /\ CopyInv(thread[t].entry)
      /\ ~ thread[t].entry.plain
  BY DEF DeliveryInv, TypeOK, PrepareFailed, ThreadInv
<1>2. id \in Ids /\ id.msg \in Messages /\ Sent(id.msg) /\ id.msg \notin Resealable
  BY <1>1 DEF Copy, CopyInv, Ids
<1>3. /\ Loop(t) \in Thread /\ Loop(t).pc = "loop" /\ Loop(t).msg = None
      /\ Loop(t).todo = thread[t].todo /\ ~ Loop(t).accepted
  BY <1>1 DEF Loop, IdleThread, Thread, Pcs
<1>4. /\ thread' = [thread EXCEPT ![t] = Loop(t)] /\ MarkFailed(id)
      /\ UNCHANGED <<seals, pinned, forgets, mine, current, net, acks,
                     recipientVars>>
  BY DEF PrepareFailed, SetThread
<1>5. thread'[t] = Loop(t)
  BY <1>4 DEF DeliveryInv, TypeOK
<1>6. CASE outbox[id.msg].id # id
  <2>1. outbox' = outbox
    BY <1>4, <1>6 DEF MarkFailed
  <2>2. ThreadInv(thread[t])'
    BY <1>1, <1>3, <1>5, <2>1 DEF ThreadInv, CopyInv, Sent
  <2> QED
    BY <1>3, <1>4, <2>1, <2>2, MoveStep DEF DeliveryInv, TypeOK
<1>7. CASE outbox[id.msg].id = id
  <2>1. outbox' = [outbox EXCEPT ![id.msg] = e]
    BY <1>4, <1>7 DEF MarkFailed
  <2>2. outbox[id.msg] \in Entry
    BY <1>2 DEF DeliveryInv, TypeOK
  <2>3. /\ e \in Entry /\ e.status = "failed" /\ e.id = id /\ ~ e.item /\ ~ e.plain
    BY <2>2, <1>7 DEF Erased, Entry, Statuses
  <2> HIDE DEF e
  <2>4. EntryInv(id.msg, e)
    BY <1>2, <2>3 DEF EntryInv
  <2>5. \A n \in Messages : outbox'[n] = IF n = id.msg THEN e ELSE outbox[n]
    BY <2>1 DEF DeliveryInv, TypeOK
  <2>6. \A n \in Messages : Sent(n) => Sent(n)'
    BY <2>3, <2>5 DEF Sent
  <2>7. \A c \in Copy : CopyInv(c) => CopyInv(c)'
    BY <2>6 DEF CopyInv, Copy, Ids
  <2>8. ThreadInv(thread[t])'
    BY <1>1, <1>3, <1>5, <2>7 DEF ThreadInv, Thread
  <2> QED
    BY <1>2, <1>3, <1>4, <2>1, <2>3, <2>4, <2>8, MoveEntry DEF DeliveryInv, TypeOK
<1> QED
  BY <1>6, <1>7

(* PrepareReseal replaces only a pending entry, which stays pending.       *)
LEMMA PrepareResealStep ==
    ASSUME DeliveryInv, NEW t \in Threads, PrepareReseal(t)
    PROVE  DeliveryInv'
<1> DEFINE old == thread[t].entry.id
           m == old.msg
           new == [msg |-> m, seal |-> seals[m] + 1, dev |-> thread[t].dev]
           e == [outbox[m] EXCEPT !.id = new, !.due = TRUE]
<1>1. /\ thread[t] \in Thread /\ ThreadInv(thread[t])
      /\ thread[t].entry \in Copy /\ CopyInv(thread[t].entry)
      /\ thread[t].dev \in Devices
  BY DEF DeliveryInv, TypeOK, PrepareReseal, ThreadInv
<1>2. old \in Ids /\ m \in Messages /\ Sent(m)
  BY <1>1 DEF Copy, CopyInv, Ids
<1>3. new \in Ids /\ new.msg = m
  BY <1>1, <1>2 DEF Ids, DeliveryInv, TypeOK
<1>4. /\ Loop(t) \in Thread /\ Loop(t).pc = "loop" /\ Loop(t).msg = None
      /\ Loop(t).todo = thread[t].todo /\ ~ Loop(t).accepted
  BY <1>1 DEF Loop, IdleThread, Thread, Pcs
<1>5. UNCHANGED <<pinned, forgets, mine, current, net, acks, recipientVars>>
  BY DEF PrepareReseal
<1>6. CASE ~ (outbox[m].id = old /\ IsPending(outbox[m]))
  <2>1. /\ UNCHANGED <<outbox, seals>>
        /\ thread' = [thread EXCEPT ![t] = Loop(t)]
    BY <1>6 DEF PrepareReseal, SetThread
  <2>2. thread'[t] = Loop(t)
    BY <2>1 DEF DeliveryInv, TypeOK
  <2>3. ThreadInv(thread[t])'
    BY <1>1, <1>4, <2>1, <2>2 DEF ThreadInv, CopyInv, Sent
  <2> QED
    BY <1>4, <1>5, <2>1, <2>3, MoveStep DEF DeliveryInv, TypeOK
<1>7. CASE outbox[m].id = old /\ IsPending(outbox[m])
  <2>1. outbox[m] \in Entry /\ outbox[m].status = "pending"
    BY <1>2, <1>7 DEF DeliveryInv, TypeOK, IsPending
  <2>2. /\ outbox' = [outbox EXCEPT ![m] = e]
        /\ seals' = [seals EXCEPT ![m] = seals[m] + 1]
        /\ thread' = [thread EXCEPT ![t] = PushOf(t, new)]
    BY <1>2, <1>7, <2>1 DEF PrepareReseal, SetThread, DeliveryInv, TypeOK, Entry
  <2>3. seals' \in [Messages -> Nat]
    BY <1>2, <2>2 DEF DeliveryInv, TypeOK
  <2> HIDE DEF new
  <2>4. /\ PushOf(t, new) \in Thread /\ PushOf(t, new).pc = "push"
        /\ PushOf(t, new).msg = None /\ PushOf(t, new).id = new
        /\ PushOf(t, new).todo = thread[t].todo /\ ~ PushOf(t, new).accepted
    BY <1>1, <1>3 DEF PushOf, Loop, IdleThread, Thread, Pcs
  <2>5. /\ e \in Entry /\ e.status = "pending" /\ e.id = new
        /\ e.item = outbox[m].item /\ e.plain = outbox[m].plain
    BY <1>3, <2>1 DEF Entry
  <2> HIDE DEF e
  <2>6. EntryInv(m, e)
    BY <1>2, <1>3, <2>1, <2>5 DEF EntryInv, DeliveryInv
  <2>7. \A n \in Messages : outbox'[n] = IF n = m THEN e ELSE outbox[n]
    BY <2>2 DEF DeliveryInv, TypeOK
  <2>8. \A n \in Messages : Sent(n) => Sent(n)'
    BY <2>5, <2>7 DEF Sent
  <2>9. \A c \in Copy : CopyInv(c) => CopyInv(c)'
    BY <2>8 DEF CopyInv, Copy, Ids
  <2>10. thread'[t] = PushOf(t, new)
    BY <2>2 DEF DeliveryInv, TypeOK
  <2>11. ThreadInv(thread[t])'
    BY <1>1, <1>2, <1>3, <2>4, <2>8, <2>9, <2>10 DEF ThreadInv, Thread
  <2> QED
    BY <1>2, <1>5, <2>2, <2>3, <2>4, <2>5, <2>6, <2>11, MoveEntry
<1> QED
  BY <1>6, <1>7

(* Record: an accepted result is of an id that its device has committed.   *)
LEMMA RecordStep ==
    ASSUME DeliveryInv, NEW t \in Threads, Record(t)
    PROVE  DeliveryInv'
<1> DEFINE id == thread[t].id
           m == id.msg
           e == IF thread[t].accepted THEN Erased(outbox[m], "delivered")
                                      ELSE [outbox[m] EXCEPT !.due = FALSE]
<1>1. /\ thread[t] \in Thread /\ ThreadInv(thread[t]) /\ id \in Ids /\ Sent(m)
      /\ thread[t].accepted => id \in inbox[id.dev]
  BY DEF DeliveryInv, TypeOK, Record, ThreadInv
<1>2. m \in Messages
  BY <1>1 DEF Ids
<1>3. /\ Loop(t) \in Thread /\ Loop(t).pc = "loop" /\ Loop(t).msg = None
      /\ Loop(t).todo = thread[t].todo /\ ~ Loop(t).accepted
  BY <1>1 DEF Loop, IdleThread, Thread, Pcs
<1>4. /\ thread' = [thread EXCEPT ![t] = Loop(t)]
      /\ RecordAttempt(id, thread[t].accepted)
      /\ UNCHANGED <<seals, pinned, forgets, mine, current, net, acks,
                     recipientVars>>
  BY DEF Record, SetThread
<1>5. thread'[t] = Loop(t)
  BY <1>4 DEF DeliveryInv, TypeOK
<1>6. CASE outbox[m].id # id \/ ~ IsPending(outbox[m])
  <2>1. outbox' = outbox
    BY <1>4, <1>6 DEF RecordAttempt
  <2>2. ThreadInv(thread[t])'
    BY <1>1, <1>3, <1>5, <2>1 DEF ThreadInv, CopyInv, Sent
  <2> QED
    BY <1>3, <1>4, <2>1, <2>2, MoveStep DEF DeliveryInv, TypeOK
<1>7. CASE ~ (outbox[m].id # id \/ ~ IsPending(outbox[m]))
  <2>1. outbox' = [outbox EXCEPT ![m] = e]
    BY <1>4, <1>7 DEF RecordAttempt
  <2>2. outbox[m] \in Entry /\ outbox[m].status = "pending" /\ outbox[m].id = id
    BY <1>2, <1>7 DEF DeliveryInv, TypeOK, IsPending
  <2>3. /\ e \in Entry /\ e.id = id
        /\ thread[t].accepted => e.status = "delivered" /\ ~ e.item /\ ~ e.plain
        /\ ~ thread[t].accepted => /\ e.status = "pending"
                                   /\ e.item = outbox[m].item
                                   /\ e.plain = outbox[m].plain
    BY <2>2 DEF Erased, Entry, Statuses
  <2> HIDE DEF e
  <2>4. EntryInv(m, e)
    BY <1>1, <1>2, <2>2, <2>3 DEF EntryInv, DeliveryInv
  <2>5. e.status # "unsent"
    BY <2>3
  <2>6. \A n \in Messages : outbox'[n] = IF n = m THEN e ELSE outbox[n]
    BY <2>1 DEF DeliveryInv, TypeOK
  <2>7. \A n \in Messages : Sent(n) => Sent(n)'
    BY <2>5, <2>6 DEF Sent
  <2>8. \A c \in Copy : CopyInv(c) => CopyInv(c)'
    BY <2>7 DEF CopyInv, Copy, Ids
  <2>9. ThreadInv(thread[t])'
    BY <1>1, <1>3, <1>5, <2>8 DEF ThreadInv, Thread
  <2> QED
    BY <1>1, <1>2, <1>3, <1>4, <2>1, <2>3, <2>4, <2>5, <2>9, MoveEntry
       DEF DeliveryInv, TypeOK
<1> QED
  BY <1>6, <1>7

(* Threads that do not move, while no message is parked and no committed   *)
(* id forgotten.                                                           *)
LEMMA StillThreads ==
    ASSUME DeliveryInv, thread' = thread,
           \A m \in Messages : Sent(m)' <=> Sent(m),
           \A d \in Devices : inbox[d] \subseteq inbox'[d]
    PROVE  /\ thread' \in [Threads -> Thread]
           /\ \A u \in Threads : ThreadInv(thread[u])'
           /\ ParkInv'
<1>1. Grows
  BY DEF Grows
<1>2. ASSUME NEW u \in Threads
      PROVE  ThreadInv(thread[u])'
  <2>1. thread[u] \in Thread /\ ThreadInv(thread[u]) /\ thread'[u] = thread[u]
    BY DEF DeliveryInv, TypeOK
  <2>2. ASSUME thread[u].pc = "park" PROVE ~ Sent(thread[u].msg)'
    <3>1. thread[u].msg \in Messages /\ ~ Sent(thread[u].msg)
      BY <2>1, <2>2 DEF ThreadInv, Thread
    <3> QED
      BY <3>1, <2>1 DEF Sent
  <2> QED
    BY <1>1, <2>1, <2>2, ThreadStable
<1>3. ParkInv'
  BY DEF ParkInv, DeliveryInv
<1> QED
  BY <1>2, <1>3 DEF DeliveryInv, TypeOK

(* The user's retry changes when entries are due, and nothing else of them.*)
LEMMA StartRetryStep ==
    ASSUME DeliveryInv, NEW t \in Threads, StartRetry(t)
    PROVE  DeliveryInv'
<1> DEFINE th == [IdleThread EXCEPT !.pc = "snapshot"]
<1>1. /\ th \in Thread /\ th.pc = "snapshot" /\ th.msg = None /\ th.todo = {}
      /\ ~ th.accepted
  BY DEF IdleThread, Thread, Pcs
<1>2. /\ thread' = [thread EXCEPT ![t] = th]
      /\ UNCHANGED <<seals, pinned, forgets, mine, current, net, acks,
                     recipientVars>>
      /\ outbox' = [m \in Messages |->
                    IF IsPending(outbox[m]) THEN [outbox[m] EXCEPT !.due = TRUE]
                                            ELSE outbox[m]]
  BY DEF StartRetry, SetThread
<1> HIDE DEF th
<1>3. \A m \in Messages : outbox[m] \in Entry
  BY DEF DeliveryInv, TypeOK
<1>4. ASSUME NEW m \in Messages
      PROVE  /\ outbox'[m] \in Entry
             /\ outbox'[m].status = outbox[m].status
             /\ outbox'[m].id = outbox[m].id
             /\ outbox'[m].item = outbox[m].item
             /\ outbox'[m].plain = outbox[m].plain
  BY <1>2, <1>3 DEF Entry
<1>5. outbox' \in [Messages -> Entry]
  BY <1>2, <1>4
<1>6. \A m \in Messages : Sent(m)' <=> Sent(m)
  BY <1>4 DEF Sent
<1>7. Grows
  BY <1>2, <1>6 DEF Grows, recipientVars
<1>8. \A u \in Threads : thread'[u] = IF u = t THEN th ELSE thread[u]
  BY <1>2 DEF DeliveryInv, TypeOK
<1>9. ThreadInv(thread[t])'
  BY <1>1, <1>8 DEF ThreadInv
<1>10. \A u \in Threads \ {t} : thread[u].pc = "park" =>
          ~ Sent(thread[u].msg)' /\ thread[u].msg # None
  <2> SUFFICES ASSUME NEW u \in Threads \ {t}, thread[u].pc = "park"
               PROVE  ~ Sent(thread[u].msg)' /\ thread[u].msg # None
    OBVIOUS
  <2>1. /\ thread[u].msg # None /\ ~ Sent(thread[u].msg)
        /\ thread[u].msg \in Messages
    BY DEF DeliveryInv, ThreadInv, TypeOK, Thread
  <2> QED
    BY <2>1, <1>4, <1>8 DEF Sent
<1>11. /\ thread' \in [Threads -> Thread]
       /\ \A u \in Threads : ThreadInv(thread[u])'
       /\ ParkInv'
  BY <1>1, <1>2, <1>7, <1>9, <1>10, ReplaceThread
<1>12. TypeOK'
  BY <1>2, <1>5, <1>11 DEF DeliveryInv, TypeOK, recipientVars
<1>13. \A m \in Messages : EntryInv(m, outbox[m])'
  BY <1>2, <1>4 DEF DeliveryInv, EntryInv, recipientVars
<1>14. WireInv'
  BY <1>2, <1>6 DEF DeliveryInv, TypeOK, WireInv, recipientVars, Ids
<1>15. \A d \in Devices : ServeInv(d)' /\ RowsInv(d)'
  BY <1>2, <1>6 DEF DeliveryInv, TypeOK, ServeInv, RowsInv, recipientVars, Ids
<1> QED
  BY <1>11, <1>12, <1>13, <1>14, <1>15 DEF DeliveryInv

(* Push puts a frame of a sent message on the wire.                        *)
LEMMA PushStep ==
    ASSUME DeliveryInv, NEW t \in Threads, Push(t)
    PROVE  DeliveryInv'
<1> DEFINE th == [thread[t] EXCEPT !.pc = "wait"]
<1>1. /\ thread[t] \in Thread /\ ThreadInv(thread[t]) /\ thread[t].pc = "push"
      /\ thread[t].id \in Ids /\ Sent(thread[t].id.msg)
      /\ thread[t].msg = None /\ ~ thread[t].accepted
  BY DEF DeliveryInv, TypeOK, Push, ThreadInv
<1>2. /\ th \in Thread /\ th.pc = "wait" /\ th.msg = None /\ th.id = thread[t].id
      /\ th.todo = thread[t].todo /\ ~ th.accepted
  BY <1>1 DEF Thread, Pcs
<1>3. /\ thread' = [thread EXCEPT ![t] = th] /\ net' = net \cup {thread[t].id}
      /\ UNCHANGED <<outbox, seals, pinned, forgets, mine, current, acks,
                     recipientVars>>
  BY DEF Push, SetThread
<1> HIDE DEF th
<1>4. thread'[t] = th
  BY <1>3 DEF DeliveryInv, TypeOK
<1>5. ThreadInv(thread[t])'
  BY <1>1, <1>2, <1>3, <1>4 DEF ThreadInv, CopyInv, Sent
<1>6. /\ thread' \in [Threads -> Thread]
      /\ \A u \in Threads : ThreadInv(thread[u])'
      /\ ParkInv'
  BY <1>2, <1>3, <1>5, MoveThread DEF recipientVars
<1>7. TypeOK'
  BY <1>1, <1>3, <1>6 DEF DeliveryInv, TypeOK, recipientVars
<1>8. \A m \in Messages : EntryInv(m, outbox[m])'
  BY <1>3 DEF DeliveryInv, EntryInv, recipientVars
<1>9. WireInv'
  BY <1>1, <1>3 DEF DeliveryInv, WireInv, Sent, recipientVars
<1>10. \A d \in Devices : ServeInv(d)' /\ RowsInv(d)'
  BY <1>3 DEF DeliveryInv, ServeInv, RowsInv, Sent, recipientVars
<1> QED
  BY <1>6, <1>7, <1>8, <1>9, <1>10 DEF DeliveryInv

(* Elapse and Cancel change the schedule or the status of a pending entry. *)
LEMMA EntryStep ==
    ASSUME DeliveryInv, NEW m \in Messages, Elapse(m) \/ Cancel(m)
    PROVE  DeliveryInv'
<1> DEFINE e == IF Elapse(m) THEN [outbox[m] EXCEPT !.due = TRUE]
                ELSE [outbox[m] EXCEPT !.status = "cancelled", !.due = TRUE]
<1>1. outbox[m] \in Entry /\ outbox[m].status = "pending" /\ EntryInv(m, outbox[m])
  BY DEF DeliveryInv, TypeOK, Elapse, Cancel, IsPending
<1>2. /\ outbox' = [outbox EXCEPT ![m] = e]
      /\ UNCHANGED <<seals, pinned, forgets, mine, current, thread, net, acks,
                     recipientVars>>
  BY <1>1 DEF Elapse, Cancel, DeliveryInv, TypeOK, Entry
<1>3. /\ e \in Entry /\ e.status \in {"pending", "cancelled"}
      /\ e.id = outbox[m].id /\ e.item = outbox[m].item
      /\ e.plain = outbox[m].plain
  BY <1>1 DEF Entry, Statuses
<1> HIDE DEF e
<1>4. EntryInv(m, e)
  BY <1>1, <1>3 DEF EntryInv
<1>5. \A n \in Messages : outbox'[n] = IF n = m THEN e ELSE outbox[n]
  BY <1>2 DEF DeliveryInv, TypeOK
<1>6. \A n \in Messages : Sent(n)' <=> Sent(n)
  BY <1>1, <1>3, <1>5 DEF Sent
<1>7. /\ thread' \in [Threads -> Thread]
      /\ \A u \in Threads : ThreadInv(thread[u])'
      /\ ParkInv'
  BY <1>2, <1>6, StillThreads DEF recipientVars
<1> QED
  BY <1>2, <1>3, <1>4, <1>7, SenderEntry DEF DeliveryInv, TypeOK

(* The peer book, the sender's flags and its restart.                      *)
LEMMA SenderStep ==
    ASSUME DeliveryInv,
           \/ Forget \/ (\E v \in Versions : Learn(v))
           \/ MoveSender \/ PollSender \/ CrashSender
    PROVE  DeliveryInv'
<1>1. UNCHANGED <<outbox, seals, net, acks, recipientVars>>
  BY DEF Forget, Learn, MoveSender, PollSender, CrashSender
<1>2. /\ pinned' \in Versions \cup {0} /\ forgets' \in 0..MaxForgets
      /\ mine' \in BOOLEAN /\ current' \in BOOLEAN
  <2>1. CASE Forget
    BY <2>1, DeliveryAssumption DEF Forget, DeliveryInv, TypeOK
  <2>2. CASE \E v \in Versions : Learn(v)
    BY <2>2 DEF Learn, DeliveryInv, TypeOK
  <2>3. CASE MoveSender \/ PollSender \/ CrashSender
    BY <2>3 DEF MoveSender, PollSender, CrashSender, DeliveryInv, TypeOK
  <2> QED
    BY <2>1, <2>2, <2>3
<1>3. /\ thread' \in [Threads -> Thread]
      /\ \A u \in Threads : ThreadInv(thread[u])'
      /\ ParkInv'
  <2>1. CASE CrashSender
    <3>1. \A u \in Threads : thread'[u] = IdleThread
      BY <2>1 DEF CrashSender
    <3>2. /\ IdleThread.pc = "idle" /\ IdleThread.msg = None
          /\ IdleThread.todo = {} /\ ~ IdleThread.accepted
      BY DEF IdleThread
    <3>3. thread' \in [Threads -> Thread]
      BY <2>1, IdleType DEF CrashSender
    <3>4. \A u \in Threads : ThreadInv(thread[u])'
      BY <3>1, <3>2 DEF ThreadInv
    <3>5. ParkInv'
      BY <3>1, <3>2 DEF ParkInv
    <3> QED
      BY <3>3, <3>4, <3>5
  <2>2. CASE ~ CrashSender
    <3>1. UNCHANGED <<outbox, inbox, thread>>
      BY <1>1, <2>2 DEF Forget, Learn, MoveSender, PollSender, recipientVars
    <3> QED
      BY <3>1, StillThreads DEF Sent
  <2> QED
    BY <2>1, <2>2
<1> QED
  BY <1>1, <1>2, <1>3, SenderOnly

(* A reply moves the threads that take it on to record it, and they take   *)
(* it for their own only if it names their delivery id.                    *)
LEMMA AckStep ==
    ASSUME DeliveryInv, NEW ack \in acks, NEW ts \in SUBSET Waiting(ack.dev),
           AckArrives(ack, ts)
    PROVE  DeliveryInv'
<1>1. /\ UNCHANGED <<outbox, seals, pinned, forgets, mine, current, net,
                     recipientVars>>
      /\ acks' = acks \ {ack}
      /\ ts \subseteq Threads
  BY DEF AckArrives, Waiting
<1>2. ack \in Ids /\ ack \in inbox[ack.dev]
  BY DEF DeliveryInv, TypeOK, WireInv
<1>3. thread' = [u \in Threads |->
         IF u \in ts THEN [thread[u] EXCEPT !.pc = "record",
                                            !.accepted = (thread[u].id = ack)]
                     ELSE thread[u]]
  BY DEF AckArrives
<1>4. ASSUME NEW u \in ts
      PROVE  /\ u \in Threads
             /\ thread'[u] \in Thread
             /\ thread'[u].pc = "record" /\ thread'[u].msg = None
             /\ ThreadInv(thread[u])'
  <2>1. /\ u \in Threads /\ thread[u] \in Thread /\ ThreadInv(thread[u])
        /\ thread[u].pc = "wait" /\ thread[u].id \in Ids
        /\ Sent(thread[u].id.msg) /\ thread[u].msg = None
    BY <1>1 DEF DeliveryInv, TypeOK, Waiting, ThreadInv
  <2>2. thread'[u] = [thread[u] EXCEPT !.pc = "record",
                                       !.accepted = (thread[u].id = ack)]
    BY <1>3, <2>1
  <2>3. /\ thread'[u] \in Thread /\ thread'[u].pc = "record"
        /\ thread'[u].msg = thread[u].msg /\ thread'[u].id = thread[u].id
        /\ thread'[u].todo = thread[u].todo
    BY <2>1, <2>2 DEF Thread, Pcs
  <2>4. thread'[u].accepted => thread[u].id = ack
    BY <2>1, <2>2 DEF Thread
  <2>5. outbox' = outbox /\ inbox' = inbox
    BY <1>1 DEF recipientVars
  <2>6. ThreadInv(thread[u])'
    BY <1>2, <2>1, <2>3, <2>4, <2>5 DEF ThreadInv, CopyInv, Sent
  <2> QED
    BY <2>1, <2>3, <2>6
<1>5. Grows
  BY <1>1 DEF Grows, Sent, recipientVars
<1>6. ASSUME NEW u \in Threads \ ts
      PROVE  thread'[u] = thread[u] /\ ThreadInv(thread[u])' /\ thread'[u] \in Thread
  <2>1. thread'[u] = thread[u]
    BY <1>3
  <2>2. /\ thread[u] \in Thread /\ ThreadInv(thread[u])
        /\ thread[u].pc = "park" => ~ Sent(thread[u].msg)'
    BY <1>1, <2>1 DEF DeliveryInv, TypeOK, ThreadInv, Sent
  <2> QED
    BY <1>5, <2>1, <2>2, ThreadStable
<1>7. /\ thread' \in [Threads -> Thread]
      /\ \A u \in Threads : ThreadInv(thread[u])'
  <2>1. \A u \in Threads : thread'[u] \in Thread /\ ThreadInv(thread[u])'
    BY <1>4, <1>6
  <2> QED
    BY <1>3, <2>1
<1>8. ParkInv'
  <2> SUFFICES ASSUME NEW u \in Threads, NEW w \in Threads,
                      thread'[u].pc = "park", thread'[w].msg = thread'[u].msg
               PROVE  w = u
    BY DEF ParkInv
  <2>1. u \notin ts /\ thread'[u] = thread[u]
    BY <1>4, <1>6
  <2>2. thread[u].msg # None
    BY <2>1 DEF DeliveryInv, ThreadInv
  <2>3. w \notin ts /\ thread'[w] = thread[w]
    BY <1>4, <1>6, <2>1, <2>2
  <2> QED
    BY <2>1, <2>3 DEF DeliveryInv, ParkInv
<1>9. TypeOK'
  BY <1>1, <1>7 DEF DeliveryInv, TypeOK, recipientVars
<1>10. \A m \in Messages : EntryInv(m, outbox[m])'
  BY <1>1 DEF DeliveryInv, EntryInv, recipientVars
<1>11. WireInv'
  BY <1>1 DEF DeliveryInv, WireInv, Sent, recipientVars
<1>12. \A d \in Devices : ServeInv(d)' /\ RowsInv(d)'
  BY <1>1 DEF DeliveryInv, ServeInv, RowsInv, Sent, recipientVars
<1> QED
  BY <1>7, <1>8, <1>9, <1>10, <1>11, <1>12 DEF DeliveryInv

(* The sender's side of the invariant survives every step of the network   *)
(* and of the recipient, as devices never forget a committed id.           *)
LEMMA SenderKeeps ==
    ASSUME DeliveryInv, UNCHANGED senderVars,
           \A d \in Devices : inbox[d] \subseteq inbox'[d]
    PROVE  /\ \A m \in Messages : EntryInv(m, outbox[m])'
           /\ \A t \in Threads : ThreadInv(thread[t])'
           /\ ParkInv'
           /\ outbox' = outbox
<1>1. outbox' = outbox /\ thread' = thread
  BY DEF senderVars
<1>2. \A m \in Messages : EntryInv(m, outbox[m])'
  BY <1>1 DEF DeliveryInv, EntryInv, Ids
<1>3. /\ \A t \in Threads : ThreadInv(thread[t])'
      /\ ParkInv'
  BY <1>1, StillThreads DEF Sent
<1> QED
  BY <1>1, <1>2, <1>3

(* Steps that commit nothing on a device: frames are lost or taken, the    *)
(* recipient moves, requests end.                                          *)
LEMMA QuietStep ==
    ASSUME DeliveryInv,
           \/ \E id \in net : LoseFrame(id)
           \/ SwitchDevice
           \/ \E d \in Devices :
                 \/ PollDevice(d) \/ (\E id \in net : Receive(d, id))
                 \/ Refuse(d) \/ CrashDevice(d)
    PROVE  DeliveryInv'
<1>1. /\ UNCHANGED senderVars /\ inbox' = inbox /\ rows' = rows /\ acks' = acks
      /\ net' \subseteq net
  BY DEF LoseFrame, SwitchDevice, PollDevice, Receive, Refuse, CrashDevice,
         recipientVars
<1>2. /\ registry' \in Versions /\ deviceCurrent' \in [Devices -> BOOLEAN]
      /\ serving' \in [Devices -> Ids \cup {None}]
      /\ served' \in [Devices -> BOOLEAN]
  <2>1. CASE \E id \in net : LoseFrame(id)
    BY <2>1 DEF LoseFrame, recipientVars, DeliveryInv, TypeOK
  <2>3. CASE SwitchDevice
    <3>1. registry' \in Versions
      BY <2>3, DeliveryAssumption DEF SwitchDevice, Versions, DeliveryInv, TypeOK
    <3> QED
      BY <2>3, <3>1 DEF SwitchDevice, DeliveryInv, TypeOK
  <2>2. ASSUME NEW d \in Devices,
               \/ PollDevice(d) \/ (\E id \in net : Receive(d, id))
               \/ Refuse(d) \/ CrashDevice(d)
        PROVE  /\ registry' \in Versions /\ deviceCurrent' \in [Devices -> BOOLEAN]
               /\ serving' \in [Devices -> Ids \cup {None}]
               /\ served' \in [Devices -> BOOLEAN]
    <3>1. CASE PollDevice(d)
      BY <3>1 DEF PollDevice, DeliveryInv, TypeOK
    <3>2. CASE \E id \in net : Receive(d, id)
      BY <3>2 DEF Receive, DeliveryInv, TypeOK
    <3>3. CASE Refuse(d) \/ CrashDevice(d)
      BY <3>3 DEF Refuse, CrashDevice, DeliveryInv, TypeOK
    <3> QED
      BY <2>2, <3>1, <3>2, <3>3
  <2> QED
    BY <2>1, <2>2, <2>3
<1>3. TypeOK'
  BY <1>1, <1>2 DEF DeliveryInv, TypeOK, senderVars
<1>4. /\ \A m \in Messages : EntryInv(m, outbox[m])'
      /\ \A t \in Threads : ThreadInv(thread[t])'
      /\ ParkInv'
      /\ outbox' = outbox
  BY <1>1, SenderKeeps
<1>5. WireInv'
  BY <1>1, <1>4 DEF DeliveryInv, WireInv, Sent
<1>6. ASSUME NEW d \in Devices PROVE ServeInv(d)'
  <2>1. \/ serving'[d] = serving[d] /\ served'[d] = served[d]
        \/ serving'[d] = None /\ ~ served'[d]
        \/ serving'[d] \in net /\ serving'[d].dev = d /\ ~ served'[d]
    <3>1. CASE (\E id \in net : LoseFrame(id)) \/ SwitchDevice
      BY <3>1 DEF LoseFrame, SwitchDevice, recipientVars
    <3>2. ASSUME NEW c \in Devices,
                 \/ PollDevice(c) \/ (\E id \in net : Receive(c, id))
                 \/ Refuse(c) \/ CrashDevice(c)
          PROVE  <2>1!1 \/ <2>1!2 \/ <2>1!3
      <4>1. CASE PollDevice(c)
        BY <4>1 DEF PollDevice
      <4>2. CASE \E id \in net : Receive(c, id)
        BY <4>2 DEF Receive, DeliveryInv, TypeOK, ServeInv
      <4>3. CASE Refuse(c) \/ CrashDevice(c)
        BY <4>3 DEF Refuse, CrashDevice, DeliveryInv, TypeOK
      <4> QED
        BY <3>2, <4>1, <4>2, <4>3
    <3> QED
      BY <3>1, <3>2
  <2>2. ServeInv(d) /\ \A id \in net : Sent(id.msg)
    BY DEF DeliveryInv, WireInv
  <2> QED
    BY <1>1, <1>4, <2>1, <2>2 DEF ServeInv, Sent
<1>7. \A d \in Devices : RowsInv(d)'
  BY <1>1 DEF DeliveryInv, RowsInv
<1> QED
  BY <1>3, <1>4, <1>5, <1>6, <1>7 DEF DeliveryInv

(* Accept commits the id and the message together.                         *)
LEMMA AcceptStep ==
    ASSUME DeliveryInv, NEW d \in Devices, Accept(d)
    PROVE  DeliveryInv'
<1> DEFINE id == serving[d]
<1>1. /\ UNCHANGED <<senderVars, net, acks, registry, deviceCurrent, serving>>
      /\ id # None /\ inbox' = [inbox EXCEPT ![d] = @ \cup {id}]
      /\ served' = [served EXCEPT ![d] = TRUE]
      /\ rows' = IF id \notin inbox[d] /\ rows[d][id.msg] = 0
                   THEN [rows EXCEPT ![d][id.msg] = 1]
                   ELSE rows
  BY DEF Accept
<1>2. id \in Ids /\ id.dev = d /\ id.msg \in Messages
  BY <1>1 DEF DeliveryInv, TypeOK, ServeInv, Ids
<1> HIDE DEF id
<1>3. /\ inbox' \in [Devices -> SUBSET Ids]
      /\ \A c \in Devices : inbox'[c] = IF c = d THEN inbox[d] \cup {id} ELSE inbox[c]
  BY <1>1, <1>2 DEF DeliveryInv, TypeOK
<1>4. /\ rows' \in [Devices -> [Messages -> Nat]]
      /\ \A c \in Devices, m \in Messages :
            rows'[c][m] = IF /\ c = d /\ m = id.msg
                             /\ id \notin inbox[d] /\ rows[d][m] = 0
                          THEN 1 ELSE rows[c][m]
  BY <1>1, <1>2 DEF DeliveryInv, TypeOK
<1>5. TypeOK'
  BY <1>1, <1>3, <1>4 DEF DeliveryInv, TypeOK, senderVars
<1>6. /\ \A m \in Messages : EntryInv(m, outbox[m])'
      /\ \A t \in Threads : ThreadInv(thread[t])'
      /\ ParkInv'
      /\ outbox' = outbox
  BY <1>1, <1>3, SenderKeeps
<1>7. WireInv'
  BY <1>1, <1>3, <1>6 DEF DeliveryInv, TypeOK, WireInv, Sent, Ids
<1>8. \A c \in Devices : ServeInv(c)'
  BY <1>1, <1>3, <1>6 DEF DeliveryInv, TypeOK, ServeInv, Sent, id
<1>9. ASSUME NEW c \in Devices PROVE RowsInv(c)'
  <2>1. \A m \in Messages : rows[c][m] \in Nat /\ rows[c][m] <= 1
    BY DEF DeliveryInv, TypeOK, RowsInv
  <2>2. \A m \in Messages : rows'[c][m] <= 1 /\ (rows[c][m] > 0 => rows'[c][m] > 0)
    BY <1>4, <2>1
  <2>3. \A i \in inbox[c] : i.msg \in Messages /\ rows[c][i.msg] > 0
    BY DEF DeliveryInv, TypeOK, RowsInv, Ids
  <2>4. c = d => rows'[c][id.msg] > 0
    <3>1. CASE id \in inbox[d]
      BY <1>2, <2>2, <2>3, <3>1
    <3>2. CASE id \notin inbox[d]
      BY <1>2, <1>4, <2>1, <3>2
    <3> QED
      BY <3>1, <3>2
  <2> QED
    BY <1>3, <2>2, <2>3, <2>4 DEF RowsInv
<1> QED
  BY <1>5, <1>6, <1>7, <1>8, <1>9 DEF DeliveryInv

(* Reply acknowledges a committed id.                                      *)
LEMMA ReplyStep ==
    ASSUME DeliveryInv, NEW d \in Devices, Reply(d)
    PROVE  DeliveryInv'
<1>1. /\ UNCHANGED <<senderVars, net, registry, deviceCurrent, inbox, rows>>
      /\ acks' = acks \cup {serving[d]}
      /\ serving' = [serving EXCEPT ![d] = None]
      /\ served' = [served EXCEPT ![d] = FALSE]
  BY DEF Reply
<1>2. /\ serving[d] \in Ids /\ serving[d].dev = d /\ serving[d] \in inbox[d]
  BY DEF Reply, DeliveryInv, TypeOK, ServeInv
<1>3. TypeOK'
  BY <1>1, <1>2 DEF DeliveryInv, TypeOK, senderVars
<1>4. /\ \A m \in Messages : EntryInv(m, outbox[m])'
      /\ \A t \in Threads : ThreadInv(thread[t])'
      /\ ParkInv'
      /\ outbox' = outbox
  BY <1>1, SenderKeeps
<1>5. WireInv'
  BY <1>1, <1>2, <1>4 DEF DeliveryInv, WireInv, Sent
<1>6. \A c \in Devices : ServeInv(c)'
  BY <1>1, <1>4 DEF DeliveryInv, TypeOK, ServeInv, Sent
<1>7. \A c \in Devices : RowsInv(c)'
  BY <1>1 DEF DeliveryInv, RowsInv
<1> QED
  BY <1>3, <1>4, <1>5, <1>6, <1>7 DEF DeliveryInv

(* Nothing has been sent yet.                                              *)
LEMMA InitialInv == Init => DeliveryInv
<1> SUFFICES ASSUME Init PROVE DeliveryInv
  OBVIOUS
<1>1. TypeOK
  BY DeliveryAssumption, IdleType DEF Init, TypeOK, NoEntry, Entry, Statuses, Versions
<1>2. \A m \in Messages : EntryInv(m, outbox[m])
  BY DEF Init, EntryInv, NoEntry
<1>3. \A t \in Threads : ThreadInv(thread[t])
  BY DEF Init, ThreadInv, IdleThread
<1>4. ParkInv
  BY DEF Init, ParkInv, IdleThread
<1>5. WireInv
  BY DEF Init, WireInv
<1>6. \A d \in Devices : ServeInv(d) /\ RowsInv(d)
  BY DEF Init, ServeInv, RowsInv
<1> QED
  BY <1>1, <1>2, <1>3, <1>4, <1>5, <1>6 DEF DeliveryInv

(* Steps that change nothing.                                              *)
LEMMA StutterStep ==
    ASSUME DeliveryInv, UNCHANGED vars
    PROVE  DeliveryInv'
<1>1. UNCHANGED <<outbox, inbox, thread>>
  BY DEF vars
<1>2. /\ thread' \in [Threads -> Thread]
      /\ \A u \in Threads : ThreadInv(thread[u])'
      /\ ParkInv'
  BY <1>1, StillThreads DEF Sent
<1> QED
  BY <1>2, SenderOnly DEF vars, recipientVars, DeliveryInv, TypeOK

(* Every step keeps the invariant.                                         *)
LEMMA NextInv == DeliveryInv /\ [Next]_vars => DeliveryInv'
<1> SUFFICES ASSUME DeliveryInv, [Next]_vars PROVE DeliveryInv'
  OBVIOUS
<1>1. ASSUME NEW t \in Threads,
             \/ \E m \in Messages, v \in {0, registry} : StartSend(t, m, v)
             \/ StartFlush(t) \/ StartRetry(t) \/ ThreadStep(t) \/ Timeout(t)
      PROVE  DeliveryInv'
  <2>1. CASE \E m \in Messages, v \in {0, registry} : StartSend(t, m, v)
    BY <2>1, StartSendStep
  <2>2. CASE StartFlush(t) \/ StartRetry(t) \/ Timeout(t)
    BY <2>2, FlushStart, StartRetryStep, TimeoutStep
  <2>3. CASE \E e \in thread[t].todo, v \in {0, registry} : Fetch(t, e, v)
    BY <2>3, FetchStep
  <2>4. CASE Park(t) \/ Snapshot(t) \/ Lookup(t) \/ Push(t) \/ FinishFlush(t)
    BY <2>4, ParkStep, SnapshotStep, LookupStep, PushStep, FinishFlushStep
  <2>5. CASE PrepareSame(t) \/ PrepareFailed(t) \/ PrepareReseal(t) \/ Record(t)
    BY <2>5, PrepareSameStep, PrepareFailedStep, PrepareResealStep, RecordStep
  <2> QED
    BY <1>1, <2>1, <2>2, <2>3, <2>4, <2>5 DEF ThreadStep
<1>2. CASE \E m \in Messages : Elapse(m) \/ Cancel(m)
  BY <1>2, EntryStep
<1>3. CASE \/ Forget \/ (\E v \in Versions : Learn(v))
           \/ MoveSender \/ PollSender \/ CrashSender
  BY <1>3, SenderStep
<1>4. CASE \E ack \in acks : \E ts \in SUBSET Waiting(ack.dev) : AckArrives(ack, ts)
  BY <1>4, AckStep
<1>5. CASE \E d \in Devices : Accept(d) \/ Reply(d)
  BY <1>5, AcceptStep, ReplyStep
<1>6. CASE \/ \E id \in net : LoseFrame(id)
           \/ SwitchDevice
           \/ \E d \in Devices :
                 \/ PollDevice(d) \/ (\E id \in net : Receive(d, id))
                 \/ Refuse(d) \/ CrashDevice(d)
  BY <1>6, QuietStep
<1>7. CASE UNCHANGED vars
  BY <1>7, StutterStep
<1> QED
  BY <1>1, <1>2, <1>3, <1>4, <1>5, <1>6, <1>7 DEF Next

(* The invariant that the safety theorems follow from: what outbox,        *)
(* threads, wire and devices must agree on for an ACK to be evidence.      *)
THEOREM DeliveryInvariant == Spec => []DeliveryInv
<1>1. Init => DeliveryInv
  BY InitialInv
<1>2. DeliveryInv /\ [Next]_vars => DeliveryInv'
  BY NextInv
<1> QED
  BY <1>1, <1>2, PTL DEF Spec

(* Outbox, threads, wire and devices keep their types.                     *)
THEOREM TypeCorrect == Spec => []TypeOK
<1>1. DeliveryInv => TypeOK
  BY DEF DeliveryInv
<1> QED
  BY <1>1, DeliveryInvariant, PTL

(* An entry is called delivered only after its device committed it,        *)
(* although a waiting thread may be handed the reply to another.           *)
THEOREM DeliveredMeansAccepted == Spec => []DeliveredAccepted
<1>1. DeliveryInv => DeliveredAccepted
  BY DEF DeliveryInv, DeliveredAccepted, EntryInv
<1> QED
  BY <1>1, DeliveryInvariant, PTL

(* flush_shared_outbox and accept_delivery together never lose a message   *)
(* that can be resealed: it is pending with its material, or held.         *)
THEOREM MessagesNeverLost == Spec => []NeverLost
<1>1. ASSUME DeliveryInv, NEW m \in Resealable, outbox[m].status # "unsent"
      PROVE  \/ IsPending(outbox[m]) /\ outbox[m].plain
             \/ outbox[m].status = "delivered" /\ Held(m)
             \/ outbox[m].status = "cancelled"
  <2>1. m \in Messages /\ outbox[m] \in Entry /\ EntryInv(m, outbox[m])
    BY <1>1, DeliveryAssumption DEF DeliveryInv, TypeOK
  <2>2. outbox[m].status \in {"pending", "delivered", "cancelled"}
    BY <1>1, <2>1 DEF EntryInv, Entry, Statuses
  <2>3. CASE outbox[m].status = "pending"
    BY <1>1, <2>1, <2>3 DEF EntryInv, IsPending
  <2>4. CASE outbox[m].status = "delivered"
    <3>1. /\ outbox[m].id \in Ids /\ outbox[m].id.msg = m
          /\ outbox[m].id \in inbox[outbox[m].id.dev]
      BY <2>1, <2>4 DEF EntryInv
    <3>2. outbox[m].id.dev \in Devices
      BY <3>1 DEF Ids
    <3>3. rows[outbox[m].id.dev][m] > 0
      BY <1>1, <3>1, <3>2 DEF DeliveryInv, RowsInv
    <3> QED
      BY <2>4, <3>2, <3>3 DEF Held
  <2> QED
    BY <2>2, <2>3, <2>4
<1>2. DeliveryInv => NeverLost
  BY <1>1 DEF NeverLost
<1> QED
  BY <1>2, DeliveryInvariant, PTL

(* A message is in no transcript twice, however often and under however    *)
(* many delivery ids it arrives.                                           *)
THEOREM TranscriptsUnique == Spec => []NoDuplicates
<1>1. DeliveryInv => NoDuplicates
  BY DEF DeliveryInv, NoDuplicates, RowsInv
<1> QED
  BY <1>1, DeliveryInvariant, PTL

(* A delivered or failed entry has lost its ciphertext and its plaintext.  *)
THEOREM FinalsErased == Spec => []FinalErased
<1>1. DeliveryInv => FinalErased
  BY DEF DeliveryInv, FinalErased, EntryInv
<1> QED
  BY <1>1, DeliveryInvariant, PTL

(* The ways an entry of message m may change its status.                   *)
Becomes(m, old, new) ==
    \/ old = "unsent" /\ new = "pending"
    \/ old = "pending" /\ new = "delivered" /\ Held(m)
    \/ old = "pending" /\ new = "cancelled"
    \/ /\ new = "failed" /\ m \notin Resealable
       /\ SoloInv => old = "pending"

(* A step that leaves all statuses alone changes only pending entries.     *)
SameStatuses == \A m \in Messages :
    /\ outbox'[m].status = outbox[m].status
    /\ outbox'[m] = outbox[m] \/ outbox[m].status = "pending"

(* One entry takes another status, and no transcript changes.              *)
OneBecomes == \E m \in Messages : \E e \in Entry :
    /\ outbox' = [outbox EXCEPT ![m] = e]
    /\ Becomes(m, outbox[m].status, e.status)

(* Park and PrepareReseal, the steps that seal.                            *)
LEMMA SealingStep ==
    ASSUME DeliveryInv, NEW t \in Threads, Park(t) \/ PrepareReseal(t)
    PROVE  SameStatuses \/ OneBecomes
<1>0. /\ outbox \in [Messages -> Entry] /\ seals \in [Messages -> Nat]
      /\ thread[t] \in Thread /\ ThreadInv(thread[t])
  BY DEF DeliveryInv, TypeOK
<1>1. CASE Park(t)
  <2> DEFINE m == thread[t].msg
             v == Apply(thread[t].fetched)
             id == [msg |-> m, seal |-> seals[m] + 1, dev |-> ActiveDevice[v]]
             e == [status |-> "pending", id |-> id, item |-> TRUE,
                   plain |-> m \in Resealable, due |-> TRUE]
  <2>1. m \in Messages /\ outbox[m].status = "unsent"
    BY <1>0, <1>1 DEF Park, ThreadInv, Thread, Sent
  <2>2. v \in Versions \cup {0}
    BY <1>0, DeliveryAssumption DEF Apply, Pin, DeliveryInv, TypeOK, Versions, Thread
  <2>3. CASE v = 0
    BY <1>1, <2>3 DEF Park, SameStatuses
  <2>4. CASE v # 0
    <3>1. id \in Ids
      BY <1>0, <2>1, <2>2, <2>4, DeliveryAssumption DEF Ids
    <3>2. outbox' = [outbox EXCEPT ![m] = e]
      BY <1>1, <2>4 DEF Park
    <3> HIDE DEF id
    <3>3. e \in Entry /\ e.status = "pending"
      BY <3>1 DEF Entry, Statuses
    <3> HIDE DEF e
    <3> QED
      BY <2>1, <3>2, <3>3 DEF OneBecomes, Becomes
  <2> QED
    BY <2>3, <2>4
<1>2. CASE PrepareReseal(t)
  <2> DEFINE m == thread[t].entry.id.msg
             new == [msg |-> m, seal |-> seals[m] + 1, dev |-> thread[t].dev]
  <2>1. CASE UNCHANGED outbox
    BY <2>1 DEF SameStatuses
  <2>2. CASE ~ UNCHANGED outbox
    <3>1. /\ outbox' = [outbox EXCEPT ![m].id = new, ![m].due = TRUE]
          /\ outbox[m].status = "pending"
      BY <1>2, <2>2 DEF PrepareReseal, IsPending
    <3> HIDE DEF new, m
    <3>2. \A n \in Messages : /\ outbox'[n].status = outbox[n].status
                              /\ outbox'[n] = outbox[n] \/ outbox[n].status = "pending"
      BY <1>0, <3>1 DEF Entry
    <3> QED
      BY <3>2 DEF SameStatuses
  <2> QED
    BY <2>1, <2>2
<1> QED
  BY <1>1, <1>2

(* PrepareFailed and Record, the steps that end a delivery.                *)
LEMMA EndingStep ==
    ASSUME DeliveryInv, NEW t \in Threads, PrepareFailed(t) \/ Record(t)
    PROVE  SameStatuses \/ OneBecomes
<1>0. outbox \in [Messages -> Entry] /\ thread[t] \in Thread /\ ThreadInv(thread[t])
  BY DEF DeliveryInv, TypeOK
<1>1. CASE UNCHANGED outbox
  BY <1>1 DEF SameStatuses
<1>2. CASE PrepareFailed(t) /\ ~ UNCHANGED outbox
  <2> DEFINE m == thread[t].entry.id.msg
  <2>1. outbox' = [outbox EXCEPT ![m] = Erased(outbox[m], "failed")]
    BY <1>2 DEF PrepareFailed, MarkFailed
  <2>2. m \in Messages /\ m \notin Resealable
    BY <1>0, <1>2 DEF PrepareFailed, ThreadInv, CopyInv, Copy, Ids
  <2>4. SoloInv => outbox[m].status = "pending"
    BY <1>2 DEF PrepareFailed, SoloInv, FlusherInv, Fresh, IsPending
  <2> HIDE DEF m
  <2>3. /\ Erased(outbox[m], "failed") \in Entry
        /\ Erased(outbox[m], "failed").status = "failed"
    BY <1>0, <2>2 DEF Erased, Entry, Statuses
  <2> QED
    BY <2>1, <2>2, <2>3, <2>4 DEF OneBecomes, Becomes
<1>3. CASE Record(t) /\ ~ UNCHANGED outbox
  <2> DEFINE id == thread[t].id
             m == id.msg
  <2>1. /\ id \in Ids
        /\ thread[t].accepted => id \in inbox[id.dev]
    BY <1>0, <1>3 DEF Record, ThreadInv
  <2>2. m \in Messages /\ id.dev \in Devices
    BY <2>1 DEF Ids
  <2>3. /\ outbox[m].status = "pending"
        /\ outbox' = [outbox EXCEPT ![m] =
                         IF thread[t].accepted THEN Erased(outbox[m], "delivered")
                         ELSE [outbox[m] EXCEPT !.due = FALSE]]
    BY <1>3 DEF Record, RecordAttempt, IsPending
  <2>4. CASE thread[t].accepted
    <3>1. /\ Erased(outbox[m], "delivered") \in Entry
          /\ Erased(outbox[m], "delivered").status = "delivered"
      <4>1. outbox[m] \in Entry
        BY <1>0, <2>2
      <4> HIDE DEF m
      <4> QED
        BY <4>1 DEF Erased, Entry, Statuses
    <3>2. Held(m)
      BY <2>1, <2>2, <2>4 DEF Held, DeliveryInv, RowsInv
    <3> QED
      BY <2>2, <2>3, <2>4, <3>1, <3>2 DEF OneBecomes, Becomes
  <2>5. CASE ~ thread[t].accepted
    <3>1. outbox' = [outbox EXCEPT ![m] = [outbox[m] EXCEPT !.due = FALSE]]
      BY <2>3, <2>5
    <3> HIDE DEF m
    <3>2. \A n \in Messages : /\ outbox'[n].status = outbox[n].status
                              /\ outbox'[n] = outbox[n] \/ outbox[n].status = "pending"
      BY <1>0, <2>3, <3>1 DEF Entry
    <3> QED
      BY <3>2 DEF SameStatuses
  <2> QED
    BY <2>4, <2>5
<1> QED
  BY <1>1, <1>2, <1>3

(* StartRetry, Elapse and Cancel.                                          *)
LEMMA RescheduleStep ==
    ASSUME DeliveryInv,
           \/ \E t \in Threads : StartRetry(t)
           \/ \E m \in Messages : Elapse(m) \/ Cancel(m)
    PROVE  SameStatuses \/ OneBecomes
<1>0. outbox \in [Messages -> Entry]
  BY DEF DeliveryInv, TypeOK
<1>1. CASE \E t \in Threads : StartRetry(t)
  <2>1. outbox' = [m \in Messages |->
                    IF IsPending(outbox[m]) THEN [outbox[m] EXCEPT !.due = TRUE]
                                            ELSE outbox[m]]
    BY <1>1 DEF StartRetry
  <2> QED
    BY <1>0, <2>1 DEF SameStatuses, IsPending, Entry
<1>2. ASSUME NEW m \in Messages, Elapse(m)
      PROVE  SameStatuses
  <2>1. /\ outbox' = [outbox EXCEPT ![m].due = TRUE]
        /\ outbox[m].status = "pending"
    BY <1>2 DEF Elapse, IsPending
  <2>2. \A n \in Messages : /\ outbox'[n].status = outbox[n].status
                            /\ outbox'[n] = outbox[n] \/ outbox[n].status = "pending"
    BY <1>0, <2>1 DEF Entry
  <2> QED
    BY <2>2 DEF SameStatuses
<1>3. ASSUME NEW m \in Messages, Cancel(m)
      PROVE  OneBecomes
  <2> DEFINE e == [outbox[m] EXCEPT !.status = "cancelled", !.due = TRUE]
  <2>1. e \in Entry /\ e.status = "cancelled"
    BY <1>0 DEF Entry, Statuses
  <2>2. outbox' = [outbox EXCEPT ![m] = e] /\ outbox[m].status = "pending"
    BY <1>0, <1>3 DEF Cancel, IsPending, Entry
  <2> HIDE DEF e
  <2> QED
    BY <2>1, <2>2 DEF OneBecomes, Becomes
<1> QED
  BY <1>1, <1>2, <1>3

(* No step does more to the outbox.  A step that changes it changes no     *)
(* transcript.                                                             *)
LEMMA OutboxStep ==
    ASSUME DeliveryInv, [Next]_vars
    PROVE  \/ UNCHANGED outbox
           \/ UNCHANGED rows /\ (SameStatuses \/ OneBecomes)
<1> DEFINE Goal == UNCHANGED outbox \/ (UNCHANGED rows /\ (SameStatuses \/ OneBecomes))
<1> SUFFICES Goal
  OBVIOUS
<1>1. ASSUME NEW t \in Threads,
             \/ \E m \in Messages, v \in {0, registry} : StartSend(t, m, v)
             \/ StartFlush(t) \/ StartRetry(t) \/ ThreadStep(t) \/ Timeout(t)
      PROVE  Goal
  <2>1. CASE \/ \E m \in Messages, v \in {0, registry} : StartSend(t, m, v)
             \/ StartFlush(t) \/ Timeout(t)
    BY <2>1 DEF StartSend, StartFlush, Timeout
  <2>2. CASE StartRetry(t)
    BY <2>2, RescheduleStep DEF StartRetry, recipientVars
  <2>3. CASE \E e \in thread[t].todo, v \in {0, registry} : Fetch(t, e, v)
    BY <2>3 DEF Fetch
  <2>4. CASE Snapshot(t) \/ Lookup(t) \/ Push(t) \/ FinishFlush(t) \/ PrepareSame(t)
    BY <2>4 DEF Snapshot, Lookup, Push, FinishFlush, PrepareSame
  <2>5. CASE Park(t) \/ PrepareReseal(t)
    BY <2>5, SealingStep DEF Park, PrepareReseal, recipientVars
  <2>6. CASE PrepareFailed(t) \/ Record(t)
    BY <2>6, EndingStep DEF PrepareFailed, Record, recipientVars
  <2> HIDE DEF Goal
  <2> QED
    BY <1>1, <2>1, <2>2, <2>3, <2>4, <2>5, <2>6 DEF ThreadStep
<1>2. CASE \E m \in Messages : Elapse(m) \/ Cancel(m)
  BY <1>2, RescheduleStep DEF Elapse, Cancel, recipientVars
<1>3. CASE \/ Forget \/ (\E v \in Versions : Learn(v))
           \/ MoveSender \/ PollSender \/ CrashSender
  BY <1>3 DEF Forget, Learn, MoveSender, PollSender, CrashSender
<1>4. CASE \/ \E ack \in acks : \E ts \in SUBSET Waiting(ack.dev) : AckArrives(ack, ts)
           \/ (\E id \in net : LoseFrame(id)) \/ SwitchDevice
  BY <1>4 DEF AckArrives, LoseFrame, SwitchDevice, senderVars
<1>5. ASSUME NEW d \in Devices,
             \/ PollDevice(d) \/ (\E id \in net : Receive(d, id))
             \/ Accept(d) \/ Reply(d) \/ Refuse(d) \/ CrashDevice(d)
      PROVE  Goal
  BY <1>5 DEF PollDevice, Receive, Accept, Reply, Refuse, CrashDevice, senderVars
<1>6. CASE UNCHANGED vars
  BY <1>6 DEF vars
<1> HIDE DEF Goal
<1> QED
  BY <1>1, <1>2, <1>3, <1>4, <1>5, <1>6 DEF Next

(* No late result of another flush, and no restart, changes a delivered or *)
(* cancelled entry of a message that can be resealed (record_attempt,      *)
(* readdress_pending).                                                     *)
THEOREM FinalsStay == Spec => FinalIsFinal
<1>1. ASSUME DeliveryInv, [Next]_vars, NEW m \in Resealable
      PROVE  KeepsFinal(m)
  <2>1. m \in Messages /\ outbox \in [Messages -> Entry]
    BY <1>1, DeliveryAssumption DEF DeliveryInv, TypeOK
  <2>2. m \in Resealable => outbox[m].status # "failed"
    BY <1>1, <2>1 DEF DeliveryInv, EntryInv
  <2>3. CASE UNCHANGED outbox
    BY <2>3 DEF KeepsFinal
  <2>4. CASE SameStatuses
    BY <2>1, <2>4 DEF KeepsFinal, SameStatuses, Final
  <2>5. CASE OneBecomes
    BY <2>1, <2>5 DEF KeepsFinal, OneBecomes, Becomes, Final
  <2> QED
    BY <1>1, <2>3, <2>4, <2>5, OutboxStep
<1>2. DeliveryInv /\ [Next]_vars => [\A m \in Resealable : KeepsFinal(m)]_vars
  BY <1>1
<1> QED
  BY <1>2, DeliveryInvariant, PTL DEF Spec, FinalIsFinal

-----------------------------------------------------------------------------
(* The command-line client: a single flusher.                              *)

(* The outbox still has, of message m, what a flush has copied.            *)
Steady(m) == /\ IsPending(outbox'[m]) = IsPending(outbox[m])
             /\ outbox'[m].id = outbox[m].id
             /\ outbox'[m].plain = outbox[m].plain

(* When one entry changes, the others stay.                                *)
LEMMA OthersSteady ==
    ASSUME DeliveryInv, NEW m \in Messages, NEW e, outbox' = [outbox EXCEPT ![m] = e]
    PROVE  \A n \in Messages : n # m => Steady(n)
<1>1. \A n \in Messages : n # m => outbox'[n] = outbox[n]
  BY DEF DeliveryInv, TypeOK
<1> QED
  BY <1>1 DEF Steady

(* The flusher's own steps.                                                *)
LEMMA FlusherStep ==
    ASSUME DeliveryInv, SoloInv, NEW t \in Threads,
           \/ \E m \in Messages, v \in {0, registry} : StartSend(t, m, v)
           \/ StartFlush(t) \/ StartRetry(t) \/ ThreadStep(t) \/ Timeout(t)
    PROVE  FlusherInv(thread[t])'
<1>0. /\ outbox \in [Messages -> Entry] /\ thread \in [Threads -> Thread]
      /\ thread[t] \in Thread /\ ThreadInv(thread[t]) /\ FlusherInv(thread[t])
  BY DEF DeliveryInv, TypeOK, SoloInv
<1>s. \A th : SetThread(t, th) => thread'[t] = th
  BY <1>0 DEF SetThread
<1>c. \A c \in thread[t].todo : c \in Copy /\ c.id \in Ids /\ c.id.msg \in Messages
  BY <1>0 DEF Thread, Copy, Ids
<1>u. ASSUME UNCHANGED outbox PROVE \A m \in Messages : Steady(m)
  BY <1>u DEF Steady
<1>l. /\ Loop(t).todo = thread[t].todo /\ Loop(t).pc = "loop"
      /\ \A id : /\ PushOf(t, id).todo = thread[t].todo /\ PushOf(t, id).pc = "push"
                 /\ PushOf(t, id).id = id
  BY DEF Loop, PushOf, IdleThread
<1>n. ASSUME NEW th, SetThread(t, th), th.todo = {}, th.pc \notin {"lookup", "prepare"}
      PROVE  FlusherInv(thread[t])'
  BY <1>n, <1>s DEF FlusherInv
<1>1. ASSUME NEW m, NEW v, StartSend(t, m, v) PROVE FlusherInv(thread[t])'
  BY <1>1, <1>n DEF StartSend, IdleThread
<1>2. CASE StartFlush(t) \/ StartRetry(t) \/ FinishFlush(t)
  BY <1>2, <1>n DEF StartFlush, StartRetry, FinishFlush, IdleThread
<1>3. CASE Park(t)
  <2>1. PICK id : SetThread(t, IdleThread)
                  \/ SetThread(t, [IdleThread EXCEPT !.pc = "push", !.id = id])
    BY <1>3 DEF Park
  <2> QED
    BY <2>1, <1>n DEF IdleThread
<1>4. CASE Snapshot(t)
  <2> DEFINE todo == {[id |-> e.id, plain |-> e.plain] :
                        e \in {outbox[m] : m \in {n \in Messages :
                                 IsPending(outbox[n]) /\ outbox[n].due}}}
  <2>1. thread'[t].todo = todo /\ thread'[t].pc = "loop" /\ UNCHANGED outbox
    BY <1>4, <1>s DEF Snapshot, IdleThread
  <2>2. ASSUME NEW c \in todo PROVE Fresh(c)
    <3>1. PICK m \in Messages : /\ IsPending(outbox[m])
                                /\ c = [id |-> outbox[m].id, plain |-> outbox[m].plain]
      OBVIOUS
    <3>2. outbox[m].id.msg = m
      BY <3>1 DEF DeliveryInv, EntryInv, IsPending
    <3> QED
      BY <3>1, <3>2 DEF Fresh
  <2> HIDE DEF todo
  <2> QED
    BY <2>1, <2>2 DEF FlusherInv, Fresh
<1>5. ASSUME NEW e \in thread[t].todo, NEW v, Fetch(t, e, v) PROVE FlusherInv(thread[t])'
  <2>1. /\ thread'[t].todo = thread[t].todo \ {e} /\ thread'[t].entry = e
        /\ thread'[t].pc = "lookup" /\ UNCHANGED outbox
    BY <1>5, <1>s DEF Fetch, IdleThread
  <2>2. \A c \in thread[t].todo : Fresh(c)
    BY <1>0 DEF FlusherInv
  <2>3. ASSUME NEW c \in thread[t].todo \ {e} PROVE c.id.msg # e.id.msg
    <3>1. c.id.msg = e.id.msg => c.id = e.id /\ c.plain = e.plain
      BY <2>2 DEF Fresh
    <3> QED
      BY <3>1, <1>c DEF Copy
  <2> QED
    BY <2>1, <2>2, <2>3 DEF FlusherInv, Fresh
<1>6. CASE Lookup(t)
  <2>1. /\ thread'[t].todo = thread[t].todo /\ UNCHANGED outbox
        /\ \/ thread'[t].pc = "record" /\ thread'[t].id = thread[t].entry.id
           \/ thread'[t].pc = "prepare" /\ thread'[t].entry = thread[t].entry
    BY <1>6, <1>s, <1>0 DEF Lookup, Thread
  <2>2. thread[t].pc = "lookup"
    BY <1>6 DEF Lookup
  <2> QED
    BY <2>1, <2>2, <1>0 DEF FlusherInv, Fresh
<1>7. CASE PrepareSame(t)
  <2>1. /\ thread'[t].todo = thread[t].todo /\ UNCHANGED outbox
        /\ thread'[t].pc = "push" /\ thread'[t].id = thread[t].entry.id
        /\ thread[t].pc = "prepare"
    BY <1>7, <1>s, <1>l DEF PrepareSame
  <2> QED
    BY <2>1, <1>0 DEF FlusherInv, Fresh
<1>8. CASE Push(t) \/ Timeout(t)
  <2>1. /\ thread'[t].todo = thread[t].todo /\ UNCHANGED outbox
        /\ thread'[t].pc \in {"wait", "record"} /\ thread'[t].id = thread[t].id
        /\ thread[t].pc \in {"push", "wait"}
    BY <1>8, <1>s, <1>0 DEF Push, Timeout, Thread
  <2> QED
    BY <2>1, <1>0 DEF FlusherInv, Fresh
(* The steps that change an entry: it is not among those still to try.     *)
<1>o. ASSUME NEW m \in Messages, NEW e,
             UNCHANGED outbox \/ outbox' = [outbox EXCEPT ![m] = e],
             \A c \in thread[t].todo : c.id.msg # m
      PROVE  \A c \in thread[t].todo : Fresh(c)'
  <2>1. \A c \in thread[t].todo : Steady(c.id.msg)
    BY <1>o, <1>u, <1>c, OthersSteady
  <2>2. \A c \in thread[t].todo : Fresh(c)
    BY <1>0 DEF FlusherInv
  <2> QED
    BY <2>1, <2>2 DEF Steady, Fresh
<1>9. CASE PrepareFailed(t) \/ PrepareReseal(t)
  <2>a. PICK m : m = thread[t].entry.id.msg
    OBVIOUS
  <2>1. m \in Messages /\ thread[t].pc = "prepare"
    BY <1>0, <1>9, <2>a DEF PrepareFailed, PrepareReseal, ThreadInv, Copy, Ids
  <2>2. \A c \in thread[t].todo : c.id.msg # m
    BY <1>0, <2>a, <2>1 DEF FlusherInv
  <2>3. /\ thread'[t].todo = thread[t].todo
        /\ \/ thread'[t].pc = "loop"
           \/ thread'[t].pc = "push" /\ thread'[t].id.msg = m
    <3>1. CASE PrepareFailed(t)
      BY <3>1, <1>s, <1>l DEF PrepareFailed
    <3>2. CASE PrepareReseal(t)
      <4> DEFINE new == [msg |-> m, seal |-> seals[m] + 1, dev |-> thread[t].dev]
      <4>1. SetThread(t, PushOf(t, new)) \/ SetThread(t, Loop(t))
        BY <3>2, <2>a DEF PrepareReseal
      <4>2. new.msg = m
        OBVIOUS
      <4> HIDE DEF new
      <4> QED
        BY <4>1, <4>2, <1>s, <1>l
    <3> QED
      BY <1>9, <3>1, <3>2
  <2>4. \E e : UNCHANGED outbox \/ outbox' = [outbox EXCEPT ![m] = e]
    <3>1. CASE PrepareFailed(t)
      BY <3>1, <2>a DEF PrepareFailed, MarkFailed
    <3>2. CASE PrepareReseal(t)
      <4> DEFINE new == [msg |-> m, seal |-> seals[m] + 1, dev |-> thread[t].dev]
      <4>1. \/ UNCHANGED outbox
            \/ outbox' = [outbox EXCEPT ![m].id = new, ![m].due = TRUE]
        BY <3>2, <2>a DEF PrepareReseal
      <4> HIDE DEF new
      <4>2. CASE outbox' = [outbox EXCEPT ![m].id = new, ![m].due = TRUE]
        <5>1. outbox' = [outbox EXCEPT ![m] = [outbox[m] EXCEPT !.id = new, !.due = TRUE]]
          BY <4>2, <1>0, <2>1
        <5> QED
          BY <5>1
      <4> QED
        BY <4>1, <4>2
    <3> QED
      BY <1>9, <3>1, <3>2
  <2>5. \A c \in thread[t].todo : Fresh(c)'
    BY <2>1, <2>2, <2>4, <1>o
  <2> QED
    BY <2>2, <2>3, <2>5 DEF FlusherInv
<1>10. CASE Record(t)
  <2>a. PICK m : m = thread[t].id.msg
    OBVIOUS
  <2>1. m \in Messages /\ thread[t].pc = "record"
    BY <1>0, <1>10, <2>a DEF Record, ThreadInv, Ids
  <2>2. \A c \in thread[t].todo : c.id.msg # m
    BY <1>0, <2>a, <2>1 DEF FlusherInv
  <2>3. thread'[t].todo = thread[t].todo /\ thread'[t].pc = "loop"
    BY <1>10, <1>s, <1>l DEF Record
  <2>4. \E e : UNCHANGED outbox \/ outbox' = [outbox EXCEPT ![m] = e]
    BY <1>10, <2>a DEF Record, RecordAttempt
  <2>5. \A c \in thread[t].todo : Fresh(c)'
    BY <2>1, <2>2, <2>4, <1>o
  <2> QED
    BY <2>3, <2>5 DEF FlusherInv
<1> QED
  BY <1>1, <1>2, <1>3, <1>4, <1>5, <1>6, <1>7, <1>8, <1>9, <1>10 DEF ThreadStep

(* Steps of others that leave the outbox and the flusher alone.            *)
LEMMA FlusherStays ==
    ASSUME SoloInv, UNCHANGED <<outbox, thread>>
    PROVE  SoloInv'
BY DEF SoloInv, FlusherInv, Fresh

(* What a single flusher relies on survives every step.                    *)
LEMMA SoloStep ==
    ASSUME \A t, u \in Threads : t = u, DeliveryInv, SoloInv, [Next]_vars
    PROVE  SoloInv'
<1>0. outbox \in [Messages -> Entry] /\ thread \in [Threads -> Thread]
  BY DEF DeliveryInv, TypeOK
<1>1. ASSUME NEW t \in Threads,
             \/ \E m \in Messages, v \in {0, registry} : StartSend(t, m, v)
             \/ StartFlush(t) \/ StartRetry(t) \/ ThreadStep(t) \/ Timeout(t)
      PROVE  SoloInv'
  <2>1. FlusherInv(thread[t])'
    BY <1>1, FlusherStep
  <2> QED
    BY <2>1 DEF SoloInv
<1>2. ASSUME NEW m \in Messages, Elapse(m) PROVE SoloInv'
  <2>1. outbox' = [outbox EXCEPT ![m].due = TRUE] /\ UNCHANGED thread
    BY <1>2 DEF Elapse
  <2>2. \A n \in Messages : Steady(n)
    BY <1>0, <2>1 DEF Steady, IsPending, Entry
  <2>3. ASSUME NEW c, c.id.msg \in Messages, Fresh(c) PROVE Fresh(c)'
    BY <2>2, <2>3 DEF Fresh, Steady
  <2> SUFFICES ASSUME NEW t \in Threads PROVE FlusherInv(thread[t])'
    BY DEF SoloInv
  <2>4. thread'[t] = thread[t] /\ FlusherInv(thread[t])
    BY <2>1 DEF SoloInv
  <2>5. \A c \in thread[t].todo : c.id.msg \in Messages
    BY <1>0 DEF Thread, Copy, Ids
  <2>6. thread[t].pc \in {"lookup", "prepare"} => thread[t].entry.id.msg \in Messages
    BY DEF DeliveryInv, ThreadInv, Copy, Ids
  <2> QED
    BY <2>3, <2>4, <2>5, <2>6 DEF FlusherInv
<1>3. ASSUME NEW m \in Messages, Cancel(m) PROVE SoloInv'
  <2>1. \A t \in Threads : thread[t].pc = "idle" /\ thread'[t] = thread[t]
    BY <1>3 DEF Cancel, Alone
  <2> QED
    BY <2>1 DEF SoloInv, FlusherInv
<1>4. CASE CrashSender
  <2>1. \A t \in Threads : thread'[t] = IdleThread
    BY <1>4 DEF CrashSender
  <2> QED
    BY <2>1 DEF SoloInv, FlusherInv, IdleThread
<1>5. CASE Forget \/ (\E v \in Versions : Learn(v)) \/ MoveSender \/ PollSender
  BY <1>5, FlusherStays DEF Forget, Learn, MoveSender, PollSender
<1>6. ASSUME NEW ack, NEW ts \in SUBSET Waiting(ack.dev), AckArrives(ack, ts)
      PROVE  SoloInv'
  <2> SUFFICES ASSUME NEW t \in Threads PROVE FlusherInv(thread[t])'
    BY DEF SoloInv
  <2>1. UNCHANGED outbox /\ FlusherInv(thread[t]) /\ thread[t] \in Thread
    BY <1>0, <1>6 DEF AckArrives, SoloInv
  <2>2. CASE t \in ts
    <3>1. thread[t].pc = "wait"
      BY <1>6, <2>2 DEF Waiting
    <3>2. /\ thread'[t].pc = "record" /\ thread'[t].todo = thread[t].todo
          /\ thread'[t].id = thread[t].id
      BY <1>6, <2>1, <2>2 DEF AckArrives, Thread
    <3> QED
      BY <2>1, <3>1, <3>2 DEF FlusherInv, Fresh
  <2>3. CASE t \notin ts
    <3>1. thread'[t] = thread[t]
      BY <1>6, <2>3 DEF AckArrives
    <3> QED
      BY <2>1, <3>1 DEF FlusherInv, Fresh
  <2> QED
    BY <2>2, <2>3
<1>7. CASE (\E id \in net : LoseFrame(id)) \/ SwitchDevice
  BY <1>7, FlusherStays DEF LoseFrame, SwitchDevice, senderVars
<1>8. ASSUME NEW d \in Devices,
             \/ PollDevice(d) \/ (\E id \in net : Receive(d, id))
             \/ Accept(d) \/ Reply(d) \/ Refuse(d) \/ CrashDevice(d)
      PROVE  SoloInv'
  BY <1>8, FlusherStays
  DEF PollDevice, Receive, Accept, Reply, Refuse, CrashDevice, senderVars
<1>9. CASE UNCHANGED vars
  BY <1>9, FlusherStays DEF vars
<1> QED
  BY <1>1, <1>2, <1>3, <1>4, <1>5, <1>6, <1>7, <1>8, <1>9 DEF Next

(* A single flusher never works on a stale copy.                           *)
THEOREM SoloInvariant ==
    ASSUME \A t, u \in Threads : t = u
    PROVE  Spec => []SoloInv
<1>1. Init => SoloInv
  BY DEF Init, SoloInv, FlusherInv, IdleThread
<1>2. DeliveryInv /\ SoloInv /\ [Next]_vars => SoloInv'
  BY SoloStep
<1> QED
  BY <1>1, <1>2, DeliveryInvariant, PTL DEF Spec

-----------------------------------------------------------------------------
(* The refinement of MessageDelivery.                                      *)

(* The statuses and the devices that hold a message, as MessageDelivery    *)
(* sees them.                                                              *)
StatusOf == [m \in Messages |-> outbox[m].status]
HeldBy == [m \in Messages |-> {d \in Devices : rows[d][m] > 0}]

(* One entry takes another status: MessageDelivery sends, completes, gives *)
(* up or cancels that message.                                             *)
LEMMA BecomesStep ==
    ASSUME DeliveryInv, Resealable = Messages \/ SoloInv, OneBecomes, UNCHANGED rows
    PROVE  Promise!Next
<1>1. PICK m \in Messages, e \in Entry :
        /\ outbox' = [outbox EXCEPT ![m] = e]
        /\ Becomes(m, outbox[m].status, e.status)
  BY DEF OneBecomes
<1>2. StatusOf' = [StatusOf EXCEPT ![m] = e.status]
  <2>1. \A n \in Messages : outbox'[n] = IF n = m THEN e ELSE outbox[n]
    BY <1>1 DEF DeliveryInv, TypeOK
  <2> QED
    BY <2>1 DEF StatusOf
<1>3. HeldBy' = HeldBy
  BY DEF HeldBy
<1>4. StatusOf[m] = outbox[m].status /\ (Held(m) => HeldBy[m] # {})
  BY DEF StatusOf, HeldBy, Held
<1>5. Promise!Send(m) \/ Promise!Complete(m) \/ Promise!GiveUp(m) \/ Promise!Cancel(m)
  BY <1>1, <1>2, <1>3, <1>4
     DEF Becomes, Promise!Send, Promise!Complete, Promise!GiveUp, Promise!Cancel,
         StatusOf, HeldBy
<1> QED
  BY <1>5 DEF Promise!Next

(* Only Accept writes a transcript.                                        *)
LEMMA RowsStep ==
    ASSUME [Next]_vars
    PROVE  UNCHANGED rows \/ \E d \in Devices : Accept(d)
<1>1. ASSUME NEW t \in Threads,
             \/ \E m \in Messages, v \in {0, registry} : StartSend(t, m, v)
             \/ StartFlush(t) \/ StartRetry(t) \/ ThreadStep(t) \/ Timeout(t)
      PROVE  UNCHANGED rows
  BY <1>1 DEF StartSend, StartFlush, StartRetry, Timeout, ThreadStep, Park, Snapshot,
              Fetch, Lookup, PrepareSame, PrepareFailed, PrepareReseal, Push, Record,
              FinishFlush, recipientVars
<1>2. CASE \/ \E m \in Messages : Elapse(m) \/ Cancel(m)
           \/ Forget \/ (\E v \in Versions : Learn(v))
           \/ MoveSender \/ PollSender \/ CrashSender
  BY <1>2 DEF Elapse, Cancel, Forget, Learn, MoveSender, PollSender, CrashSender,
              recipientVars
<1>3. CASE \/ \E ack \in acks : \E ts \in SUBSET Waiting(ack.dev) : AckArrives(ack, ts)
           \/ (\E id \in net : LoseFrame(id)) \/ SwitchDevice
  BY <1>3 DEF AckArrives, LoseFrame, SwitchDevice, recipientVars
<1>4. ASSUME NEW d \in Devices,
             \/ PollDevice(d) \/ (\E id \in net : Receive(d, id))
             \/ Reply(d) \/ Refuse(d) \/ CrashDevice(d)
      PROVE  UNCHANGED rows
  BY <1>4 DEF PollDevice, Receive, Reply, Refuse, CrashDevice
<1>5. CASE UNCHANGED vars
  BY <1>5 DEF vars
<1> QED
  BY <1>1, <1>2, <1>3, <1>4, <1>5 DEF Next

(* The outbox stays: a device may have accepted a message, which was sent. *)
LEMMA HoldsStep ==
    ASSUME DeliveryInv, [Next]_vars, UNCHANGED outbox
    PROVE  UNCHANGED <<StatusOf, HeldBy>> \/ Promise!Next
<1>1. StatusOf' = StatusOf
  BY DEF StatusOf
<1>2. CASE UNCHANGED rows
  BY <1>1, <1>2 DEF HeldBy
<1>3. CASE ~ UNCHANGED rows
  <2>1. PICK d \in Devices : Accept(d)
    BY <1>3, RowsStep
  <2>2. serving[d] \in Ids /\ Sent(serving[d].msg)
    BY <2>1 DEF Accept, DeliveryInv, TypeOK, ServeInv
  <2>3. PICK m \in Messages : m = serving[d].msg
    BY <2>2 DEF Ids
  <2>4. rows' = [rows EXCEPT ![d][m] = 1]
    BY <1>3, <2>1, <2>3 DEF Accept
  <2>5. \A c \in Devices, n \in Messages :
           rows'[c][n] = IF c = d /\ n = m THEN 1 ELSE rows[c][n]
    BY <2>3, <2>4 DEF DeliveryInv, TypeOK
  <2>6. ASSUME NEW n \in Messages
        PROVE  HeldBy'[n] = IF n = m THEN HeldBy[n] \cup {d} ELSE HeldBy[n]
    BY <2>5 DEF HeldBy
  <2>7. HeldBy' = [HeldBy EXCEPT ![m] = @ \cup {d}]
    BY <2>3, <2>6 DEF HeldBy
  <2>8. StatusOf[m] # "unsent"
    BY <2>2, <2>3 DEF StatusOf, Sent
  <2>9. Promise!Arrive(m, d)
    BY <1>1, <2>7, <2>8 DEF Promise!Arrive, StatusOf, HeldBy
  <2>10. Promise!Next
    BY <2>9 DEF Promise!Next
  <2> QED
    BY <2>10
<1> QED
  BY <1>2, <1>3

(* Every step maps to a step of MessageDelivery or to none.                *)
LEMMA RefineStep ==
    ASSUME DeliveryInv, Resealable = Messages \/ SoloInv, [Next]_vars
    PROVE  UNCHANGED <<StatusOf, HeldBy>> \/ Promise!Next
<1>1. CASE UNCHANGED outbox
  BY <1>1, HoldsStep
<1>2. CASE UNCHANGED rows /\ SameStatuses
  BY <1>2 DEF StatusOf, HeldBy, SameStatuses
<1>3. CASE UNCHANGED rows /\ OneBecomes
  BY <1>3, BecomesStep
<1> QED
  BY <1>1, <1>2, <1>3, OutboxStep

(* Outbox, network and devices implement MessageDelivery when every        *)
(* message is resealable, as send_app and the two apps park direct         *)
(* messages, and when there is one flusher, as in the command-line client. *)
THEOREM Refines ==
    ASSUME Resealable = Messages \/ \A t, u \in Threads : t = u
    PROVE  Spec => ImplementsDelivery
<1>1. Init => Promise!Init
  BY DEF Init, Promise!Init, NoEntry
<1>2. CASE Resealable = Messages
  <2>1. DeliveryInv /\ [Next]_vars => [Promise!Next]_<<StatusOf, HeldBy>>
    BY <1>2, RefineStep
  <2> QED
    BY <1>1, <2>1, DeliveryInvariant, PTL
       DEF Spec, ImplementsDelivery, Promise!Spec, StatusOf, HeldBy
<1>3. CASE \A t, u \in Threads : t = u
  <2>1. DeliveryInv /\ SoloInv /\ [Next]_vars => [Promise!Next]_<<StatusOf, HeldBy>>
    BY RefineStep
  <2>2. Spec => []SoloInv
    BY <1>3, SoloInvariant
  <2> QED
    BY <1>1, <2>1, <2>2, DeliveryInvariant, PTL
       DEF Spec, ImplementsDelivery, Promise!Spec, StatusOf, HeldBy
<1> QED
  BY <1>2, <1>3
=============================================================================
