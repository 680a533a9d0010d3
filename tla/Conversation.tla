---------------------------- MODULE Conversation ----------------------------
(***************************************************************************)
(* Direct messages between people: what sending and receiving do to both   *)
(* transcripts (flow/mod.rs send_app and recv_direct, runtime.rs           *)
(* accept_delivery), on top of the people each device knows (PeerBook) and *)
(* of transcripts stored in segments (History).                            *)
(*                                                                         *)
(* Delivery is what module Delivery shows of it: a frame that was pushed   *)
(* may arrive at any time, in any order, again and again or never, and a   *)
(* message that is not acknowledged may be sealed again, which makes a new *)
(* frame.  One device per person; a reply, a reaction or a file is a text. *)
(***************************************************************************)
EXTENDS PeerBook, History

CONSTANTS
    MaxMessages,  \* bound: messages sent
    MaxReseals,   \* bound: messages sealed again
    MaxTime       \* bound on the clock

VARIABLES
    sent,    \* every message sent: [id, from, to, kind, target, until]
    net,     \* every frame pushed: [id, seal, rec]
    pending, \* ids that are not acknowledged
    inbox,   \* inbox[s]: the frames s has accepted
    hist,    \* hist[s][p]: the thread of s with p
    index,   \* index[s]: the persons s has a thread with
    now,     \* the time, the same everywhere
    astray   \* history: texts something of which came late, came twice, was
             \* cleared or was not written by its sender

mailVars == <<sent, net, pending, inbox>>
threadVars == <<hist, index, astray>>
convVars == <<mailVars, threadVars, now>>
vars == <<allBookVars, convVars>>

Kinds == {"text", "edit", "delete"}
Messages == [id : 1 .. MaxMessages, from : Owners, to : Persons, kind : Kinds,
             target : 0 .. MaxMessages, until : (0 .. MaxTime + 1) \cup {Forever}]
Frames == [id : 1 .. MaxMessages, seal : 1 .. MaxReseals + 1, rec : Records]
Row == [id : 1 .. MaxMessages, mine : BOOLEAN, text : 1 .. MaxMessages,
        until : (0 .. MaxTime + 1) \cup {Forever}]

TypeOK ==
    /\ BookTypeOK
    /\ sent \subseteq Messages
    /\ net \subseteq Frames
    /\ pending \subseteq 1 .. MaxMessages
    /\ inbox \in [Owners -> SUBSET Frames]
    /\ \A s \in Owners, p \in Persons : Rows(hist[s][p]) \subseteq Row
    /\ index \in [Owners -> SUBSET Persons]
    /\ now \in 0 .. MaxTime
    /\ astray \subseteq 1 .. MaxMessages

Init ==
    /\ BookInit
    /\ sent = {} /\ net = {} /\ pending = {}
    /\ inbox = [s \in Owners |-> {}]
    /\ hist = [s \in Owners |-> [p \in Persons |-> << >>]]
    /\ index = [s \in Owners |-> {}]
    /\ now = 0
    /\ astray = {}
-----------------------------------------------------------------------------
MessageOf(id) == CHOOSE m \in sent : m.id = id

(* The text a message is about: itself, or the one it edits or deletes.    *)
About(m) == IF m.kind = "text" THEN m.id ELSE m.target

AddRow(s, p, row) ==
    /\ hist' = [hist EXCEPT ![s][p] = AppendNew(@, row)]
    /\ index' = [index EXCEPT ![s] = @ \cup {p}]

(* Mutant of RowOf: the reader forgets when the text expires.              *)
RowOfForever(m, mine) == [id |-> m.id, mine |-> mine, text |-> m.id,
                          until |-> IF mine THEN m.until ELSE Forever]

RowOf(m, mine) == [id |-> m.id, mine |-> mine, text |-> m.id, until |-> m.until]

(* What a message does to the thread of s with p.  Edits and deletions     *)
(* reach only rows of their author and leave the index alone.              *)
Apply(s, p, m, mine) ==
    \/ m.kind = "text" /\ AddRow(s, p, RowOf(m, mine))
    \/ /\ m.kind = "edit"
       /\ hist' = [hist EXCEPT ![s][p] = EditRow(@, m.target, m.id, mine)]
       /\ UNCHANGED index
    \/ /\ m.kind = "delete"
       /\ hist' = [hist EXCEPT ![s][p] = DeleteRow(@, m.target, mine)]
       /\ UNCHANGED index

(* Resolve the person, refuse an untrusted or blocked one, seal the        *)
(* message with our own record and push it or park it.                     *)
Push(s, p, m) ==
    /\ m.id = Cardinality(sent) + 1
    /\ m.from = s /\ m.to = p /\ p # s
    /\ m.id <= MaxMessages
    /\ Reachable(s, p)
    /\ s \in Known(s)
    /\ p \notin blocked[s]
    /\ sent' = sent \cup {m}
    /\ net' = net \cup {[id |-> m.id, seal |-> 1, rec |-> book[s][s]]}
    /\ pending' = pending \cup {m.id}

(* send_message_now, Mycellium::send_text: the sealed message is parked    *)
(* and our own copy is written in one transaction.                         *)
Send(s, p, m) ==
    /\ Push(s, p, m)
    /\ Apply(s, p, m, TRUE)
    /\ UNCHANGED <<inbox, astray, now, allBookVars>>

(* send_app on the plain FileStore of the CLI, cut short: the message is   *)
(* on its way and our own copy is not written.                             *)
SendTorn(s, p, m) ==
    /\ Push(s, p, m)
    /\ Count(s)
    /\ astray' = astray \cup {About(m)}
    /\ UNCHANGED <<inbox, hist, index, now, bookVars, peopleVars>>

Inputs == Persons \cup Nicknames \cup Handles
Sends(s) ==
    \E p \in {Meant(s, input) : input \in Inputs} \cap Owners, kind \in Kinds :
    \E target \in (IF kind = "text" THEN {0} ELSE {m.id : m \in sent}),
       until \in (IF kind = "text" THEN {now + 1, Forever} ELSE {Forever}) :
        LET m == [id |-> Cardinality(sent) + 1, from |-> s, to |-> p,
                  kind |-> kind, target |-> target, until |-> until]
        IN Send(s, p, m) \/ SendTorn(s, p, m)

(* readdress_pending: the recipient's device left and came back before the *)
(* message was acknowledged, so it has been sealed anew.                   *)
Reseal(id) ==
    LET frames == {f \in net : f.id = id}
        from == MessageOf(id).from
    IN
    /\ id \in pending
    /\ Cardinality(net) < Cardinality(sent) + MaxReseals
    /\ book[from][from] # None
    /\ net' = net \cup {[id |-> id, seal |-> Cardinality(frames) + 1,
                         rec |-> book[from][from]]}
    /\ UNCHANGED <<sent, pending, inbox, threadVars, now, allBookVars>>

(* An acknowledgement of some frame of the message reaches the sender.     *)
Ack(id) ==
    /\ id \in pending
    /\ \E s \in Owners : \E f \in inbox[s] : f.id = id
    /\ pending' = pending \ {id}
    /\ UNCHANGED <<sent, net, inbox, threadVars, now, allBookVars>>

(* History: this arrival is late, or the message has been here before.     *)
Strays(s, m) ==
    \/ \E f \in inbox[s] : f.id = m.id
    \/ \E q \in sent : /\ q.from = m.from /\ q.to = s /\ q.id < m.id
                       /\ About(q) = About(m)
                       /\ \A f \in inbox[s] : f.id # q.id

(* Mutant of Accept: the sender's record is not kept.                      *)
AcceptUnknown(s, f) ==
    LET m == MessageOf(f.id) IN
    /\ f \in net /\ m.to = s /\ f \notin inbox[s]
    /\ Fresh(s, f.rec)
    /\ m.from \notin blocked[s]
    /\ IF m.kind = "text" /\ Expired(m.until, now)
         THEN UNCHANGED <<hist, index>>
         ELSE Apply(s, m.from, m, FALSE)
    /\ inbox' = [inbox EXCEPT ![s] = @ \cup {f}]
    /\ astray' = IF Strays(s, m) THEN astray \cup {About(m)} ELSE astray
    /\ UNCHANGED <<sent, net, pending, now, allBookVars>>

(* accept_delivery, one transaction: a frame not seen before, the record   *)
(* in it remembered unless it is stale (then nothing is accepted), and the *)
(* message applied unless its sender is blocked (likewise).  A text that   *)
(* has expired on the way is accepted and not kept.                        *)
Accept(s, f) ==
    LET m == MessageOf(f.id) IN
    /\ f \in net /\ m.to = s /\ f \notin inbox[s]
    /\ m.from \notin blocked[s]
    /\ Put(s, f.rec)
    /\ IF m.kind = "text" /\ Expired(m.until, now)
         THEN UNCHANGED <<hist, index>>
         ELSE Apply(s, m.from, m, FALSE)
    /\ inbox' = [inbox EXCEPT ![s] = @ \cup {f}]
    /\ astray' = IF Strays(s, m) THEN astray \cup {About(m)} ELSE astray
    /\ UNCHANGED <<sent, net, pending, now, peopleVars, changes>>

(* history_with, conversations: reading a thread prunes it.                *)
Read(s, p) ==
    /\ \E row \in Rows(hist[s][p]) : Expired(row.until, now)
    /\ hist' = [hist EXCEPT ![s][p] = Prune(@, now)]
    /\ UNCHANGED <<index, astray, mailVars, now, allBookVars>>

(* clear_history: the thread and its entry in the index.                   *)
Clear(s, p) ==
    /\ p \in index[s]
    /\ Count(s)
    /\ hist' = [hist EXCEPT ![s][p] = << >>]
    /\ index' = [index EXCEPT ![s] = @ \ {p}]
    /\ astray' = astray \cup Ids(hist[s][p])
    /\ UNCHANGED <<mailVars, now, bookVars, peopleVars>>

Tick ==
    /\ now < MaxTime
    /\ now' = now + 1
    /\ UNCHANGED <<mailVars, threadVars, allBookVars>>

Next ==
    \/ \E s \in Owners : BookStep(s) /\ UNCHANGED convVars
    \/ \E s \in Owners : Sends(s)
    \/ \E s \in Owners : \E f \in net : Accept(s, f)
    \/ \E id \in pending : Reseal(id) \/ Ack(id)
    \/ \E s \in Owners, p \in Persons : Read(s, p) \/ Clear(s, p)
    \/ Tick

Spec == Init /\ [][Next]_vars
-----------------------------------------------------------------------------
(* Both transcripts of every pair implement Transcript: segments, edits,   *)
(* repeated and reordered frames notwithstanding, no row changes, moves,   *)
(* comes twice or says what its author did not.                            *)
Promise == INSTANCE Transcript
             WITH rows <- [s \in Owners |-> [p \in Persons |-> Rows(hist[s][p])]],
                  order <- [s \in Owners |-> [p \in Persons |-> Order(hist[s][p])]],
                  said <- sent
ImplementsTranscript == Promise!Spec

(* What s sees of text t in the thread with p.                             *)
Seen(s, p, t) == {row.text : row \in {r \in Rows(Prune(hist[s][p], now)) : r.id = t}}

(* Everything its author sent about text t has been accepted, once and in  *)
(* order, its author has a copy, and nobody cleared it.                    *)
Settled(t) == t \notin astray /\ \A q \in sent :
    About(q) = t /\ q.from = MessageOf(t).from =>
        \E f \in inbox[q.to] : f.id = q.id

(* Once everything about a text has arrived in order, writer and reader    *)
(* see the same: the same wording, or nothing because it was deleted or    *)
(* has expired (send_app, recv_direct, load_active).                       *)
Converges == \A m \in sent :
    m.kind = "text" /\ Settled(m.id) =>
        Seen(m.from, m.to, m.id) = Seen(m.to, m.from, m.id)

(* Every thread has a name to be listed under: a contact or a record, or   *)
(* the user has removed the record.  Otherwise listing conversations fails *)
(* for all of them (conversation_label).                                   *)
ThreadsNamed == \A s \in Owners : \A p \in index[s] :
    Pinned(s, p) \/ p \in Known(s) \/ p \in removed[s]

(* A deletion that was accepted holds: the reader does not see the text    *)
(* any more.                                                               *)
DeletedStaysDeleted == \A m \in sent :
    /\ m.kind = "delete" /\ (\E f \in inbox[m.to] : f.id = m.id)
    /\ \E t \in sent : t.id = m.target /\ t.from = m.from /\ t.to = m.to
    => Seen(m.to, m.from, m.target) = {}
=============================================================================
