------------------------- MODULE Conversation_proof -------------------------
(***************************************************************************)
(* Proofs about Conversation and PeerBook, for any people, records and     *)
(* bounds.                                                                 *)
(*                                                                         *)
(* Each step treats the entry of a person in a book in one of few ways     *)
(* (Entry): it leaves it alone, pins a fresh record and stores it or not,  *)
(* or removes it.  BookInv is preserved by whatever does that.  MailInv    *)
(* says that a frame carries a record of the one who wrote its message:    *)
(* that is why the writer is known once the message is in a transcript.    *)
(*                                                                         *)
(* Transcripts: what the operations of History do to the rows of a thread  *)
(* and to their order; then ThreadInv, that a thread holds messages that   *)
(* were sent, each once; then SettleInv, that a text that is not astray    *)
(* shows its writer what all messages about it say and its reader what     *)
(* those that have arrived say.  Convergence is the case where all have    *)
(* arrived, and Transcript is implemented because each operation changes   *)
(* rows and order as it allows.                                            *)
(***************************************************************************)
EXTENDS Conversation, FiniteSetTheorems, TLAPS

(* A record is kept under its user, and no record is newer than its pin or *)
(* as new and another.                                                     *)
UserInv == \A s \in Owners, p \in Persons :
    /\ book[s][p] # None => book[s][p].user = p
    /\ pins[s][p] # None => pins[s][p].user = p

PinInv == \A s \in Owners, p \in Persons : book[s][p] # None =>
    /\ pins[s][p] # None
    /\ pins[s][p] = book[s][p] \/ pins[s][p].seq > book[s][p].seq

(* Contacts and partners are known, or their records were removed.         *)
KnownInv == \A s \in Owners, p \in Persons :
    p \in index[s] \/ Pinned(s, p) => p \in Known(s) \/ p \in removed[s]

BookInv == BookTypeOK /\ UserInv /\ PinInv /\ KnownInv /\ index \in [Owners -> SUBSET Persons]

(* Messages are numbered as they are sent, so that a number names one, and *)
(* a frame holds a record of the writer of its message.                    *)
MailInv ==
    /\ IsFiniteSet(sent)
    /\ \A m \in sent : m.id \in Nat /\ m.id <= Cardinality(sent) /\ m.from \in Owners
    /\ \A m, n \in sent : m.id = n.id => m = n
    /\ \A id \in pending : \E m \in sent : m.id = id
    /\ \A f \in net : f.rec \in Records /\ \E m \in sent : m.id = f.id /\ m.from = f.rec.user

TalkInv == BookInv /\ MailInv

(* What a step may do to the entry of p in the book of s.                  *)
Same(s, p) == book'[s][p] = book[s][p] /\ (p \in removed[s] => p \in removed'[s])
Entry(s, p) ==
    \/ Same(s, p) /\ pins'[s][p] = pins[s][p]
    \/ \E r \in Records :
         r.user = p /\ Fresh(s, r) /\ pins'[s][p] = r /\ (book'[s][p] = r \/ Same(s, p))
    \/ book'[s][p] = None /\ p \in removed'[s] /\ pins'[s][p] \in {None, pins[s][p]}

(* Any step, as far as the books are concerned: contacts and partners are  *)
(* made of known people.                                                   *)
Effect ==
    /\ \A s \in Owners, p \in Persons : Entry(s, p)
    /\ \A s \in Owners, n \in Nicknames :
         contacts'[s][n] \in {contacts[s][n], None} \cup Known(s)'
    /\ index' \in [Owners -> SUBSET Persons]
    /\ \A s \in Owners : index'[s] \subseteq index[s] \cup Known(s)'
-----------------------------------------------------------------------------
(* Records are not None and have numbers.                                  *)
LEMMA RecordTyped ==
    ASSUME NEW r \in Records
    PROVE  r # None /\ r.user \in Persons /\ r.seq \in Nat
BY RecordsAreSigned, NoneIsNoRecord

(* The books stay in order.                                                *)
LEMMA EffectKeeps ==
    ASSUME BookInv, BookTypeOK', Effect
    PROVE  BookInv'
<1>0. /\ book \in [Owners -> [Persons -> Records \cup {None}]]
      /\ pins \in [Owners -> [Persons -> Records \cup {None}]]
      /\ UserInv /\ PinInv /\ KnownInv
  BY DEF BookInv, BookTypeOK
<1>1. ASSUME NEW s \in Owners, NEW p \in Persons
      PROVE  /\ book'[s][p] # None => book'[s][p].user = p
             /\ pins'[s][p] # None => pins'[s][p].user = p
             /\ book'[s][p] # None =>
                  /\ pins'[s][p] # None
                  /\ pins'[s][p] = book'[s][p] \/ pins'[s][p].seq > book'[s][p].seq
  <2>0. /\ book[s][p] # None => book[s][p].user = p
        /\ pins[s][p] # None => pins[s][p].user = p
        /\ book[s][p] # None => pins[s][p] # None
        /\ book[s][p] # None => pins[s][p] = book[s][p] \/ pins[s][p].seq > book[s][p].seq
    BY <1>0 DEF UserInv, PinInv
  <2>1. CASE Same(s, p) /\ pins'[s][p] = pins[s][p]
    BY <2>0, <2>1 DEF Same
  <2>2. ASSUME NEW r \in Records, r.user = p, Fresh(s, r), pins'[s][p] = r
        PROVE  /\ pins'[s][p] # None /\ pins'[s][p].user = p
               /\ book[s][p] # None =>
                    pins'[s][p] = book[s][p] \/ pins'[s][p].seq > book[s][p].seq
    <3>1. r # None
      BY RecordTyped
    <3>2. ASSUME book[s][p] # None, r # book[s][p]
          PROVE  r.seq > book[s][p].seq
      <4>1. pins[s][p] # None /\ (r.seq > pins[s][p].seq \/ r = pins[s][p])
        BY <2>0, <2>2, <3>2 DEF Fresh
      <4>2. r.seq \in Nat /\ pins[s][p].seq \in Nat /\ book[s][p].seq \in Nat
        BY <1>0, <3>2, <4>1, RecordTyped
      <4>3. QED
        BY <2>0, <3>2, <4>1, <4>2
    <3>3. QED
      BY <2>2, <3>1, <3>2
  <2>3. ASSUME NEW r \in Records, r.user = p, Fresh(s, r), pins'[s][p] = r,
               book'[s][p] = r \/ Same(s, p)
        PROVE  /\ book'[s][p] # None => book'[s][p].user = p
               /\ pins'[s][p] # None /\ pins'[s][p].user = p
               /\ book'[s][p] # None =>
                    pins'[s][p] = book'[s][p] \/ pins'[s][p].seq > book'[s][p].seq
    BY <2>0, <2>2, <2>3 DEF Same
  <2>4. CASE book'[s][p] = None /\ pins'[s][p] \in {None, pins[s][p]}
    BY <2>0, <2>4
  <2>5. Entry(s, p)
    BY DEF Effect
  <2>6. QED
    BY <2>1, <2>3, <2>4, <2>5 DEF Entry
<1>2. KnownInv'
  <2> SUFFICES ASSUME NEW s \in Owners, NEW p \in Persons, p \in index'[s] \/ Pinned(s, p)'
               PROVE  p \in Known(s)' \/ p \in removed'[s]
    BY DEF KnownInv
  <2>1. p \in index[s] \/ Pinned(s, p) \/ p \in Known(s)'
    <3>1. CASE p \in index'[s]
      BY <3>1 DEF Effect
    <3>2. CASE Pinned(s, p)'
      <4>1. PICK n \in Nicknames : contacts'[s][n] = p
        BY <3>2 DEF Pinned
      <4>2. p # None
        BY NoneIsNoRecord
      <4>3. contacts[s][n] = p \/ p \in Known(s)'
        BY <4>1, <4>2 DEF Effect
      <4>4. QED
        BY <4>3 DEF Pinned
    <3>3. QED
      BY <3>1, <3>2
  <2>2. CASE p \in index[s] \/ Pinned(s, p)
    <3>1. book[s][p] # None \/ p \in removed[s]
      BY <1>0, <2>2 DEF KnownInv, Known
    <3>2. Entry(s, p)
      BY DEF Effect
    <3>3. book'[s][p] # None \/ p \in removed'[s]
      BY <3>1, <3>2, RecordTyped DEF Entry, Same
    <3>4. QED
      BY <3>3 DEF Known
  <2>3. QED
    BY <2>1, <2>2
<1>3. QED
  BY <1>1, <1>2 DEF BookInv, UserInv, PinInv, Effect

(* A record in a book is replaced by a newer one only.                     *)
LEMMA EffectAdvances ==
    ASSUME BookInv, Effect, NEW s \in Owners, NEW p \in Persons,
           book[s][p] # None, book'[s][p] \notin {None, book[s][p]}
    PROVE  book'[s][p].seq > book[s][p].seq
<1>1. Entry(s, p)
  BY DEF Effect
<1>2. PICK r \in Records : r.user = p /\ Fresh(s, r) /\ pins'[s][p] = r /\ book'[s][p] = r
  BY <1>1 DEF Entry, Same
<1>3. /\ pins[s][p] # None
      /\ pins[s][p] = book[s][p] \/ pins[s][p].seq > book[s][p].seq
      /\ pins[s][p] \in Records /\ book[s][p] \in Records
  BY DEF BookInv, PinInv, BookTypeOK
<1>4. r.seq > pins[s][p].seq \/ r = pins[s][p]
  BY <1>2, <1>3 DEF Fresh
<1>5. r.seq \in Nat /\ pins[s][p].seq \in Nat /\ book[s][p].seq \in Nat
  BY <1>3, RecordTyped
<1>6. QED
  BY <1>2, <1>3, <1>4, <1>5
-----------------------------------------------------------------------------
(* The books keep their types.                                             *)
BooksTyped ==
    /\ book \in [Owners -> [Persons -> Records \cup {None}]]
    /\ pins \in [Owners -> [Persons -> Records \cup {None}]]
    /\ removed \in [Owners -> SUBSET Persons]

(* Entries of a book that is left alone.                                   *)
LEMMA SameEntries ==
    ASSUME UNCHANGED <<book, pins, removed>>
    PROVE  \A s \in Owners, p \in Persons : Entry(s, p)
BY DEF Entry, Same

(* Pinning a fresh record, and storing it unless cut short.                *)
LEMMA PutEntries ==
    ASSUME BookTypeOK, NEW s \in Owners, NEW r \in Records, Fresh(s, r), Pin(s, r),
           Store(s, r) \/ UNCHANGED <<book, removed>>
    PROVE  /\ BooksTyped'
           /\ \A t \in Owners, p \in Persons : Entry(t, p)
           /\ Store(s, r) => r.user \in Known(s)'
<1>1. /\ book \in [Owners -> [Persons -> Records \cup {None}]]
      /\ pins \in [Owners -> [Persons -> Records \cup {None}]]
      /\ removed \in [Owners -> SUBSET Persons]
  BY DEF BookTypeOK
<1>2. r.user \in Persons /\ r # None
  BY RecordTyped
<1>3. BooksTyped'
  <2>1. [book EXCEPT ![s][r.user] = r] \in [Owners -> [Persons -> Records \cup {None}]]
    BY <1>1, <1>2
  <2>2. [pins EXCEPT ![s][r.user] = r] \in [Owners -> [Persons -> Records \cup {None}]]
    BY <1>1, <1>2
  <2>3. [removed EXCEPT ![s] = @ \ {r.user}] \in [Owners -> SUBSET Persons]
    BY <1>1
  <2>4. QED
    BY <1>1, <2>1, <2>2, <2>3 DEF Pin, Store, BooksTyped
<1>4. ASSUME NEW t \in Owners, NEW p \in Persons, t # s \/ p # r.user
      PROVE  Same(t, p) /\ pins'[t][p] = pins[t][p]
  <2>1. pins'[t][p] = pins[t][p]
    BY <1>1, <1>2, <1>4 DEF Pin
  <2>2. CASE Store(s, r)
    <3>1. book'[t][p] = book[t][p]
      BY <1>1, <1>2, <1>4, <2>2 DEF Store
    <3>2. p \in removed[t] => p \in removed'[t]
      BY <1>1, <1>2, <1>4, <2>2 DEF Store
    <3>3. QED
      BY <2>1, <3>1, <3>2 DEF Same
  <2>3. QED
    BY <2>1, <2>2 DEF Same
<1>5. /\ pins'[s][r.user] = r
      /\ book'[s][r.user] = r \/ Same(s, r.user)
      /\ Store(s, r) => book'[s][r.user] = r
  BY <1>1, <1>2 DEF Pin, Store, Same
<1>6. ASSUME NEW t \in Owners, NEW p \in Persons
      PROVE  Entry(t, p)
  <2>1. CASE t = s /\ p = r.user
    BY <1>5, <2>1 DEF Entry
  <2>2. CASE t # s \/ p # r.user
    BY <1>4, <2>2 DEF Entry
  <2>3. QED
    BY <2>1, <2>2
<1>7. Store(s, r) => r.user \in Known(s)'
  BY <1>2, <1>5 DEF Known
<1>8. QED
  BY <1>3, <1>6, <1>7

(* The person found by a handle is in the book.                            *)
LEMMA LookupKnown ==
    ASSUME NEW s \in Owners, NEW h, Lookup(s, h) # None
    PROVE  Lookup(s, h) \in Known(s) /\ WithHandle(s, h) = {Lookup(s, h)}
<1>1. \E p \in Persons : WithHandle(s, h) = {p}
  BY DEF Lookup
<1>2. Lookup(s, h) = CHOOSE p \in Persons : WithHandle(s, h) = {p}
  BY <1>1 DEF Lookup
<1>3. WithHandle(s, h) = {Lookup(s, h)}
  BY <1>1, <1>2
<1>4. QED
  BY <1>3 DEF WithHandle

(* A record goes, and its pin unless cut short.                            *)
LEMMA RemoveEntries ==
    ASSUME BookTypeOK, NEW s \in Owners, NEW p \in Persons,
           book' = [book EXCEPT ![s][p] = None],
           pins' \in {pins, [pins EXCEPT ![s][p] = None]},
           removed' = [removed EXCEPT ![s] = @ \cup {p}]
    PROVE  /\ BooksTyped'
           /\ \A t \in Owners, q \in Persons : Entry(t, q)
<1>1. /\ book \in [Owners -> [Persons -> Records \cup {None}]]
      /\ pins \in [Owners -> [Persons -> Records \cup {None}]]
      /\ removed \in [Owners -> SUBSET Persons]
  BY DEF BookTypeOK
<1>2. BooksTyped'
  <2>1. book' \in [Owners -> [Persons -> Records \cup {None}]]
    BY <1>1
  <2>2. [pins EXCEPT ![s][p] = None] \in [Owners -> [Persons -> Records \cup {None}]]
    BY <1>1
  <2>3. removed' \in [Owners -> SUBSET Persons]
    BY <1>1
  <2>4. QED
    BY <1>1, <2>1, <2>2, <2>3 DEF BooksTyped
<1>3. ASSUME NEW t \in Owners, NEW q \in Persons
      PROVE  Entry(t, q)
  <2>1. CASE t = s /\ q = p
    BY <1>1, <2>1 DEF Entry
  <2>2. CASE t # s \/ q # p
    <3>1. Same(t, q)
      BY <1>1, <2>2 DEF Same
    <3>2. pins'[t][q] = pins[t][q]
      BY <1>1, <2>2
    <3>3. QED
      BY <3>1, <3>2 DEF Entry
  <2>3. QED
    BY <2>1, <2>2
<1>4. QED
  BY <1>2, <1>3

(* A contact is a known person.                                            *)
LEMMA SaveContactEffect ==
    ASSUME BookTypeOK, NEW s \in Owners, NEW n \in Nicknames, NEW p \in Known(s)',
           SaveContact(s, n, p)
    PROVE  /\ contacts' \in [Owners -> [Nicknames -> Persons \cup {None}]]
           /\ \A t \in Owners, k \in Nicknames :
                contacts'[t][k] \in {contacts[t][k], None} \cup Known(t)'
<1>1. contacts \in [Owners -> [Nicknames -> Persons \cup {None}]] /\ p \in Persons
  BY DEF BookTypeOK, Known
<1>2. contacts' = contacts \/ contacts' = [contacts EXCEPT ![s][n] = p]
  BY DEF SaveContact
<1>3. QED
  BY <1>1, <1>2

(* A record that arrives and is fresh.                                     *)
LEMMA ImportEffect ==
    ASSUME BookTypeOK, NEW s \in Owners, NEW r \in Records, Import(s, r)
    PROVE  /\ BooksTyped' /\ UNCHANGED <<contacts, verified, blocked>>
           /\ \A t \in Owners, p \in Persons : Entry(t, p)
<1>1. Fresh(s, r) /\ Pin(s, r) /\ Store(s, r) /\ UNCHANGED <<contacts, verified, blocked>>
  BY DEF Import, Put, peopleVars
<1>2. QED
  BY <1>1, PutEntries

(* What a person does to what it knows, by hand.                           *)
LEMMA BookChangeEffect ==
    ASSUME BookTypeOK, NEW s \in Owners, BookChange(s)
    PROVE  /\ BooksTyped' /\ \A t \in Owners, p \in Persons : Entry(t, p)
           /\ contacts' \in [Owners -> [Nicknames -> Persons \cup {None}]]
           /\ verified' \in [Owners -> SUBSET Persons] /\ blocked' \in [Owners -> SUBSET Persons]
           /\ \A t \in Owners, n \in Nicknames :
                contacts'[t][n] \in {contacts[t][n], None} \cup Known(t)'
<1> DEFINE Goal ==
      /\ BooksTyped' /\ \A t \in Owners, p \in Persons : Entry(t, p)
      /\ contacts' \in [Owners -> [Nicknames -> Persons \cup {None}]]
      /\ verified' \in [Owners -> SUBSET Persons] /\ blocked' \in [Owners -> SUBSET Persons]
      /\ \A t \in Owners, n \in Nicknames :
           contacts'[t][n] \in {contacts[t][n], None} \cup Known(t)'
<1>0. /\ contacts \in [Owners -> [Nicknames -> Persons \cup {None}]]
      /\ verified \in [Owners -> SUBSET Persons] /\ blocked \in [Owners -> SUBSET Persons]
      /\ BooksTyped
  BY DEF BookTypeOK, BooksTyped
<1>i. ASSUME NEW r \in Records, Import(s, r) PROVE Goal
  BY <1>0, <1>i, ImportEffect
<1>1. ASSUME NEW r \in Records, Publish(s, r) \/ Import(s, r) \/ Refresh(s, r) PROVE Goal
  BY <1>1, <1>i DEF Publish, Refresh
<1>2. ASSUME NEW r \in Records, ImportTorn(s, r) PROVE Goal
  <2>1. Fresh(s, r) /\ Pin(s, r) /\ UNCHANGED <<book, removed, contacts, verified, blocked>>
    BY <1>2 DEF ImportTorn, peopleVars
  <2>2. BooksTyped' /\ \A t \in Owners, p \in Persons : Entry(t, p)
    BY <2>1, PutEntries
  <2>3. QED
    BY <1>0, <2>1, <2>2
<1>3. ASSUME NEW r \in Records, NEW n \in Nicknames, AddCard(s, n, r) PROVE Goal
  <2>1. /\ Fresh(s, r) /\ Pin(s, r) /\ Store(s, r) /\ SaveContact(s, n, r.user)
        /\ UNCHANGED <<verified, blocked>>
    BY <1>3 DEF AddCard, Put
  <2>2. /\ BooksTyped' /\ \A t \in Owners, p \in Persons : Entry(t, p)
        /\ r.user \in Known(s)'
    BY <2>1, PutEntries
  <2>3. QED
    BY <1>0, <2>1, <2>2, SaveContactEffect
<1>4. ASSUME NEW h \in Handles, DhtLookup(s, h) PROVE Goal
  <2>1. PICK found \in SUBSET {r \in Records : r.handle = h} :
          \E r \in DhtChoice(s, h, found) : Import(s, r)
    BY <1>4 DEF DhtLookup
  <2>2. PICK r \in DhtChoice(s, h, found) : Import(s, r)
    BY <2>1
  <2>3. r \in Records
    BY <2>2 DEF DhtChoice
  <2>4. QED
    BY <2>2, <2>3, <1>i
<1>5. ASSUME NEW h \in Handles, RemoveRecord(s, h) \/ RemoveTorn(s, h) PROVE Goal
  <2>1. PICK p \in Persons :
          /\ book' = [book EXCEPT ![s][p] = None]
          /\ pins' \in {pins, [pins EXCEPT ![s][p] = None]}
          /\ removed' = [removed EXCEPT ![s] = @ \cup {p}]
          /\ UNCHANGED <<contacts, verified, blocked>>
    BY <1>5 DEF RemoveRecord, RemoveTorn, peopleVars
  <2>2. BooksTyped' /\ \A t \in Owners, q \in Persons : Entry(t, q)
    BY <2>1, RemoveEntries
  <2>3. QED
    BY <1>0, <2>1, <2>2
<1>6. ASSUME NEW n \in Nicknames, NEW h \in Handles, AddContact(s, n, h) PROVE Goal
  <2>1. /\ Lookup(s, h) # None /\ SaveContact(s, n, Lookup(s, h))
        /\ UNCHANGED <<book, pins, removed, verified, blocked>>
    BY <1>6 DEF AddContact, bookVars
  <2>2. Lookup(s, h) \in Known(s)'
    BY <2>1, LookupKnown DEF Known
  <2>3. BooksTyped' /\ \A t \in Owners, q \in Persons : Entry(t, q)
    BY <1>0, <2>1, SameEntries DEF BooksTyped
  <2>4. QED
    BY <1>0, <2>1, <2>2, <2>3, SaveContactEffect
<1>7. ASSUME NEW n \in Nicknames, RemoveContact(s, n) PROVE Goal
  <2>1. /\ contacts' = [contacts EXCEPT ![s][n] = None]
        /\ UNCHANGED <<book, pins, removed, verified, blocked>>
    BY <1>7 DEF RemoveContact, bookVars
  <2>2. BooksTyped' /\ \A t \in Owners, q \in Persons : Entry(t, q)
    BY <1>0, <2>1, SameEntries DEF BooksTyped
  <2>3. QED
    BY <1>0, <2>1, <2>2
<1>8. ASSUME NEW p \in Persons, MarkVerified(s, p) \/ SetBlocked(s, p) PROVE Goal
  <2>1. UNCHANGED <<book, pins, removed, contacts>>
    BY <1>8 DEF MarkVerified, SetBlocked, bookVars
  <2>2. BooksTyped' /\ \A t \in Owners, q \in Persons : Entry(t, q)
    BY <1>0, <2>1, SameEntries DEF BooksTyped
  <2>3. verified' \in [Owners -> SUBSET Persons] /\ blocked' \in [Owners -> SUBSET Persons]
    BY <1>0, <1>8 DEF MarkVerified, SetBlocked
  <2>4. QED
    BY <1>0, <2>1, <2>2, <2>3
<1> HIDE DEF Goal
<1>9. Goal
  BY <1>1, <1>2, <1>3, <1>4, <1>5, <1>6, <1>7, <1>8 DEF BookChange, Foreign
<1>10. QED
  BY <1>9 DEF Goal

(* The same, with the rest of the state left alone.                        *)
LEMMA BookStepEffect ==
    ASSUME BookInv, NEW s \in Owners, BookStep(s), index' = index
    PROVE  BookTypeOK' /\ Effect
<1>0. BookTypeOK /\ index \in [Owners -> SUBSET Persons]
  BY DEF BookInv
<1>1. changes' \in [Owners -> Nat]
  BY <1>0 DEF BookStep, Count, BookTypeOK
<1>2. BookChange(s)
  BY DEF BookStep
<1>3. QED
  BY <1>0, <1>1, <1>2, BookChangeEffect DEF BookTypeOK, BooksTyped, Effect

(* Steps that leave the books alone.                                       *)
LEMMA IdleEffect ==
    ASSUME BookInv, UNCHANGED <<book, pins, removed, contacts, verified, blocked>>,
           changes' \in [Owners -> Nat], index' \in [Owners -> SUBSET Persons],
           \A s \in Owners : index'[s] \subseteq index[s] \cup Known(s)
    PROVE  BookTypeOK' /\ Effect
<1>1. BookTypeOK'
  BY DEF BookInv, BookTypeOK
<1>2. \A s \in Owners : Known(s)' = Known(s)
  BY DEF Known
<1>3. QED
  BY <1>1, <1>2, SameEntries DEF Effect
-----------------------------------------------------------------------------
(* The message with a number.                                              *)
LEMMA MessageFound ==
    ASSUME MailInv, NEW m \in sent
    PROVE  MessageOf(m.id) = m
<1>1. \E n \in sent : n.id = m.id
  OBVIOUS
<1>2. MessageOf(m.id) \in sent /\ MessageOf(m.id).id = m.id
  BY <1>1 DEF MessageOf
<1>3. QED
  BY <1>2 DEF MailInv

(* One's own record, which is sealed into every frame.                     *)
LEMMA OwnRecord ==
    ASSUME BookInv, NEW s \in Owners, book[s][s] # None
    PROVE  book[s][s] \in Records /\ book[s][s].user = s
BY OwnersArePersons DEF BookInv, BookTypeOK, UserInv

(* A message is numbered and sealed (send_app).                            *)
LEMMA PushMail ==
    ASSUME BookInv, MailInv, NEW s \in Owners, NEW p, NEW m, Push(s, p, m)
    PROVE  MailInv'
<1>1. /\ m.id = Cardinality(sent) + 1 /\ m.from = s
      /\ sent' = sent \cup {m} /\ pending' = pending \cup {m.id}
      /\ net' = net \cup {[id |-> m.id, seal |-> 1, rec |-> book[s][s]]}
      /\ book[s][s] # None
  BY DEF Push, Known
<1>2. IsFiniteSet(sent) /\ Cardinality(sent) \in Nat
  BY FS_CardinalityType DEF MailInv
<1>3. \A n \in sent : n.id \in Nat /\ n.id <= Cardinality(sent) /\ n.from \in Owners
  BY DEF MailInv
<1>4. m \notin sent /\ \A n \in sent : n.id # m.id
  BY <1>1, <1>2, <1>3
<1>5. IsFiniteSet(sent') /\ Cardinality(sent') = Cardinality(sent) + 1
  BY <1>1, <1>2, <1>4, FS_AddElement
<1>6. \A n \in sent' : n.id \in Nat /\ n.id <= Cardinality(sent') /\ n.from \in Owners
  BY <1>1, <1>2, <1>3, <1>5
<1>7. \A n, k \in sent' : n.id = k.id => n = k
  BY <1>1, <1>4 DEF MailInv
<1>8. \A id \in pending' : \E n \in sent' : n.id = id
  BY <1>1 DEF MailInv
<1>9. ASSUME NEW f \in net'
      PROVE  f.rec \in Records /\ \E n \in sent' : n.id = f.id /\ n.from = f.rec.user
  <2>1. CASE f \in net
    BY <1>1, <2>1 DEF MailInv
  <2>2. CASE f = [id |-> m.id, seal |-> 1, rec |-> book[s][s]]
    BY <1>1, <2>2, OwnRecord
  <2>3. QED
    BY <1>1, <2>1, <2>2
<1>10. QED
  BY <1>5, <1>6, <1>7, <1>8, <1>9 DEF MailInv

(* A message in a transcript makes its partner one we have a thread with.  *)
LEMMA ApplyIndex ==
    ASSUME index \in [Owners -> SUBSET Persons], NEW s \in Owners, NEW p \in Persons,
           NEW m, NEW mine, Apply(s, p, m, mine)
    PROVE  /\ index' \in [Owners -> SUBSET Persons]
           /\ index'[s] \subseteq index[s] \cup {p}
           /\ \A t \in Owners \ {s} : index'[t] = index[t]
<1>1. index' = index \/ index' = [index EXCEPT ![s] = @ \cup {p}]
  BY DEF Apply, AddRow
<1>2. QED
  BY <1>1

(* send_app, also cut short.                                               *)
LEMMA SendTalk ==
    ASSUME TalkInv, NEW s \in Owners, NEW p \in Persons, NEW m, Send(s, p, m) \/ SendTorn(s, p, m)
    PROVE  BookTypeOK' /\ Effect /\ MailInv'
<1>0. BookInv /\ MailInv /\ index \in [Owners -> SUBSET Persons] /\ changes \in [Owners -> Nat]
  BY DEF TalkInv, BookInv, BookTypeOK
<1>1. Push(s, p, m) /\ p \in Known(s)
  BY DEF Send, SendTorn, Push, Reachable, Resolves
<1>2. MailInv'
  BY <1>0, <1>1, PushMail
<1>3. UNCHANGED <<book, pins, removed, contacts, verified, blocked>>
  BY DEF Send, SendTorn, allBookVars, bookVars, peopleVars
<1>4. changes' \in [Owners -> Nat]
  <2>1. changes' = changes \/ changes' = [changes EXCEPT ![s] = @ + 1]
    BY DEF Send, SendTorn, Count, allBookVars
  <2>2. QED
    BY <1>0, <2>1
<1>5. CASE Send(s, p, m)
  <2>1. /\ index' \in [Owners -> SUBSET Persons]
        /\ index'[s] \subseteq index[s] \cup {p}
        /\ \A t \in Owners \ {s} : index'[t] = index[t]
    BY <1>0, <1>5, ApplyIndex DEF Send
  <2>2. \A t \in Owners : index'[t] \subseteq index[t] \cup Known(t)
    BY <1>1, <2>1
  <2>3. QED
    BY <1>0, <1>2, <1>3, <1>4, <2>1, <2>2, IdleEffect
<1>6. CASE SendTorn(s, p, m)
  <2>1. index' = index
    BY <1>6 DEF SendTorn
  <2>2. QED
    BY <1>0, <1>2, <1>3, <1>4, <2>1, IdleEffect
<1>7. QED
  BY <1>5, <1>6

(* accept_delivery.                                                        *)
LEMMA AcceptTalk ==
    ASSUME TalkInv, NEW s \in Owners, NEW f \in net, Accept(s, f)
    PROVE  BookTypeOK' /\ Effect /\ MailInv'
<1>0. /\ BookInv /\ MailInv /\ BookTypeOK /\ index \in [Owners -> SUBSET Persons]
  BY DEF TalkInv, BookInv
<1>1. f.rec \in Records
  BY <1>0 DEF MailInv
<1>2. PICK m \in sent : m.id = f.id /\ m.from = f.rec.user
  BY <1>0 DEF MailInv
<1>3. MessageOf(f.id) = m
  BY <1>0, <1>2, MessageFound
<1>4. /\ Fresh(s, f.rec) /\ Pin(s, f.rec) /\ Store(s, f.rec)
      /\ UNCHANGED <<contacts, verified, blocked, changes, sent, net, pending>>
      /\ UNCHANGED index \/ Apply(s, m.from, m, FALSE)
  BY <1>3 DEF Accept, Put, peopleVars
<1>5. /\ BooksTyped' /\ \A t \in Owners, p \in Persons : Entry(t, p)
      /\ m.from \in Known(s)'
  BY <1>0, <1>1, <1>2, <1>4, PutEntries
<1>6. BookTypeOK'
  BY <1>0, <1>4, <1>5 DEF BookTypeOK, BooksTyped
<1>7. /\ index' \in [Owners -> SUBSET Persons]
      /\ \A t \in Owners : index'[t] \subseteq index[t] \cup Known(t)'
  <2>1. CASE UNCHANGED index
    BY <1>0, <2>1
  <2>2. CASE Apply(s, m.from, m, FALSE)
    <3>1. m.from \in Persons
      BY <1>5 DEF Known
    <3>2. /\ index' \in [Owners -> SUBSET Persons]
          /\ index'[s] \subseteq index[s] \cup {m.from}
          /\ \A t \in Owners \ {s} : index'[t] = index[t]
      BY <1>0, <2>2, <3>1, ApplyIndex
    <3>3. QED
      BY <1>5, <3>2
  <2>3. QED
    BY <1>4, <2>1, <2>2
<1>8. Effect
  BY <1>4, <1>5, <1>7 DEF Effect
<1>9. MailInv'
  BY <1>0, <1>4 DEF MailInv
<1>10. QED
  BY <1>6, <1>8, <1>9

(* readdress_pending.                                                      *)
LEMMA ResealMail ==
    ASSUME BookInv, MailInv, NEW id \in pending, Reseal(id)
    PROVE  MailInv'
<1>1. PICK m \in sent : m.id = id
  BY DEF MailInv
<1>2. MessageOf(id) = m /\ m.from \in Owners
  BY <1>1, MessageFound DEF MailInv
<1>3. PICK k : /\ UNCHANGED <<sent, pending>> /\ book[m.from][m.from] # None
               /\ net' = net \cup {[id |-> id, seal |-> k, rec |-> book[m.from][m.from]]}
  BY <1>2 DEF Reseal
<1>4. ASSUME NEW f \in net'
      PROVE  f.rec \in Records /\ \E n \in sent : n.id = f.id /\ n.from = f.rec.user
  <2>1. CASE f \in net
    BY <2>1 DEF MailInv
  <2>2. CASE f = [id |-> id, seal |-> k, rec |-> book[m.from][m.from]]
    BY <1>1, <1>2, <1>3, <2>2, OwnRecord
  <2>3. QED
    BY <1>3, <2>1, <2>2
<1>5. QED
  BY <1>3, <1>4 DEF MailInv

(* Steps of threads, of the clock, and acknowledgements.                   *)
LEMMA OtherTalk ==
    ASSUME TalkInv,
           \/ \E id \in pending : Reseal(id) \/ Ack(id)
           \/ \E s \in Owners, p \in Persons : Read(s, p) \/ Clear(s, p)
           \/ Tick
    PROVE  BookTypeOK' /\ Effect /\ MailInv'
<1>0. /\ BookInv /\ MailInv /\ index \in [Owners -> SUBSET Persons] /\ changes \in [Owners -> Nat]
  BY DEF TalkInv, BookInv, BookTypeOK
<1>1. UNCHANGED <<book, pins, removed, contacts, verified, blocked>>
  BY DEF Reseal, Ack, Read, Clear, Tick, allBookVars, bookVars, peopleVars
<1>2. changes' \in [Owners -> Nat]
  BY <1>0 DEF Reseal, Ack, Read, Clear, Tick, Count, allBookVars
<1>3. index' \in [Owners -> SUBSET Persons] /\ \A s \in Owners : index'[s] \subseteq index[s]
  BY <1>0 DEF Reseal, Ack, Read, Clear, Tick, threadVars
<1>4. BookTypeOK' /\ Effect
  BY <1>0, <1>1, <1>2, <1>3, IdleEffect
<1>5. MailInv'
  <2>1. ASSUME NEW id \in pending, Reseal(id) PROVE MailInv'
    BY <1>0, <2>1, ResealMail
  <2>2. ASSUME UNCHANGED <<sent, net>>, pending' \subseteq pending PROVE MailInv'
    BY <1>0, <2>2 DEF MailInv
  <2>3. (\E id \in pending : Reseal(id)) \/ (UNCHANGED <<sent, net>> /\ pending' \subseteq pending)
    BY DEF Ack, Read, Clear, Tick, mailVars
  <2>4. QED
    BY <2>1, <2>2, <2>3
<1>6. QED
  BY <1>4, <1>5
-----------------------------------------------------------------------------
(* At first everybody knows the people whose cards they have.              *)
LEMMA InitTalk ==
    Init => TalkInv
<1> SUFFICES ASSUME Init PROVE TalkInv
  OBVIOUS
<1>0. BookInit /\ index = [s \in Owners |-> {}]
  BY DEF Init
<1>1. BookTypeOK
  BY <1>0 DEF BookInit, BookTypeOK
<1>2. UserInv
  BY <1>0 DEF BookInit, UserInv
<1>3. PinInv
  BY <1>0 DEF BookInit, PinInv
<1>4. KnownInv
  <2> SUFFICES ASSUME NEW s \in Owners, NEW p \in Persons, Pinned(s, p)
               PROVE  p \in Known(s)
    BY <1>0 DEF KnownInv
  <2>1. <<s, p>> \in Cards
    BY <1>0 DEF BookInit
  <2>2. book[s][p] \in Records
    BY <1>0, <2>1 DEF BookInit
  <2>3. QED
    BY <2>2, RecordTyped DEF Known
<1>5. MailInv
  BY FS_EmptySet DEF Init, MailInv
<1>6. QED
  BY <1>0, <1>1, <1>2, <1>3, <1>4, <1>5 DEF TalkInv, BookInv

(* Every step is an Effect.                                                *)
LEMMA NextTalk ==
    ASSUME TalkInv, Next
    PROVE  BookTypeOK' /\ Effect /\ MailInv'
<1>0. BookInv /\ MailInv
  BY DEF TalkInv
<1>1. ASSUME NEW s \in Owners, BookStep(s), UNCHANGED convVars
      PROVE  BookTypeOK' /\ Effect /\ MailInv'
  <2>1. UNCHANGED <<index, sent, net, pending>>
    BY <1>1 DEF convVars, threadVars, mailVars
  <2>2. MailInv'
    BY <1>0, <2>1 DEF MailInv
  <2>3. QED
    BY <1>0, <1>1, <2>1, <2>2, BookStepEffect
<1>2. ASSUME NEW s \in Owners, Sends(s)
      PROVE  BookTypeOK' /\ Effect /\ MailInv'
  <2>1. PICK p \in Owners : \E m : Send(s, p, m) \/ SendTorn(s, p, m)
    BY <1>2, Zenon DEF Sends
  <2>2. p \in Persons
    BY OwnersArePersons
  <2>3. QED
    BY <2>1, <2>2, SendTalk
<1>3. QED
  BY <1>1, <1>2, AcceptTalk, OtherTalk DEF Next

(* The invariant is inductive, and records advance.                        *)
LEMMA StepTalk ==
    TalkInv /\ [Next]_vars => TalkInv'
<1> SUFFICES ASSUME TalkInv, [Next]_vars PROVE TalkInv'
  OBVIOUS
<1>1. CASE Next
  BY <1>1, NextTalk, EffectKeeps DEF TalkInv
<1>2. CASE UNCHANGED vars
  <2>1. UNCHANGED <<book, pins, removed, contacts, verified, blocked, changes, index, sent, net,
                    pending>>
    BY <1>2 DEF vars, allBookVars, bookVars, peopleVars, convVars, mailVars, threadVars
  <2>2. MailInv'
    BY <2>1 DEF TalkInv, MailInv
  <2>3. BookInv'
    BY <2>1 DEF TalkInv, BookInv, BookTypeOK, UserInv, PinInv, KnownInv, Pinned, Known
  <2>4. QED
    BY <2>2, <2>3 DEF TalkInv
<1>3. QED
  BY <1>1, <1>2
-----------------------------------------------------------------------------
(* What the operations of History do to the rows of a thread and to their  *)
(* order.                                                                  *)

(* The places of the rows of a segment that are not in gone, and where     *)
(* these rows stand afterwards: at places that have the same order.        *)
KeptPlaces(segment, gone) == {j \in 1 .. Len(segment) : segment[j] \notin gone}
Moves(segment, gone, f) ==
    /\ f \in [KeptPlaces(segment, gone) -> 1 .. Len(Without(segment, gone))]
    /\ \A j \in KeptPlaces(segment, gone) : Without(segment, gone)[f[j]] = segment[j]
    /\ \A j, k \in KeptPlaces(segment, gone) : j < k => f[j] < f[k]
    /\ \A n \in 1 .. Len(Without(segment, gone)) :
         \E j \in KeptPlaces(segment, gone) : f[j] = n

(* Filtering a segment keeps the rows that stay, and their order.          *)
LEMMA WithoutPlaces ==
    ASSUME NEW R, NEW segment \in Seq(R), NEW gone
    PROVE  Without(segment, gone) \in Seq(R) /\ \E f : Moves(segment, gone, f)
<1> DEFINE kept == {j \in 1 .. Len(segment) : segment[j] \notin gone}
           Upto(j) == {k \in kept : k <= j}
           Rank(j) == Cardinality(Upto(j))
           N == Cardinality(kept)
           short == Without(segment, gone)
           f == [j \in kept |-> Rank(j)]
<1>0. Len(segment) \in Nat /\ 1 .. Len(segment) \subseteq Nat
  OBVIOUS
<1>1. IsFiniteSet(kept) /\ N \in Nat
  <2>1. IsFiniteSet(1 .. Len(segment))
    BY <1>0, FS_Interval
  <2>2. kept \in SUBSET (1 .. Len(segment))
    OBVIOUS
  <2> HIDE DEF kept
  <2>3. IsFiniteSet(kept)
    BY <2>1, <2>2, FS_Subset
  <2>4. QED
    BY <2>3, FS_CardinalityType
<1>2. \A j : Upto(j) \in SUBSET kept
  OBVIOUS
<1>3. \A j \in kept : j \in Upto(j) /\ j \in Nat /\ j \in 1 .. Len(segment)
  BY <1>0
<1>4. \A j, k \in kept : j < k => Upto(j) \in SUBSET Upto(k) /\ k \notin Upto(j)
  BY <1>0
<1>5. ASSUME NEW j \in kept PROVE Rank(j) \in 1 .. N /\ Rank(j) \in Nat /\ IsFiniteSet(Upto(j))
  <2>0. Upto(j) \in SUBSET kept /\ Upto(j) # {}
    BY <1>2, <1>3
  <2> HIDE DEF kept, Upto
  <2>1. IsFiniteSet(Upto(j)) /\ Cardinality(Upto(j)) <= N
    BY <1>1, <2>0, FS_Subset
  <2>2. Cardinality(Upto(j)) \in Nat /\ Cardinality(Upto(j)) # 0
    BY <2>0, <2>1, FS_CardinalityType, FS_EmptySet
  <2>3. QED
    BY <1>1, <2>1, <2>2
<1>6. ASSUME NEW j \in kept, NEW k \in kept, j < k PROVE Rank(j) < Rank(k)
  <2>1. Upto(j) \in SUBSET Upto(k) /\ Upto(j) # Upto(k)
    BY <1>3, <1>4, <1>6
  <2> HIDE DEF kept, Upto
  <2>2. IsFiniteSet(Upto(k)) /\ Rank(j) \in Nat /\ Rank(k) \in Nat
    BY <1>1, <1>5
  <2>3. Rank(j) <= Rank(k) /\ Rank(j) # Rank(k)
    BY <2>1, <2>2, FS_Subset
  <2>4. QED
    BY <2>2, <2>3
<1>7. \A j, k \in kept : Rank(j) = Rank(k) => j = k
  <2> SUFFICES ASSUME NEW j \in kept, NEW k \in kept, Rank(j) = Rank(k), j # k PROVE FALSE
    OBVIOUS
  <2> HIDE DEF kept, Rank
  <2>1. j \in Nat /\ k \in Nat
    BY <1>3
  <2>2. Rank(j) \in Nat /\ Rank(k) \in Nat
    BY <1>5
  <2>3. j < k \/ k < j
    BY <2>1
  <2>4. QED
    BY <1>6, <2>2, <2>3
<1>8. f \in Injection(kept, 1 .. N)
  <2> HIDE DEF kept, Rank
  <2>1. QED
    BY <1>5, <1>7 DEF Injection, IsInjective
<1>9. \A n \in 1 .. N : \E j \in kept : Rank(j) = n
  <2>1. IsFiniteSet(1 .. N) /\ Cardinality(1 .. N) = N
    BY <1>1, FS_Interval
  <2> HIDE DEF kept, Rank
  <2>2. f \in Surjection(kept, 1 .. N)
    <3> HIDE DEF f
    <3>1. QED
      BY <1>8, <2>1, FS_Injection
  <2>3. QED
    BY <2>2 DEF Surjection
<1>10. short = [n \in 1 .. N |-> segment[CHOOSE j \in kept : Rank(j) = n]]
  BY DEF Without
<1>11. ASSUME NEW j \in kept PROVE short[Rank(j)] = segment[j]
  <2> HIDE DEF kept, Rank, short
  <2>1. (CHOOSE k \in kept : Rank(k) = Rank(j)) = j
    BY <1>7
  <2>2. Rank(j) \in 1 .. N
    BY <1>5
  <2>3. QED
    BY <1>10, <2>1, <2>2
<1>12. short \in Seq(R) /\ Len(short) = N
  <2>1. \A j \in kept : segment[j] \in R
    OBVIOUS
  <2> HIDE DEF kept, Rank, short
  <2>2. ASSUME NEW n \in 1 .. N PROVE short[n] \in R
    <3>1. PICK j \in kept : Rank(j) = n
      BY <1>9
    <3>2. QED
      BY <1>11, <2>1, <3>1
  <2>3. short = [n \in 1 .. N |-> short[n]]
    BY <1>10
  <2>4. QED
    BY <1>1, <2>2, <2>3
<1>13. /\ f \in [kept -> 1 .. Len(short)]
       /\ \A j \in kept : short[f[j]] = segment[j]
       /\ \A j, k \in kept : j < k => f[j] < f[k]
       /\ \A n \in 1 .. Len(short) : \E j \in kept : f[j] = n
  <2> HIDE DEF kept, Rank, short
  <2>1. QED
    BY <1>5, <1>6, <1>9, <1>11, <1>12
<1>14. kept = KeptPlaces(segment, gone)
  BY DEF KeptPlaces
<1>15. QED
  <2> HIDE DEF f, kept, short
  <2>1. Moves(segment, gone, f)
    BY <1>13, <1>14 DEF Moves, short
  <2>2. QED
    BY <1>12, <2>1 DEF short

(* Row j of segment i is there.                                            *)
IsPlace(thread, i, j) == i \in 1 .. Len(thread) /\ j \in 1 .. Len(thread[i])
Earlier(i, j, k, l) == i < k \/ (i = k /\ j < l)

(* No message is there twice.                                              *)
Once(thread) == \A i, j, k, l :
    IsPlace(thread, i, j) /\ IsPlace(thread, k, l) /\ thread[i][j].id = thread[k][l].id =>
        i = k /\ j = l

(* Places are numbers.                                                     *)
LEMMA PlaceTyped ==
    ASSUME NEW R, NEW thread \in Seq(Seq(R)), NEW i, NEW j, IsPlace(thread, i, j)
    PROVE  i \in Nat /\ j \in Nat /\ thread[i] \in Seq(R) /\ thread[i][j] \in R
BY DEF IsPlace

(* Rows in terms of places.                                                *)
LEMMA RowsPlaces ==
    ASSUME NEW thread, NEW row
    PROVE  row \in Rows(thread) <=> \E i, j : IsPlace(thread, i, j) /\ row = thread[i][j]
BY DEF Rows, IsPlace

(* Order in terms of places.                                               *)
LEMMA OrderPlaces ==
    ASSUME NEW R, NEW thread \in Seq(Seq(R)), NEW x
    PROVE  x \in Order(thread) <=> \E i, j, k, l :
             /\ IsPlace(thread, i, j) /\ IsPlace(thread, k, l) /\ Earlier(i, j, k, l)
             /\ x = <<thread[i][j].id, thread[k][l].id>>
<1>1. ASSUME NEW i, NEW j, IsPlace(thread, i, j), NEW row
      PROVE  row \in After(thread, i, j) <=>
               \E k, l : IsPlace(thread, k, l) /\ Earlier(i, j, k, l) /\ row = thread[k][l]
  <2>0. i \in Nat /\ j \in Nat /\ Len(thread) \in Nat
    BY <1>1, PlaceTyped
  <2>1. ASSUME row \in After(thread, i, j)
        PROVE  \E k, l : IsPlace(thread, k, l) /\ Earlier(i, j, k, l) /\ row = thread[k][l]
    <3>1. CASE row \in {thread[i][l] : l \in (j + 1) .. Len(thread[i])}
      <4>1. PICK l \in (j + 1) .. Len(thread[i]) : row = thread[i][l]
        BY <3>1
      <4>2. thread[i] \in Seq(R) /\ Len(thread[i]) \in Nat
        BY <1>1, PlaceTyped
      <4>3. IsPlace(thread, i, l) /\ Earlier(i, j, i, l)
        BY <1>1, <2>0, <4>2 DEF IsPlace, Earlier
      <4>4. QED
        BY <4>1, <4>3
    <3>2. CASE row \in UNION {{thread[k][l] : l \in 1 .. Len(thread[k])} :
                                k \in (i + 1) .. Len(thread)}
      <4>1. PICK k \in (i + 1) .. Len(thread) : \E l \in 1 .. Len(thread[k]) : row = thread[k][l]
        BY <3>2
      <4>2. PICK l \in 1 .. Len(thread[k]) : row = thread[k][l]
        BY <4>1
      <4>3. IsPlace(thread, k, l) /\ Earlier(i, j, k, l)
        BY <2>0 DEF IsPlace, Earlier
      <4>4. QED
        BY <4>2, <4>3
    <3>3. QED
      BY <2>1, <3>1, <3>2 DEF After
  <2>2. ASSUME NEW k, NEW l, IsPlace(thread, k, l), Earlier(i, j, k, l), row = thread[k][l]
        PROVE  row \in After(thread, i, j)
    <3>0. k \in Nat /\ l \in Nat /\ k \in 1 .. Len(thread) /\ l \in 1 .. Len(thread[k])
      BY <2>2, PlaceTyped DEF IsPlace
    <3>1. CASE i < k
      <4>1. k \in (i + 1) .. Len(thread)
        BY <2>0, <3>0, <3>1
      <4>2. row \in {thread[k][n] : n \in 1 .. Len(thread[k])}
        BY <2>2, <3>0
      <4>3. QED
        BY <4>1, <4>2 DEF After
    <3>2. CASE i = k /\ j < l
      <4>1. l \in (j + 1) .. Len(thread[i])
        <5>1. Len(thread[i]) \in Nat
          BY <1>1, PlaceTyped
        <5>2. QED
          BY <2>0, <3>0, <3>2, <5>1
      <4>2. QED
        BY <2>2, <3>2, <4>1 DEF After
    <3>3. QED
      BY <2>2, <3>1, <3>2 DEF Earlier
  <2>3. QED
    BY <2>1, <2>2
<1>2. x \in Order(thread) <=> \E i, j : IsPlace(thread, i, j) /\
        \E row \in After(thread, i, j) : x = <<thread[i][j].id, row.id>>
  BY DEF Order, IsPlace
<1>3. QED
  BY <1>1, <1>2

(* retain: the other rows stay, in their order.                            *)
LEMMA RemoveKeeps ==
    ASSUME NEW R, NEW thread \in Seq(Seq(R)), NEW gone
    PROVE  /\ RemoveRows(thread, gone) \in Seq(Seq(R))
           /\ Rows(RemoveRows(thread, gone)) = Rows(thread) \ gone
           /\ Once(thread) =>
                /\ Once(RemoveRows(thread, gone))
                /\ Order(RemoveRows(thread, gone)) =
                     {x \in Order(thread) : \A row \in Rows(thread) \cap gone :
                         row.id # x[1] /\ row.id # x[2]}
<1>s. PICK short : short = RemoveRows(thread, gone)
  OBVIOUS
<1>1. /\ short = [i \in 1 .. Len(thread) |-> Without(thread[i], gone)]
      /\ Len(thread) \in Nat
      /\ \A i \in 1 .. Len(thread) : thread[i] \in Seq(R)
  BY <1>s DEF RemoveRows
<1>2. \A i \in 1 .. Len(thread) :
        Without(thread[i], gone) \in Seq(R) /\ \E g : Moves(thread[i], gone, g)
  BY <1>1, WithoutPlaces
<1>3. PICK f : f = [i \in 1 .. Len(thread) |-> CHOOSE g : Moves(thread[i], gone, g)]
  OBVIOUS
<1>4. \A i \in 1 .. Len(thread) : Moves(thread[i], gone, f[i])
  BY <1>2, <1>3
<1>t. short \in Seq(Seq(R))
  BY <1>1, <1>2
<1>5. Len(short) = Len(thread) /\ \A i \in 1 .. Len(thread) : short[i] = Without(thread[i], gone)
  BY <1>1
<1>6. ASSUME NEW i, NEW j, IsPlace(thread, i, j), thread[i][j] \notin gone
      PROVE  IsPlace(short, i, f[i][j]) /\ short[i][f[i][j]] = thread[i][j]
  <2>1. i \in 1 .. Len(thread) /\ j \in KeptPlaces(thread[i], gone)
    BY <1>6 DEF IsPlace, KeptPlaces
  <2>2. /\ f[i][j] \in 1 .. Len(Without(thread[i], gone))
        /\ Without(thread[i], gone)[f[i][j]] = thread[i][j]
    BY <1>4, <2>1 DEF Moves
  <2>3. QED
    BY <1>5, <2>1, <2>2 DEF IsPlace
<1>7. ASSUME NEW i, NEW n, IsPlace(short, i, n)
      PROVE  \E j : /\ IsPlace(thread, i, j) /\ f[i][j] = n
                    /\ thread[i][j] = short[i][n] /\ thread[i][j] \notin gone
  <2>1. i \in 1 .. Len(thread) /\ n \in 1 .. Len(short[i]) /\ short[i] = Without(thread[i], gone)
    BY <1>5, <1>7 DEF IsPlace
  <2>2. PICK j \in KeptPlaces(thread[i], gone) : f[i][j] = n
    BY <1>4, <2>1 DEF Moves
  <2>3. short[i][n] = thread[i][j]
    BY <1>4, <2>1, <2>2 DEF Moves
  <2>4. IsPlace(thread, i, j) /\ thread[i][j] \notin gone
    BY <2>1, <2>2 DEF IsPlace, KeptPlaces
  <2>5. QED
    BY <2>2, <2>3, <2>4
<1>8. ASSUME NEW i, NEW j, NEW k, IsPlace(thread, i, j), IsPlace(thread, i, k),
             thread[i][j] \notin gone, thread[i][k] \notin gone
      PROVE  j < k <=> f[i][j] < f[i][k]
  <2>1. /\ i \in 1 .. Len(thread)
        /\ j \in KeptPlaces(thread[i], gone) /\ k \in KeptPlaces(thread[i], gone)
    BY <1>8 DEF IsPlace, KeptPlaces
  <2>2. j \in Nat /\ k \in Nat /\ f[i][j] \in Nat /\ f[i][k] \in Nat
    <3>1. IsPlace(short, i, f[i][j]) /\ IsPlace(short, i, f[i][k])
      BY <1>6, <1>8
    <3>2. QED
      BY <1>8, <1>t, <3>1, PlaceTyped
  <2>3. (j < k => f[i][j] < f[i][k]) /\ (k < j => f[i][k] < f[i][j])
    BY <1>4, <2>1 DEF Moves
  <2>4. QED
    BY <2>2, <2>3
<1>9. Rows(short) = Rows(thread) \ gone
  <2>1. ASSUME NEW row \in Rows(short) PROVE row \in Rows(thread) \ gone
    BY <1>7, <2>1, RowsPlaces
  <2>2. ASSUME NEW row \in Rows(thread) \ gone PROVE row \in Rows(short)
    BY <1>6, <2>2, RowsPlaces
  <2>3. QED
    BY <2>1, <2>2
<1>10. ASSUME Once(thread) PROVE Once(short)
  <2> SUFFICES ASSUME NEW i, NEW n, NEW k, NEW o, IsPlace(short, i, n), IsPlace(short, k, o),
                      short[i][n].id = short[k][o].id
               PROVE  i = k /\ n = o
    BY DEF Once
  <2>1. PICK j : IsPlace(thread, i, j) /\ f[i][j] = n /\ thread[i][j] = short[i][n]
    BY <1>7
  <2>2. PICK l : IsPlace(thread, k, l) /\ f[k][l] = o /\ thread[k][l] = short[k][o]
    BY <1>7
  <2>3. i = k /\ j = l
    BY <1>10, <2>1, <2>2 DEF Once
  <2>4. QED
    BY <2>1, <2>2, <2>3
<1>11. ASSUME Once(thread)
       PROVE  Order(short) = {x \in Order(thread) : \A row \in Rows(thread) \cap gone :
                                 row.id # x[1] /\ row.id # x[2]}
  <2>1. ASSUME NEW x \in Order(short)
        PROVE  x \in Order(thread) /\ \A row \in Rows(thread) \cap gone :
                                 row.id # x[1] /\ row.id # x[2]
    <3>1. PICK i, n, k, o : /\ IsPlace(short, i, n) /\ IsPlace(short, k, o)
                            /\ Earlier(i, n, k, o)
                            /\ x = <<short[i][n].id, short[k][o].id>>
      BY <1>t, <2>1, OrderPlaces
    <3>2. PICK j : /\ IsPlace(thread, i, j) /\ f[i][j] = n
                   /\ thread[i][j] = short[i][n] /\ thread[i][j] \notin gone
      BY <1>7, <3>1
    <3>3. PICK l : /\ IsPlace(thread, k, l) /\ f[k][l] = o
                   /\ thread[k][l] = short[k][o] /\ thread[k][l] \notin gone
      BY <1>7, <3>1
    <3>4. Earlier(i, j, k, l)
      BY <1>8, <3>1, <3>2, <3>3 DEF Earlier
    <3>5. x \in Order(thread)
      BY <3>1, <3>2, <3>3, <3>4, OrderPlaces
    <3>6. ASSUME NEW row \in Rows(thread) \cap gone, row.id = x[1] \/ row.id = x[2] PROVE FALSE
      <4>1. PICK a, b : IsPlace(thread, a, b) /\ row = thread[a][b]
        BY <3>6, RowsPlaces
      <4>2. x[1] = thread[i][j].id /\ x[2] = thread[k][l].id
        BY <3>1, <3>2, <3>3
      <4>3. row = thread[i][j] \/ row = thread[k][l]
        BY <1>11, <3>2, <3>3, <3>6, <4>1, <4>2 DEF Once
      <4>4. QED
        BY <3>2, <3>3, <3>6, <4>3
    <3>7. QED
      BY <3>5, <3>6
  <2>2. ASSUME NEW x \in Order(thread),
               \A row \in Rows(thread) \cap gone : row.id # x[1] /\ row.id # x[2]
        PROVE  x \in Order(short)
    <3>1. PICK i, j, k, l : /\ IsPlace(thread, i, j) /\ IsPlace(thread, k, l)
                            /\ Earlier(i, j, k, l)
                            /\ x = <<thread[i][j].id, thread[k][l].id>>
      BY <2>2, OrderPlaces
    <3>2. thread[i][j] \in Rows(thread) /\ thread[k][l] \in Rows(thread)
      BY <3>1, RowsPlaces
    <3>3. thread[i][j] \notin gone /\ thread[k][l] \notin gone
      BY <2>2, <3>1, <3>2
    <3>4. /\ IsPlace(short, i, f[i][j]) /\ short[i][f[i][j]] = thread[i][j]
          /\ IsPlace(short, k, f[k][l]) /\ short[k][f[k][l]] = thread[k][l]
      BY <1>6, <3>1, <3>3
    <3>5. Earlier(i, f[i][j], k, f[k][l])
      BY <1>8, <3>1, <3>3 DEF Earlier
    <3>6. PICK n, o : n = f[i][j] /\ o = f[k][l]
      OBVIOUS
    <3>7. /\ IsPlace(short, i, n) /\ IsPlace(short, k, o) /\ Earlier(i, n, k, o)
          /\ x = <<short[i][n].id, short[k][o].id>>
      BY <3>1, <3>4, <3>5, <3>6
    <3>8. QED
      BY <1>t, <3>7, OrderPlaces
  <2>3. QED
    BY <2>1, <2>2
<1>12. QED
  BY <1>9, <1>10, <1>11, <1>s, <1>t

(* edit: the rows keep their places.                                       *)
EditedRows(rows, id, text, mine) ==
    {IF row.id = id /\ row.mine = mine THEN [row EXCEPT !.text = text] ELSE row : row \in rows}
MayEdit(R, text) == \A row \in R :
    [row EXCEPT !.text = text] \in R /\ [row EXCEPT !.text = text].id = row.id

(* What edit does to rows and order.                                       *)
LEMMA EditKeeps ==
    ASSUME NEW R, NEW thread \in Seq(Seq(R)), NEW id, NEW text, NEW mine, MayEdit(R, text)
    PROVE  /\ EditRow(thread, id, text, mine) \in Seq(Seq(R))
           /\ Rows(EditRow(thread, id, text, mine)) = EditedRows(Rows(thread), id, text, mine)
           /\ Once(thread) => Once(EditRow(thread, id, text, mine))
           /\ Order(EditRow(thread, id, text, mine)) = Order(thread)
<1> DEFINE Edit(row) == IF row.id = id /\ row.mine = mine
                          THEN [row EXCEPT !.text = text] ELSE row
<1>s. PICK other : other = EditRow(thread, id, text, mine)
  OBVIOUS
<1>1. /\ other = [i \in 1 .. Len(thread) |-> [j \in 1 .. Len(thread[i]) |-> Edit(thread[i][j])]]
      /\ Len(thread) \in Nat /\ \A i \in 1 .. Len(thread) : thread[i] \in Seq(R)
  BY <1>s DEF EditRow
<1>2. \A row \in R : Edit(row) \in R /\ Edit(row).id = row.id
  BY DEF MayEdit
<1> HIDE DEF Edit
<1>3. ASSUME NEW i \in 1 .. Len(thread)
      PROVE  other[i] \in Seq(R) /\ Len(other[i]) = Len(thread[i])
  <2>1. thread[i] \in Seq(R) /\ other[i] = [j \in 1 .. Len(thread[i]) |-> Edit(thread[i][j])]
    BY <1>1
  <2>2. \A j \in 1 .. Len(thread[i]) : Edit(thread[i][j]) \in R
    BY <1>2, <2>1
  <2>3. QED
    BY <2>1, <2>2
<1>t. other \in Seq(Seq(R)) /\ Len(other) = Len(thread)
  BY <1>1, <1>3
<1>4. \A i, j : IsPlace(other, i, j) <=> IsPlace(thread, i, j)
  BY <1>3, <1>t DEF IsPlace
<1>5. \A i, j : IsPlace(thread, i, j) => other[i][j] = Edit(thread[i][j])
  BY <1>1 DEF IsPlace
<1>6. \A i, j : IsPlace(thread, i, j) => other[i][j].id = thread[i][j].id
  BY <1>2, <1>5, PlaceTyped
<1>7. Rows(other) = {Edit(row) : row \in Rows(thread)}
  <2>1. ASSUME NEW row \in Rows(other) PROVE row \in {Edit(r) : r \in Rows(thread)}
    <3>1. PICK i, j : IsPlace(other, i, j) /\ row = other[i][j]
      BY <2>1, RowsPlaces
    <3>2. thread[i][j] \in Rows(thread) /\ row = Edit(thread[i][j])
      BY <1>4, <1>5, <3>1, RowsPlaces
    <3>3. QED
      BY <3>2
  <2>2. ASSUME NEW row \in Rows(thread) PROVE Edit(row) \in Rows(other)
    <3>1. PICK i, j : IsPlace(thread, i, j) /\ row = thread[i][j]
      BY <2>2, RowsPlaces
    <3>2. IsPlace(other, i, j) /\ Edit(row) = other[i][j]
      BY <1>4, <1>5, <3>1
    <3>3. QED
      BY <3>2, RowsPlaces
  <2>3. QED
    BY <2>1, <2>2
<1>8. Once(thread) => Once(other)
  BY <1>4, <1>6 DEF Once
<1>9. Order(other) = Order(thread)
  <2>1. ASSUME NEW x PROVE x \in Order(other) <=> x \in Order(thread)
    <3>1. x \in Order(thread) <=> \E i, j, k, l :
            /\ IsPlace(thread, i, j) /\ IsPlace(thread, k, l) /\ Earlier(i, j, k, l)
            /\ x = <<thread[i][j].id, thread[k][l].id>>
      BY OrderPlaces
    <3>2. x \in Order(other) <=> \E i, j, k, l :
            /\ IsPlace(other, i, j) /\ IsPlace(other, k, l) /\ Earlier(i, j, k, l)
            /\ x = <<other[i][j].id, other[k][l].id>>
      BY <1>t, OrderPlaces
    <3>3. ASSUME NEW i, NEW j, NEW k, NEW l
          PROVE  (/\ IsPlace(other, i, j) /\ IsPlace(other, k, l) /\ Earlier(i, j, k, l)
                  /\ x = <<other[i][j].id, other[k][l].id>>) <=>
                 (/\ IsPlace(thread, i, j) /\ IsPlace(thread, k, l) /\ Earlier(i, j, k, l)
                  /\ x = <<thread[i][j].id, thread[k][l].id>>)
      BY <1>4, <1>6
    <3>4. QED
      BY <3>1, <3>2, <3>3
  <2>2. QED
    BY <2>1
<1>10. QED
  BY <1>7, <1>8, <1>9, <1>s, <1>t DEF Edit, EditedRows

(* append_segment_mutations: the row gets a place after all others.        *)
LEMMA AppendKeeps ==
    ASSUME NEW R, NEW thread \in Seq(Seq(R)), NEW row \in R
    PROVE  /\ AppendRow(thread, row) \in Seq(Seq(R))
           /\ Rows(AppendRow(thread, row)) = Rows(thread) \cup {row}
           /\ Once(thread) /\ row.id \notin Ids(thread) => Once(AppendRow(thread, row))
           /\ Order(AppendRow(thread, row)) =
                Order(thread) \cup {<<r.id, row.id>> : r \in Rows(thread)}
<1>s. PICK long : long = AppendRow(thread, row)
  OBVIOUS
<1>0. Len(thread) \in Nat /\ \A i \in 1 .. Len(thread) : thread[i] \in Seq(R) /\ Len(thread[i]) \in Nat
  OBVIOUS
<1>1. /\ long \in Seq(Seq(R))
      /\ \E a, b : /\ IsPlace(long, a, b) /\ long[a][b] = row
                   /\ \A i, j : IsPlace(long, i, j) <=> IsPlace(thread, i, j) \/ (i = a /\ j = b)
                   /\ \A i, j : IsPlace(thread, i, j) =>
                        long[i][j] = thread[i][j] /\ Earlier(i, j, a, b)
  <2>1. CASE thread = << >>
    <3>1. long = << <<row>> >>
      BY <1>s, <2>1 DEF AppendRow
    <3>2. \A i, j : ~ IsPlace(thread, i, j)
      BY <2>1 DEF IsPlace
    <3>3. \A i, j : IsPlace(long, i, j) <=> i = 1 /\ j = 1
      <4>1. Len(long) = 1 /\ Len(long[1]) = 1
        BY <3>1
      <4>2. \A i : i \in 1 .. 1 <=> i = 1
        OBVIOUS
      <4>3. QED
        BY <4>1, <4>2 DEF IsPlace
    <3>4. long \in Seq(Seq(R)) /\ long[1][1] = row
      BY <3>1
    <3>5. QED
      BY <3>2, <3>3, <3>4
  <2>2. CASE thread # << >> /\ Len(thread[Len(thread)]) >= Segment
    <3>1. long = Append(thread, <<row>>)
      BY <1>s, <2>2 DEF AppendRow
    <3>2. /\ long \in Seq(Seq(R)) /\ Len(long) = Len(thread) + 1
          /\ long[Len(thread) + 1] = <<row>>
          /\ \A i \in 1 .. Len(thread) : long[i] = thread[i]
      BY <1>0, <3>1
    <3>3. \A i, j : IsPlace(thread, i, j) =>
            IsPlace(long, i, j) /\ long[i][j] = thread[i][j] /\ Earlier(i, j, Len(thread) + 1, 1)
      BY <1>0, <3>2 DEF IsPlace, Earlier
    <3>4. IsPlace(long, Len(thread) + 1, 1) /\ long[Len(thread) + 1][1] = row
      BY <1>0, <3>2 DEF IsPlace
    <3>5. ASSUME NEW i, NEW j, IsPlace(long, i, j)
          PROVE  IsPlace(thread, i, j) \/ (i = Len(thread) + 1 /\ j = 1)
      <4>1. i \in 1 .. Len(thread) \/ i = Len(thread) + 1
        BY <1>0, <3>2, <3>5 DEF IsPlace
      <4>2. CASE i \in 1 .. Len(thread)
        BY <3>2, <3>5, <4>2 DEF IsPlace
      <4>3. CASE i = Len(thread) + 1
        <5>1. j \in 1 .. Len(<<row>>)
          BY <3>2, <3>5, <4>3 DEF IsPlace
        <5>2. QED
          BY <4>3, <5>1
      <4>4. QED
        BY <4>1, <4>2, <4>3
    <3>6. QED
      BY <3>2, <3>3, <3>4, <3>5
  <2>3. CASE thread # << >> /\ ~ (Len(thread[Len(thread)]) >= Segment)
    <3>a. PICK a : a = Len(thread)
      OBVIOUS
    <3>0. a \in 1 .. Len(thread) /\ thread[a] \in Seq(R) /\ Len(thread[a]) \in Nat
      BY <1>0, <2>3, <3>a
    <3>b. PICK b : b = Len(thread[a]) + 1
      OBVIOUS
    <3>1. long = [thread EXCEPT ![a] = Append(thread[a], row)]
      BY <1>s, <2>3, <3>a DEF AppendRow
    <3>2. /\ Append(thread[a], row) \in Seq(R) /\ Len(Append(thread[a], row)) = b
          /\ Append(thread[a], row)[b] = row
          /\ \A j \in 1 .. Len(thread[a]) : Append(thread[a], row)[j] = thread[a][j]
      BY <3>0, <3>b
    <3>3. /\ long \in Seq(Seq(R)) /\ Len(long) = Len(thread)
          /\ long[a] = Append(thread[a], row)
          /\ \A i \in 1 .. Len(thread) : i # a => long[i] = thread[i]
      BY <3>0, <3>1, <3>2
    <3>4. \A i, j : IsPlace(thread, i, j) =>
            IsPlace(long, i, j) /\ long[i][j] = thread[i][j] /\ Earlier(i, j, a, b)
      <4> SUFFICES ASSUME NEW i, NEW j, IsPlace(thread, i, j)
                   PROVE  IsPlace(long, i, j) /\ long[i][j] = thread[i][j] /\ Earlier(i, j, a, b)
        OBVIOUS
      <4>1. CASE i = a
        BY <3>0, <3>2, <3>3, <3>b, <4>1 DEF IsPlace, Earlier
      <4>2. CASE i # a
        BY <1>0, <3>0, <3>3, <3>a, <4>2 DEF IsPlace, Earlier
      <4>3. QED
        BY <4>1, <4>2
    <3>5. IsPlace(long, a, b) /\ long[a][b] = row
      BY <3>0, <3>2, <3>3, <3>b DEF IsPlace
    <3>6. ASSUME NEW i, NEW j, IsPlace(long, i, j)
          PROVE  IsPlace(thread, i, j) \/ (i = a /\ j = b)
      <4>1. CASE i = a
        BY <3>0, <3>2, <3>3, <3>6, <3>b, <4>1 DEF IsPlace
      <4>2. CASE i # a
        BY <3>3, <3>6, <4>2 DEF IsPlace
      <4>3. QED
        BY <4>1, <4>2
    <3>7. QED
      BY <3>3, <3>4, <3>5, <3>6
  <2>4. QED
    BY <2>1, <2>2, <2>3
<1>2. PICK a, b : /\ IsPlace(long, a, b) /\ long[a][b] = row
                  /\ \A i, j : IsPlace(long, i, j) <=> IsPlace(thread, i, j) \/ (i = a /\ j = b)
                  /\ \A i, j : IsPlace(thread, i, j) =>
                       long[i][j] = thread[i][j] /\ Earlier(i, j, a, b)
  BY <1>1
<1>3. Rows(long) = Rows(thread) \cup {row}
  <2>1. ASSUME NEW r PROVE r \in Rows(long) <=> r \in Rows(thread) \cup {row}
    <3>1. r \in Rows(long) <=> \E i, j : IsPlace(long, i, j) /\ r = long[i][j]
      BY RowsPlaces
    <3>2. r \in Rows(thread) <=> \E i, j : IsPlace(thread, i, j) /\ r = thread[i][j]
      BY RowsPlaces
    <3>3. ASSUME r \in Rows(long) PROVE r \in Rows(thread) \cup {row}
      <4>1. PICK i, j : IsPlace(long, i, j) /\ r = long[i][j]
        BY <3>1, <3>3
      <4>2. CASE IsPlace(thread, i, j)
        BY <1>2, <3>2, <4>1, <4>2
      <4>3. CASE i = a /\ j = b
        BY <1>2, <4>1, <4>3
      <4>4. QED
        BY <1>2, <4>1, <4>2, <4>3
    <3>4. ASSUME r \in Rows(thread) PROVE r \in Rows(long)
      <4>1. PICK i, j : IsPlace(thread, i, j) /\ r = thread[i][j]
        BY <3>2, <3>4
      <4>2. QED
        BY <1>2, <3>1, <4>1
    <3>5. QED
      BY <1>2, <3>1, <3>3, <3>4
  <2>2. QED
    BY <2>1
<1>4. ASSUME Once(thread), row.id \notin Ids(thread) PROVE Once(long)
  <2>1. \A i, j : IsPlace(thread, i, j) => thread[i][j].id # row.id
    BY <1>4, RowsPlaces DEF Ids
  <2>2. ASSUME NEW i, NEW j, NEW k, NEW l, IsPlace(long, i, j), IsPlace(long, k, l),
               long[i][j].id = long[k][l].id
        PROVE  i = k /\ j = l
    <3>1. /\ IsPlace(thread, i, j) \/ (i = a /\ j = b)
          /\ IsPlace(thread, k, l) \/ (k = a /\ l = b)
      BY <1>2, <2>2
    <3>2. CASE IsPlace(thread, i, j) /\ IsPlace(thread, k, l)
      BY <1>2, <1>4, <2>2, <3>2 DEF Once
    <3>3. CASE IsPlace(thread, i, j) /\ k = a /\ l = b
      BY <1>2, <2>1, <2>2, <3>3
    <3>4. CASE IsPlace(thread, k, l) /\ i = a /\ j = b
      BY <1>2, <2>1, <2>2, <3>4
    <3>5. QED
      BY <3>1, <3>2, <3>3, <3>4
  <2>3. QED
    BY <2>2 DEF Once
<1>5. Order(long) = Order(thread) \cup {<<r.id, row.id>> : r \in Rows(thread)}
  <2>0. \A i, j : IsPlace(thread, i, j) => ~ Earlier(a, b, i, j) /\ ~ (i = a /\ j = b)
    <3> SUFFICES ASSUME NEW i, NEW j, IsPlace(thread, i, j)
                 PROVE  ~ Earlier(a, b, i, j) /\ ~ (i = a /\ j = b)
      OBVIOUS
    <3>1. i \in Nat /\ j \in Nat /\ a \in Nat /\ b \in Nat
      BY <1>1, <1>2, PlaceTyped
    <3>2. Earlier(i, j, a, b)
      BY <1>2
    <3>3. QED
      BY <3>1, <3>2 DEF Earlier
  <2>a. ~ Earlier(a, b, a, b)
    <3>1. a \in Nat /\ b \in Nat
      BY <1>1, <1>2, PlaceTyped
    <3>2. QED
      BY <3>1 DEF Earlier
  <2>1. ASSUME NEW x
        PROVE  x \in Order(long) <=>
                 x \in Order(thread) \/ \E r \in Rows(thread) : x = <<r.id, row.id>>
    <3>1. x \in Order(thread) <=> \E i, j, k, l :
            /\ IsPlace(thread, i, j) /\ IsPlace(thread, k, l) /\ Earlier(i, j, k, l)
            /\ x = <<thread[i][j].id, thread[k][l].id>>
      BY OrderPlaces
    <3>2. x \in Order(long) <=> \E i, j, k, l :
            /\ IsPlace(long, i, j) /\ IsPlace(long, k, l) /\ Earlier(i, j, k, l)
            /\ x = <<long[i][j].id, long[k][l].id>>
      BY <1>1, OrderPlaces
    <3>3. (\E r \in Rows(thread) : x = <<r.id, row.id>>) <=>
            \E i, j : IsPlace(thread, i, j) /\ x = <<thread[i][j].id, row.id>>
      BY RowsPlaces
    <3>4. ASSUME x \in Order(long)
          PROVE  x \in Order(thread) \/ \E r \in Rows(thread) : x = <<r.id, row.id>>
      <4>1. PICK i, j, k, l :
              /\ IsPlace(long, i, j) /\ IsPlace(long, k, l) /\ Earlier(i, j, k, l)
              /\ x = <<long[i][j].id, long[k][l].id>>
        BY <3>2, <3>4
      <4>2. IsPlace(thread, i, j)
        BY <1>2, <2>0, <2>a, <4>1
      <4>3. CASE IsPlace(thread, k, l)
        <5>1. long[i][j] = thread[i][j] /\ long[k][l] = thread[k][l]
          BY <1>2, <4>2, <4>3
        <5>2. QED
          BY <3>1, <4>1, <4>2, <4>3, <5>1
      <4>4. CASE k = a /\ l = b
        BY <1>2, <3>3, <4>1, <4>2, <4>4
      <4>5. QED
        BY <1>2, <4>1, <4>3, <4>4
    <3>5. ASSUME x \in Order(thread) PROVE x \in Order(long)
      <4>1. PICK i, j, k, l :
              /\ IsPlace(thread, i, j) /\ IsPlace(thread, k, l) /\ Earlier(i, j, k, l)
              /\ x = <<thread[i][j].id, thread[k][l].id>>
        BY <3>1, <3>5
      <4>2. /\ long[i][j] = thread[i][j] /\ long[k][l] = thread[k][l]
            /\ IsPlace(long, i, j) /\ IsPlace(long, k, l)
        BY <1>2, <4>1
      <4>3. QED
        BY <3>2, <4>1, <4>2
    <3>6. ASSUME NEW i, NEW j, IsPlace(thread, i, j), x = <<thread[i][j].id, row.id>>
          PROVE  x \in Order(long)
      BY <1>2, <3>2, <3>6
    <3>7. QED
      BY <3>3, <3>4, <3>5, <3>6
  <2>2. QED
    BY <2>1
<1>6. QED
  BY <1>1, <1>3, <1>4, <1>5, <1>s
-----------------------------------------------------------------------------
(* Messages and rows, without the bounds of the runs.                      *)
Letter == [id : Nat, from : Owners, to : Owners, kind : Kinds, target : Nat,
           until : Nat \cup {Forever}]
StoredRow == [id : Nat, mine : BOOLEAN, text : Nat, until : Nat \cup {Forever}]
Threads == Seq(Seq(StoredRow))

(* Messages are between two people, edits and deletions are of earlier     *)
(* messages, and what was accepted had been pushed.                        *)
PostInv ==
    /\ now \in Nat
    /\ sent \subseteq Letter
    /\ \A m \in sent : m.to # m.from /\ (m.kind # "text" => m.target < m.id)
    /\ inbox \in [Owners -> SUBSET net]

(* Threads hold messages that were sent, each once.                        *)
ThreadInv ==
    /\ hist \in [Owners -> [Persons -> Threads]]
    /\ \A s \in Owners, p \in Persons :
         Once(hist[s][p]) /\ \A row \in Rows(hist[s][p]) : \E m \in sent : m.id = row.id

(* What the messages in B, the text m and changes of it, say: the wording  *)
(* of the last one, unless there is a deletion.                            *)
Says(B, x) == \E q \in B : q.id = x /\ \A r \in B : r.id <= x /\ r.kind # "delete"
HasLast(B) == B # {} => \E q \in B : \A r \in B : r.id <= q.id

(* The rows show what B says of m, as long as m has not expired.           *)
Shows(rows, m, mine, B, time) ==
    /\ \A row \in rows : row.id = m.id => row.until = m.until /\ row.mine = mine
    /\ ~ Expired(m.until, time) => \A x :
         (\E row \in rows : row.id = m.id /\ row.text = x) <=> Says(B, x)

(* The messages of its author about text m, and those that have arrived.   *)
OfText(m) == {q \in sent : About(q) = m.id /\ q.from = m.from /\ q.to = m.to}
Arrived(q) == \E f \in inbox[q.to] : f.id = q.id
Received(m) == {q \in OfText(m) : Arrived(q)}

Settles(m) ==
    /\ Shows(Rows(hist[m.from][m.to]), m, TRUE, OfText(m), now)
    /\ Shows(Rows(hist[m.to][m.from]), m, FALSE, Received(m), now)
    /\ HasLast(OfText(m)) /\ HasLast(Received(m))
    /\ \A q, r \in OfText(m) : q.id < r.id /\ Arrived(r) => Arrived(q)

SettleInv == \A m \in sent : m.kind = "text" /\ m.id \notin astray => Settles(m)

(* What message q makes of rows (Apply).                                   *)
NewRows(rows, q, mine) ==
    IF q.kind = "text"
      THEN IF \E row \in rows : row.id = q.id THEN rows ELSE rows \cup {RowOf(q, mine)}
    ELSE IF q.kind = "edit"
      THEN EditedRows(rows, q.target, q.id, mine)
    ELSE {row \in rows : ~ (row.id = q.target /\ row.mine = mine)}

(* A message about something else, or by the other side, leaves the rows   *)
(* of a text alone.                                                        *)
LEMMA OtherShows ==
    ASSUME NEW rows \in SUBSET StoredRow, NEW m \in Letter, NEW q \in Letter,
           NEW mine \in BOOLEAN, NEW mq \in BOOLEAN, NEW B, NEW time,
           Shows(rows, m, mine, B, time),
           About(q) # m.id \/ (q.kind # "text" /\ mq # mine)
    PROVE  Shows(NewRows(rows, q, mq), m, mine, B, time)
<1>0. \A row \in StoredRow : /\ [row EXCEPT !.text = q.id].id = row.id
                             /\ [row EXCEPT !.text = q.id].until = row.until
                             /\ [row EXCEPT !.text = q.id].mine = row.mine
  BY DEF StoredRow
<1>1. \A row : row.id = m.id => (row \in NewRows(rows, q, mq) <=> row \in rows)
  <2>1. CASE q.kind = "text"
    <3>1. RowOf(q, mq).id # m.id
      BY <2>1 DEF About, RowOf
    <3>2. QED
      BY <2>1, <3>1 DEF NewRows
  <2>2. CASE q.kind = "edit"
    <3>1. \A row \in rows : row.id = m.id => ~ (row.id = q.target /\ row.mine = mq)
      BY <2>2 DEF About, Shows
    <3>2. NewRows(rows, q, mq) = {IF row.id = q.target /\ row.mine = mq
                                    THEN [row EXCEPT !.text = q.id] ELSE row : row \in rows}
      BY <2>2 DEF NewRows, EditedRows
    <3>3. ASSUME NEW row, row.id = m.id, row \in rows PROVE row \in NewRows(rows, q, mq)
      BY <3>1, <3>2, <3>3
    <3>4. ASSUME NEW row, row.id = m.id, row \in NewRows(rows, q, mq) PROVE row \in rows
      <4>1. PICK r \in rows : row = IF r.id = q.target /\ r.mine = mq
                                      THEN [r EXCEPT !.text = q.id] ELSE r
        BY <3>2, <3>4
      <4>2. r.id = m.id
        BY <1>0, <3>4, <4>1
      <4>3. QED
        BY <3>1, <4>1, <4>2
    <3>5. QED
      BY <3>3, <3>4
  <2>3. CASE q.kind = "delete"
    <3>1. \A row \in rows : row.id = m.id => ~ (row.id = q.target /\ row.mine = mq)
      BY <2>3 DEF About, Shows
    <3>2. QED
      BY <2>3, <3>1 DEF NewRows
  <2>4. QED
    BY <2>1, <2>2, <2>3 DEF Letter, Kinds
<1>2. QED
  BY <1>1 DEF Shows

(* The author changes the text: the rows show the change.                  *)
LEMMA OwnShows ==
    ASSUME NEW rows \in SUBSET StoredRow, NEW m \in Letter, NEW q \in Letter,
           NEW mine \in BOOLEAN, NEW B \in SUBSET Letter, NEW time,
           Shows(rows, m, mine, B, time), q.kind # "text", q.target = m.id,
           B # {}, HasLast(B), \A r \in B : r.id < q.id
    PROVE  Shows(NewRows(rows, q, mine), m, mine, B \cup {q}, time) /\ HasLast(B \cup {q})
<1>0. \A row \in StoredRow : /\ [row EXCEPT !.text = q.id].id = row.id
                             /\ [row EXCEPT !.text = q.id].until = row.until
                             /\ [row EXCEPT !.text = q.id].mine = row.mine
                             /\ [row EXCEPT !.text = q.id].text = q.id
  BY DEF StoredRow
<1>1. q.id \in Nat /\ \A r \in B : r.id \in Nat
  BY DEF Letter
<1>2. HasLast(B \cup {q})
  BY <1>1 DEF HasLast
<1>3. CASE q.kind = "delete"
  <2>1. \A row \in NewRows(rows, q, mine) : row \in rows /\ row.id # m.id
    BY <1>3 DEF NewRows, Shows
  <2>2. \A x : ~ Says(B \cup {q}, x)
    BY <1>3 DEF Says
  <2>3. QED
    BY <1>2, <2>1, <2>2 DEF Shows
<1>4. CASE q.kind = "edit"
  <2>1. NewRows(rows, q, mine) = {IF row.id = q.target /\ row.mine = mine
                                    THEN [row EXCEPT !.text = q.id] ELSE row : row \in rows}
    BY <1>4 DEF NewRows, EditedRows
  <2>2. ASSUME NEW row \in NewRows(rows, q, mine), row.id = m.id
        PROVE  /\ row.until = m.until /\ row.mine = mine /\ row.text = q.id
               /\ \E r \in rows : r.id = m.id
    <3>1. PICK r \in rows : row = IF r.id = q.target /\ r.mine = mine
                                    THEN [r EXCEPT !.text = q.id] ELSE r
      BY <2>1
    <3>2. r.id = m.id
      BY <1>0, <2>2, <3>1
    <3>3. r.until = m.until /\ r.mine = mine
      BY <3>2 DEF Shows
    <3>4. QED
      BY <1>0, <3>1, <3>2, <3>3
  <2>3. ASSUME NEW r \in rows, r.id = m.id
        PROVE  \E row \in NewRows(rows, q, mine) : row.id = m.id /\ row.text = q.id
    <3>1. r.mine = mine
      BY <2>3 DEF Shows
    <3>2. [r EXCEPT !.text = q.id] \in NewRows(rows, q, mine)
      BY <2>1, <2>3, <3>1
    <3>3. QED
      BY <1>0, <2>3, <3>2
  <2>4. ASSUME ~ Expired(m.until, time), NEW x
        PROVE  (\E row \in NewRows(rows, q, mine) : row.id = m.id /\ row.text = x)
                 <=> Says(B \cup {q}, x)
    <3>1. Says(B \cup {q}, x) <=> x = q.id /\ \A r \in B : r.kind # "delete"
      BY <1>1, <1>4 DEF Says
    <3>2. (\E r \in rows : r.id = m.id) <=> \A r \in B : r.kind # "delete"
      <4>1. PICK y \in B : \A r \in B : r.id <= y.id
        BY DEF HasLast
      <4>2. (\A r \in B : r.kind # "delete") => Says(B, y.id)
        BY <4>1 DEF Says
      <4>3. \A z : Says(B, z) => \A r \in B : r.kind # "delete"
        BY DEF Says
      <4>4. \A z : (\E row \in rows : row.id = m.id /\ row.text = z) <=> Says(B, z)
        BY <2>4 DEF Shows
      <4>5. QED
        BY <4>2, <4>3, <4>4
    <3>3. QED
      BY <2>2, <2>3, <3>1, <3>2
  <2>5. QED
    BY <1>2, <2>2, <2>4 DEF Shows
<1>5. QED
  BY <1>3, <1>4 DEF Letter, Kinds

(* The text itself is added.                                               *)
LEMMA FirstShows ==
    ASSUME NEW rows \in SUBSET StoredRow, NEW m \in Letter, m.kind = "text",
           NEW mine \in BOOLEAN, NEW time, \A row \in rows : row.id # m.id
    PROVE  Shows(NewRows(rows, m, mine), m, mine, {m}, time) /\ HasLast({m})
<1>1. NewRows(rows, m, mine) = rows \cup {RowOf(m, mine)}
  BY DEF NewRows
<1>2. m.id \in Nat /\ HasLast({m})
  BY DEF Letter, HasLast
<1>3. \A x : Says({m}, x) <=> x = m.id
  BY <1>2 DEF Says
<1>4. /\ RowOf(m, mine).id = m.id /\ RowOf(m, mine).until = m.until
      /\ RowOf(m, mine).mine = mine /\ RowOf(m, mine).text = m.id
  BY DEF RowOf
<1>5. QED
  BY <1>1, <1>2, <1>3, <1>4 DEF Shows

(* Rows that have expired are removed, rows of other messages go, and time *)
(* passes.                                                                 *)
LEMMA LessShows ==
    ASSUME NEW rows, NEW other, NEW m \in Letter, NEW mine, NEW B, NEW time, NEW later,
           Shows(rows, m, mine, B, time), other \subseteq rows,
           Expired(m.until, time) => Expired(m.until, later),
           \A row \in rows : row \in other \/ row.id # m.id \/ Expired(row.until, later)
    PROVE  Shows(other, m, mine, B, later)
<1>1. \A row \in other : row.id = m.id => row.until = m.until /\ row.mine = mine
  BY DEF Shows
<1>2. ASSUME ~ Expired(m.until, later), NEW x
      PROVE  (\E row \in other : row.id = m.id /\ row.text = x) <=> Says(B, x)
  <2>1. (\E row \in rows : row.id = m.id /\ row.text = x) <=> Says(B, x)
    BY <1>2 DEF Shows
  <2>2. \A row \in rows : row.id = m.id => row \in other
    BY <1>2 DEF Shows
  <2>3. QED
    BY <2>1, <2>2
<1>3. QED
  BY <1>1, <1>2 DEF Shows
-----------------------------------------------------------------------------
(* A thread after message q (Apply).                                       *)
Applied(thread, q, mine) ==
    IF q.kind = "text" THEN AppendNew(thread, RowOf(q, mine))
    ELSE IF q.kind = "edit" THEN EditRow(thread, q.target, q.id, mine)
    ELSE DeleteRow(thread, q.target, mine)

(* One thread changes.                                                     *)
LEMMA ApplyHist ==
    ASSUME NEW s, NEW p, NEW q \in Letter, NEW mine, Apply(s, p, q, mine)
    PROVE  hist' = [hist EXCEPT ![s][p] = Applied(@, q, mine)]
<1>1. q.kind \in Kinds
  BY DEF Letter
<1>2. CASE q.kind = "text"
  BY <1>2 DEF Apply, AddRow, Applied
<1>3. CASE q.kind = "edit"
  BY <1>3 DEF Apply, Applied
<1>4. CASE q.kind = "delete"
  BY <1>4 DEF Apply, Applied
<1>5. QED
  BY <1>1, <1>2, <1>3, <1>4 DEF Kinds

(* The row of a message is a row, and edited it remains one.               *)
LEMMA RowTyped ==
    ASSUME NEW q \in Letter, NEW mine \in BOOLEAN
    PROVE  /\ RowOf(q, mine) \in StoredRow /\ RowOf(q, mine).id = q.id
           /\ MayEdit(StoredRow, q.id)
BY DEF Letter, StoredRow, RowOf, MayEdit

(* The rows of a thread are rows.                                          *)
LEMMA RowsTyped ==
    ASSUME NEW thread \in Threads
    PROVE  Rows(thread) \in SUBSET StoredRow
BY RowsPlaces, PlaceTyped DEF Threads

(* What q does to a thread, to its rows and to their order.                *)
NewOrder(thread, q, mine) ==
    IF q.kind = "text" /\ q.id \notin Ids(thread)
      THEN Order(thread) \cup {<<r.id, q.id>> : r \in Rows(thread)}
    ELSE IF q.kind = "delete"
      THEN LET gone == {r \in Rows(thread) : r.id = q.target /\ r.mine = mine}
           IN  {x \in Order(thread) : \A row \in Rows(thread) \cap gone :
                  row.id # x[1] /\ row.id # x[2]}
    ELSE Order(thread)

(* The thread stays in order.                                              *)
LEMMA AppliedKeeps ==
    ASSUME NEW thread \in Threads, Once(thread), NEW q \in Letter, NEW mine \in BOOLEAN
    PROVE  /\ Applied(thread, q, mine) \in Threads
           /\ Once(Applied(thread, q, mine))
           /\ Rows(Applied(thread, q, mine)) = NewRows(Rows(thread), q, mine)
           /\ Order(Applied(thread, q, mine)) = NewOrder(thread, q, mine)
<1>0. thread \in Seq(Seq(StoredRow))
  BY DEF Threads
<1>1. CASE q.kind = "text"
  <2>1. PICK row \in StoredRow : row = RowOf(q, mine) /\ row.id = q.id
    BY RowTyped
  <2>2. Applied(thread, q, mine) = IF q.id \in Ids(thread) THEN thread ELSE AppendRow(thread, row)
    BY <1>1, <2>1 DEF Applied, AppendNew
  <2>3. q.id \in Ids(thread) <=> \E r \in Rows(thread) : r.id = q.id
    BY DEF Ids
  <2>4. NewRows(Rows(thread), q, mine) =
          IF q.id \in Ids(thread) THEN Rows(thread) ELSE Rows(thread) \cup {row}
    BY <1>1, <2>1, <2>3 DEF NewRows
  <2>5. /\ AppendRow(thread, row) \in Seq(Seq(StoredRow))
        /\ Rows(AppendRow(thread, row)) = Rows(thread) \cup {row}
        /\ q.id \notin Ids(thread) => Once(AppendRow(thread, row))
        /\ Order(AppendRow(thread, row)) =
             Order(thread) \cup {<<r.id, q.id>> : r \in Rows(thread)}
    BY <1>0, <2>1, AppendKeeps
  <2>6. CASE q.id \in Ids(thread)
    BY <1>1, <2>2, <2>4, <2>6 DEF NewOrder
  <2>7. CASE q.id \notin Ids(thread)
    BY <1>1, <2>2, <2>4, <2>5, <2>7 DEF Threads, NewOrder
  <2>8. QED
    BY <2>6, <2>7
<1>2. CASE q.kind = "edit"
  <2>1. Applied(thread, q, mine) = EditRow(thread, q.target, q.id, mine)
    BY <1>2 DEF Applied
  <2>2. /\ EditRow(thread, q.target, q.id, mine) \in Seq(Seq(StoredRow))
        /\ Rows(EditRow(thread, q.target, q.id, mine)) =
             EditedRows(Rows(thread), q.target, q.id, mine)
        /\ Once(EditRow(thread, q.target, q.id, mine))
        /\ Order(EditRow(thread, q.target, q.id, mine)) = Order(thread)
    <3>1. MayEdit(StoredRow, q.id)
      BY RowTyped
    <3>2. QED
      BY <1>0, <3>1, EditKeeps
  <2>3. NewRows(Rows(thread), q, mine) = EditedRows(Rows(thread), q.target, q.id, mine)
    BY <1>2 DEF NewRows
  <2>4. QED
    BY <1>2, <2>1, <2>2, <2>3 DEF Threads, NewOrder
<1>3. CASE q.kind = "delete"
  <2>1. PICK gone : gone = {r \in Rows(thread) : r.id = q.target /\ r.mine = mine}
    OBVIOUS
  <2>2. Applied(thread, q, mine) = RemoveRows(thread, gone)
    BY <1>3, <2>1 DEF Applied, DeleteRow
  <2>3. /\ RemoveRows(thread, gone) \in Seq(Seq(StoredRow))
        /\ Rows(RemoveRows(thread, gone)) = Rows(thread) \ gone
        /\ Once(RemoveRows(thread, gone))
        /\ Order(RemoveRows(thread, gone)) =
             {x \in Order(thread) : \A row \in Rows(thread) \cap gone :
                 row.id # x[1] /\ row.id # x[2]}
    BY <1>0, RemoveKeeps
  <2>4. NewRows(Rows(thread), q, mine) = Rows(thread) \ gone
    BY <1>3, <2>1 DEF NewRows
  <2>5. QED
    BY <1>3, <2>1, <2>2, <2>3, <2>4 DEF Threads, NewOrder
<1>4. QED
  BY <1>1, <1>2, <1>3 DEF Letter, Kinds

(* One thread is replaced by another.                                      *)
LEMMA ThreadReplaced ==
    ASSUME hist \in [Owners -> [Persons -> Threads]], NEW s \in Owners, NEW p \in Persons,
           NEW thread \in Threads, hist' = [hist EXCEPT ![s][p] = thread]
    PROVE  /\ hist' \in [Owners -> [Persons -> Threads]]
           /\ hist'[s][p] = thread
           /\ \A t \in Owners, r \in Persons : t # s \/ r # p => hist'[t][r] = hist[t][r]
<1>1. [hist[s] EXCEPT ![p] = thread] \in [Persons -> Threads]
  OBVIOUS
<1>2. hist' = [hist EXCEPT ![s] = [hist[s] EXCEPT ![p] = thread]]
  OBVIOUS
<1>3. QED
  BY <1>1, <1>2
-----------------------------------------------------------------------------
(* What a person sends is a letter about an earlier one.                   *)
LEMMA SendsLetter ==
    ASSUME MailInv, PostInv, NEW s \in Owners, Sends(s)
    PROVE  \E p \in Owners, q \in Letter :
             /\ Send(s, p, q) \/ SendTorn(s, p, q)
             /\ q.kind # "text" => q.target < q.id
<1>1. PICK p \in Owners, kind \in Kinds :
        \E target \in (IF kind = "text" THEN {0} ELSE {m.id : m \in sent}),
           until \in (IF kind = "text" THEN {now + 1, Forever} ELSE {Forever}) :
             LET m == [id |-> Cardinality(sent) + 1, from |-> s, to |-> p,
                       kind |-> kind, target |-> target, until |-> until]
             IN Send(s, p, m) \/ SendTorn(s, p, m)
  BY Zenon DEF Sends
<1>2. PICK target \in (IF kind = "text" THEN {0} ELSE {m.id : m \in sent}),
           until \in (IF kind = "text" THEN {now + 1, Forever} ELSE {Forever}) :
             LET m == [id |-> Cardinality(sent) + 1, from |-> s, to |-> p,
                       kind |-> kind, target |-> target, until |-> until]
             IN Send(s, p, m) \/ SendTorn(s, p, m)
  BY <1>1
<1>3. PICK q : q = [id |-> Cardinality(sent) + 1, from |-> s, to |-> p,
                    kind |-> kind, target |-> target, until |-> until]
  OBVIOUS
<1>4. Send(s, p, q) \/ SendTorn(s, p, q)
  BY <1>2, <1>3
<1>5. Cardinality(sent) \in Nat
  BY FS_CardinalityType DEF MailInv
<1>6. \A m \in sent : m.id \in Nat /\ m.id <= Cardinality(sent)
  BY DEF MailInv
<1>7. target \in Nat /\ (kind # "text" => target <= Cardinality(sent))
  BY <1>2, <1>5, <1>6
<1>8. until \in Nat \cup {Forever}
  BY <1>2 DEF PostInv
<1>9. q \in Letter /\ (q.kind # "text" => q.target < q.id)
  BY <1>3, <1>5, <1>7, <1>8 DEF Letter
<1>10. QED
  BY <1>4, <1>9

(* A message that is pushed has a number of its own.                       *)
LEMMA PushFresh ==
    ASSUME MailInv, NEW s, NEW p, NEW q, Push(s, p, q)
    PROVE  /\ q.from = s /\ q.to = p /\ p # s /\ sent' = sent \cup {q} /\ net \subseteq net'
           /\ \A n \in sent : n.id < q.id
<1>1. /\ q.id = Cardinality(sent) + 1 /\ q.from = s /\ q.to = p /\ p # s
      /\ sent' = sent \cup {q} /\ net \subseteq net'
  BY DEF Push
<1>2. Cardinality(sent) \in Nat /\ \A m \in sent : m.id \in Nat /\ m.id <= Cardinality(sent)
  BY FS_CardinalityType DEF MailInv
<1>3. QED
  BY <1>1, <1>2

(* The message in a frame.                                                 *)
LEMMA FrameHolds ==
    ASSUME MailInv, NEW f \in net
    PROVE  MessageOf(f.id) \in sent /\ MessageOf(f.id).id = f.id
<1>1. PICK m \in sent : m.id = f.id
  BY DEF MailInv
<1>2. QED
  BY <1>1, MessageFound

(* The steps that send or accept nothing and leave the threads alone.      *)
Quiet == UNCHANGED <<sent, inbox, hist, astray>> /\ net \subseteq net'

(* Every step sends, accepts, reads, clears or is quiet.                   *)
LEMMA NextCases ==
    ASSUME MailInv, PostInv, [Next]_vars
    PROVE  \/ \E s \in Owners, p \in Owners, q \in Letter :
                /\ Send(s, p, q) \/ SendTorn(s, p, q)
                /\ q.kind # "text" => q.target < q.id
           \/ \E s \in Owners, f \in net : Accept(s, f)
           \/ \E s \in Owners, p \in Persons : Read(s, p) \/ Clear(s, p)
           \/ Quiet /\ (now' = now \/ now' = now + 1)
<1>1. ASSUME NEW s \in Owners, UNCHANGED convVars PROVE Quiet /\ now' = now
  BY <1>1 DEF convVars, mailVars, threadVars, Quiet
<1>2. ASSUME NEW id \in pending, Reseal(id) \/ Ack(id) PROVE Quiet /\ now' = now
  BY <1>2 DEF Reseal, Ack, threadVars, Quiet
<1>3. CASE Tick
  BY <1>3 DEF Tick, mailVars, threadVars, Quiet
<1>4. CASE UNCHANGED vars
  BY <1>4 DEF vars, convVars, mailVars, threadVars, Quiet
<1>5. QED
  BY <1>1, <1>2, <1>3, <1>4, SendsLetter DEF Next

(* Letters and inboxes stay in order.                                      *)
LEMMA StepPost ==
    ASSUME MailInv, PostInv, [Next]_vars
    PROVE  PostInv'
<1>0. now \in Nat /\ inbox \in [Owners -> SUBSET net]
  BY DEF PostInv
<1>1. ASSUME NEW s \in Owners, NEW p \in Owners, NEW q \in Letter,
             Send(s, p, q) \/ SendTorn(s, p, q), q.kind # "text" => q.target < q.id
      PROVE  PostInv'
  <2>1. Push(s, p, q) /\ inbox' = inbox /\ now' = now
    BY <1>1 DEF Send, SendTorn
  <2>2. q.from = s /\ q.to = p /\ p # s /\ sent' = sent \cup {q} /\ net \subseteq net'
    BY <2>1, PushFresh
  <2>3. inbox' \in [Owners -> SUBSET net']
    BY <1>0, <2>1, <2>2
  <2>4. QED
    BY <1>1, <2>1, <2>2, <2>3 DEF PostInv
<1>2. ASSUME NEW s \in Owners, NEW f \in net, Accept(s, f)
      PROVE  PostInv'
  <2>1. sent' = sent /\ net' = net /\ now' = now /\ inbox' = [inbox EXCEPT ![s] = @ \cup {f}]
    BY <1>2 DEF Accept
  <2>2. inbox' \in [Owners -> SUBSET net]
    BY <1>0, <2>1
  <2>3. QED
    BY <2>1, <2>2 DEF PostInv
<1>3. ASSUME NEW s \in Owners, NEW p \in Persons, Read(s, p) \/ Clear(s, p)
      PROVE  PostInv'
  <2>1. UNCHANGED <<sent, net, inbox, now>>
    BY <1>3 DEF Read, Clear, mailVars
  <2>2. QED
    BY <2>1 DEF PostInv
<1>4. CASE Quiet /\ (now' = now \/ now' = now + 1)
  <2>1. sent' = sent /\ inbox' \in [Owners -> SUBSET net'] /\ now' \in Nat
    BY <1>0, <1>4 DEF Quiet
  <2>2. QED
    BY <2>1 DEF PostInv
<1>5. QED
  BY <1>1, <1>2, <1>3, <1>4, NextCases

(* Message q comes into the thread of s with p.                            *)
LEMMA ApplyThread ==
    ASSUME ThreadInv, NEW s \in Owners, NEW p \in Persons, NEW q \in Letter, NEW mine \in BOOLEAN,
           Apply(s, p, q, mine), sent \subseteq sent', q \in sent'
    PROVE  /\ ThreadInv'
           /\ Rows(hist[s][p]) \in SUBSET StoredRow
           /\ hist'[s][p] = Applied(hist[s][p], q, mine)
           /\ Rows(hist'[s][p]) = NewRows(Rows(hist[s][p]), q, mine)
           /\ \A t \in Owners, r \in Persons : t # s \/ r # p => hist'[t][r] = hist[t][r]
<1>0. /\ hist \in [Owners -> [Persons -> Threads]] /\ hist[s][p] \in Threads
      /\ Once(hist[s][p])
  BY DEF ThreadInv
<1>1. hist' = [hist EXCEPT ![s][p] = Applied(hist[s][p], q, mine)]
  BY ApplyHist
<1>2. /\ Applied(hist[s][p], q, mine) \in Threads /\ Once(Applied(hist[s][p], q, mine))
      /\ Rows(Applied(hist[s][p], q, mine)) = NewRows(Rows(hist[s][p]), q, mine)
  BY <1>0, AppliedKeeps
<1>3. /\ hist' \in [Owners -> [Persons -> Threads]]
      /\ hist'[s][p] = Applied(hist[s][p], q, mine)
      /\ \A t \in Owners, r \in Persons : t # s \/ r # p => hist'[t][r] = hist[t][r]
  BY <1>0, <1>1, <1>2, ThreadReplaced
<1>4. Rows(hist[s][p]) \in SUBSET StoredRow
  BY <1>0, RowsTyped
<1>5. \A row \in NewRows(Rows(hist[s][p]), q, mine) :
        row.id = q.id \/ \E r \in Rows(hist[s][p]) : row.id = r.id
  <2>1. RowOf(q, mine).id = q.id /\ MayEdit(StoredRow, q.id)
    BY RowTyped
  <2>2. QED
    BY <1>4, <2>1 DEF NewRows, EditedRows, MayEdit
<1>6. \A t \in Owners, r \in Persons : Once(hist'[t][r]) /\
        \A row \in Rows(hist'[t][r]) : \E m \in sent' : m.id = row.id
  <2> SUFFICES ASSUME NEW t \in Owners, NEW r \in Persons
               PROVE  Once(hist'[t][r]) /\
                        \A row \in Rows(hist'[t][r]) : \E m \in sent' : m.id = row.id
    OBVIOUS
  <2>1. CASE t = s /\ r = p
    BY <1>2, <1>3, <1>5, <2>1 DEF ThreadInv
  <2>2. CASE t # s \/ r # p
    BY <1>3, <2>2 DEF ThreadInv
  <2>3. QED
    BY <2>1, <2>2
<1>7. QED
  BY <1>2, <1>3, <1>4, <1>6 DEF ThreadInv

(* A thread loses rows.                                                    *)
LEMMA LoseThread ==
    ASSUME ThreadInv, NEW s \in Owners, NEW p \in Persons, sent' = sent, NEW thread \in Threads,
           Once(thread), Rows(thread) \subseteq Rows(hist[s][p]),
           hist' = [hist EXCEPT ![s][p] = thread]
    PROVE  /\ ThreadInv' /\ hist'[s][p] = thread
           /\ \A t \in Owners, r \in Persons : t # s \/ r # p => hist'[t][r] = hist[t][r]
<1>1. /\ hist' \in [Owners -> [Persons -> Threads]] /\ hist'[s][p] = thread
      /\ \A t \in Owners, r \in Persons : t # s \/ r # p => hist'[t][r] = hist[t][r]
  BY ThreadReplaced DEF ThreadInv
<1>2. QED
  BY <1>1 DEF ThreadInv

(* load_active on a thread.                                                *)
LEMMA ReadThread ==
    ASSUME ThreadInv, NEW s \in Owners, NEW p \in Persons, Read(s, p)
    PROVE  /\ ThreadInv' /\ hist'[s][p] = Prune(hist[s][p], now)
           /\ Rows(hist'[s][p]) = Rows(hist[s][p]) \ {r \in Rows(hist[s][p]) : Expired(r.until, now)}
           /\ \A t \in Owners, r \in Persons : t # s \/ r # p => hist'[t][r] = hist[t][r]
<1>1. /\ hist[s][p] \in Threads /\ Once(hist[s][p])
  BY DEF ThreadInv
<1>2. PICK gone : gone = {r \in Rows(hist[s][p]) : Expired(r.until, now)}
  OBVIOUS
<1>3. Prune(hist[s][p], now) = RemoveRows(hist[s][p], gone)
  BY <1>2 DEF Prune
<1>4. /\ RemoveRows(hist[s][p], gone) \in Threads /\ Once(RemoveRows(hist[s][p], gone))
      /\ Rows(RemoveRows(hist[s][p], gone)) = Rows(hist[s][p]) \ gone
  BY <1>1, RemoveKeeps DEF Threads
<1>5. sent' = sent /\ hist' = [hist EXCEPT ![s][p] = Prune(hist[s][p], now)]
  BY DEF Read, mailVars
<1>6. QED
  BY <1>2, <1>3, <1>4, <1>5, LoseThread

(* An empty thread has no rows.                                            *)
LEMMA EmptyThread ==
    << >> \in Threads /\ Once(<< >>) /\ Rows(<< >>) = {} /\ Order(<< >>) = {}
BY DEF Threads, Once, IsPlace, Rows, Order

(* clear_history on a thread.                                              *)
LEMMA ClearThread ==
    ASSUME ThreadInv, NEW s \in Owners, NEW p \in Persons, Clear(s, p)
    PROVE  /\ ThreadInv' /\ hist'[s][p] = << >> /\ Rows(hist'[s][p]) = {}
           /\ \A t \in Owners, r \in Persons : t # s \/ r # p => hist'[t][r] = hist[t][r]
<1>1. sent' = sent /\ hist' = [hist EXCEPT ![s][p] = << >>]
  BY DEF Clear, mailVars
<1>2. PICK thread : thread = << >>
  OBVIOUS
<1>3. thread \in Threads /\ Once(thread) /\ Rows(thread) = {}
  BY <1>2, EmptyThread
<1>4. hist' = [hist EXCEPT ![s][p] = thread] /\ Rows(thread) \subseteq Rows(hist[s][p])
  BY <1>1, <1>2, <1>3
<1>5. /\ ThreadInv' /\ hist'[s][p] = thread
      /\ \A t \in Owners, r \in Persons : t # s \/ r # p => hist'[t][r] = hist[t][r]
  BY <1>1, <1>3, <1>4, LoseThread
<1>6. QED
  BY <1>2, <1>3, <1>5
-----------------------------------------------------------------------------
(* The threads are in order after any step.                                *)
LEMMA StepThread ==
    ASSUME MailInv, PostInv, ThreadInv, [Next]_vars
    PROVE  ThreadInv'
<1>0. sent \subseteq Letter /\ Owners \subseteq Persons
  BY OwnersArePersons DEF PostInv
<1>1. ASSUME NEW s \in Owners, NEW p \in Owners, NEW q \in Letter, Send(s, p, q)
      PROVE  ThreadInv'
  <2>1. Push(s, p, q) /\ Apply(s, p, q, TRUE)
    BY <1>1 DEF Send
  <2>2. sent' = sent \cup {q}
    BY <2>1 DEF Push
  <2>3. QED
    BY <1>0, <2>1, <2>2, ApplyThread
<1>2. ASSUME NEW s \in Owners, NEW p \in Owners, NEW q \in Letter, SendTorn(s, p, q)
      PROVE  ThreadInv'
  <2>1. hist' = hist /\ sent' = sent \cup {q}
    BY <1>2 DEF SendTorn, Push
  <2>2. QED
    BY <2>1 DEF ThreadInv
<1>3. ASSUME NEW s \in Owners, NEW f \in net, Accept(s, f)
      PROVE  ThreadInv'
  <2>1. PICK q \in Letter : q = MessageOf(f.id) /\ q \in sent /\ q.from \in Persons
    BY <1>0, FrameHolds DEF MailInv
  <2>2. sent' = sent /\ (hist' = hist \/ Apply(s, q.from, q, FALSE))
    BY <1>3, <2>1 DEF Accept
  <2>3. CASE hist' = hist
    BY <2>2, <2>3 DEF ThreadInv
  <2>4. CASE Apply(s, q.from, q, FALSE)
    BY <2>1, <2>2, <2>4, ApplyThread
  <2>5. QED
    BY <2>2, <2>3, <2>4
<1>4. ASSUME NEW s \in Owners, NEW p \in Persons, Read(s, p) \/ Clear(s, p)
      PROVE  ThreadInv'
  BY <1>4, ReadThread, ClearThread
<1>5. CASE Quiet
  BY <1>5 DEF Quiet, ThreadInv
<1>6. QED
  BY <1>1, <1>2, <1>3, <1>4, <1>5, NextCases
-----------------------------------------------------------------------------
(* What is known of a text that was sent.                                  *)
LEMMA TextFacts ==
    ASSUME MailInv, PostInv, ThreadInv, NEW m \in sent
    PROVE  /\ m \in Letter /\ m.from \in Owners /\ m.to \in Owners /\ m.from # m.to
           /\ m.from \in Persons /\ m.to \in Persons
           /\ OfText(m) \in SUBSET Letter /\ Received(m) \in SUBSET OfText(m)
           /\ m.kind = "text" => m \in OfText(m)
           /\ \A q \in OfText(m) : q # m /\ m.kind = "text" =>
                q.kind # "text" /\ q.target = m.id /\ m.id < q.id
           /\ Rows(hist[m.from][m.to]) \in SUBSET StoredRow
           /\ Rows(hist[m.to][m.from]) \in SUBSET StoredRow
<1>1. m \in Letter /\ m.from # m.to /\ sent \subseteq Letter
  BY DEF PostInv
<1>2. m.from \in Owners /\ m.to \in Owners /\ m.from \in Persons /\ m.to \in Persons
  BY <1>1, OwnersArePersons DEF Letter
<1>3. OfText(m) \in SUBSET Letter /\ Received(m) \in SUBSET OfText(m)
  BY <1>1 DEF OfText, Received
<1>4. m.kind = "text" => m \in OfText(m)
  BY DEF OfText, About
<1>5. ASSUME NEW q \in OfText(m), q # m, m.kind = "text"
      PROVE  q.kind # "text" /\ q.target = m.id /\ m.id < q.id
  <2>1. q \in sent /\ About(q) = m.id
    BY <1>5 DEF OfText
  <2>2. q.id # m.id
    BY <1>5, <2>1 DEF MailInv
  <2>3. q.kind # "text" /\ q.target = m.id
    BY <2>1, <2>2 DEF About
  <2>4. QED
    BY <2>1, <2>3 DEF PostInv
<1>6. hist[m.from][m.to] \in Threads /\ hist[m.to][m.from] \in Threads
  BY <1>2 DEF ThreadInv
<1>7. QED
  BY <1>1, <1>2, <1>3, <1>4, <1>5, <1>6, RowsTyped

(* Nothing of a message that is not sent yet has arrived.                  *)
LEMMA NotArrived ==
    ASSUME MailInv, PostInv, NEW q, q.to \in Owners, \A n \in sent : n.id < q.id, q.id \in Nat
    PROVE  ~ Arrived(q)
<1> SUFFICES ASSUME NEW f \in inbox[q.to], f.id = q.id PROVE FALSE
  BY DEF Arrived
<1>1. f \in net
  BY DEF PostInv
<1>2. PICK n \in sent : n.id = f.id
  BY <1>1 DEF MailInv
<1>3. QED
  BY <1>2 DEF MailInv

(* The text of m stays settled when its author sends q.                    *)
LEMMA SendSettles ==
    ASSUME MailInv, PostInv, ThreadInv, NEW m \in sent, m.kind = "text", Settles(m),
           NEW s \in Owners, NEW p \in Owners, NEW q \in Letter, Send(s, p, q)
    PROVE  Settles(m)'
<1>0. Push(s, p, q) /\ Apply(s, p, q, TRUE) /\ inbox' = inbox /\ now' = now
  BY DEF Send
<1>1. /\ q.from = s /\ q.to = p /\ p # s /\ sent' = sent \cup {q}
      /\ \A n \in sent : n.id < q.id
  BY <1>0, PushFresh
<1>2. /\ m \in Letter /\ m.from \in Owners /\ m.to \in Owners /\ m.from # m.to
      /\ m.from \in Persons /\ m.to \in Persons
      /\ OfText(m) \in SUBSET Letter /\ m \in OfText(m)
      /\ Rows(hist[m.from][m.to]) \in SUBSET StoredRow
      /\ Rows(hist[m.to][m.from]) \in SUBSET StoredRow
  BY TextFacts
<1>3. ~ Arrived(q) /\ \A r : Arrived(r)' = Arrived(r)
  <2>1. q.id \in Nat /\ q.to \in Owners
    BY DEF Letter
  <2>2. QED
    BY <1>0, <1>1, <2>1, NotArrived DEF Arrived
<1>4. /\ Rows(hist'[s][p]) = NewRows(Rows(hist[s][p]), q, TRUE)
      /\ \A t \in Owners, r \in Persons : t # s \/ r # p => hist'[t][r] = hist[t][r]
  <2>1. p \in Persons /\ sent \subseteq sent' /\ q \in sent'
    BY <1>1, OwnersArePersons
  <2>2. QED
    BY <1>0, <2>1, ApplyThread
<1>5. OfText(m)' = OfText(m) \cup {r \in {q} : About(q) = m.id /\ q.from = m.from /\ q.to = m.to}
  BY <1>1 DEF OfText
<1>6. Received(m)' = Received(m)
  <2>1. \A r : r \in Received(m)' <=> r \in OfText(m)' /\ Arrived(r)
    BY <1>3 DEF Received
  <2>2. \A r : r \in Received(m) <=> r \in OfText(m) /\ Arrived(r)
    BY DEF Received
  <2>3. \A r : r \in Received(m)' <=> r \in Received(m)
    BY <1>3, <1>5, <2>1, <2>2
  <2>4. QED
    BY <2>3
<1>7. q.kind = "text" => About(q) # m.id
  <2>1. m.id < q.id /\ m.id \in Nat
    BY <1>1, <1>2 DEF Letter
  <2>2. QED
    BY <2>1 DEF About
<1>8. /\ Shows(Rows(hist[m.from][m.to]), m, TRUE, OfText(m), now)
      /\ Shows(Rows(hist[m.to][m.from]), m, FALSE, Received(m), now)
      /\ HasLast(OfText(m)) /\ HasLast(Received(m))
      /\ \A n, r \in OfText(m) : n.id < r.id /\ Arrived(r) => Arrived(n)
  BY DEF Settles
<1>9. \A n, r \in OfText(m)' : n.id < r.id /\ Arrived(r)' => Arrived(n)'
  <2> SUFFICES ASSUME NEW n \in OfText(m)', NEW r \in OfText(m)', n.id < r.id, Arrived(r)
               PROVE  Arrived(n)
    BY <1>3
  <2>1. r \in OfText(m) /\ r \in sent
    BY <1>3, <1>5 DEF OfText
  <2>2. r.id < q.id /\ r.id \in Nat /\ q.id \in Nat
    BY <1>1, <1>2, <2>1 DEF Letter
  <2>3. n # q
    BY <2>2
  <2>4. QED
    BY <1>5, <1>8, <2>1, <2>3
<1>10. Shows(Rows(hist'[m.to][m.from]), m, FALSE, Received(m), now)
  <2>1. CASE s = m.to /\ p = m.from
    <3>1. About(q) # m.id \/ (q.kind # "text" /\ TRUE # FALSE)
      BY <1>7
    <3>2. Shows(NewRows(Rows(hist[m.to][m.from]), q, TRUE), m, FALSE, Received(m), now)
      BY <1>2, <1>8, <3>1, OtherShows
    <3>3. QED
      BY <1>4, <2>1, <3>2
  <2>2. CASE s # m.to \/ p # m.from
    BY <1>2, <1>4, <1>8, <2>2
  <2>3. QED
    BY <2>1, <2>2
<1>11. CASE About(q) = m.id /\ q.from = m.from /\ q.to = m.to
  <2>1. OfText(m)' = OfText(m) \cup {q}
    BY <1>5, <1>11
  <2>2. q.kind # "text" /\ q.target = m.id
    BY <1>7, <1>11 DEF About
  <2>3. \A r \in OfText(m) : r.id < q.id
    BY <1>1 DEF OfText
  <2>4. /\ Shows(NewRows(Rows(hist[m.from][m.to]), q, TRUE), m, TRUE, OfText(m) \cup {q}, now)
        /\ HasLast(OfText(m) \cup {q})
    BY <1>2, <1>8, <2>2, <2>3, OwnShows
  <2>5. QED
    BY <1>0, <1>1, <1>4, <1>6, <1>8, <1>9, <1>10, <1>11, <2>1, <2>4 DEF Settles
<1>12. CASE ~ (About(q) = m.id /\ q.from = m.from /\ q.to = m.to)
  <2>1. OfText(m)' = OfText(m)
    BY <1>5, <1>12
  <2>2. Shows(Rows(hist'[m.from][m.to]), m, TRUE, OfText(m), now)
    <3>1. CASE s = m.from /\ p = m.to
      <4>1. About(q) # m.id
        BY <1>1, <1>12, <3>1
      <4>2. Shows(NewRows(Rows(hist[m.from][m.to]), q, TRUE), m, TRUE, OfText(m), now)
        BY <1>2, <1>8, <4>1, OtherShows
      <4>3. QED
        BY <1>4, <3>1, <4>2
    <3>2. CASE s # m.from \/ p # m.to
      BY <1>2, <1>4, <1>8, <3>2
    <3>3. QED
      BY <3>1, <3>2
  <2>3. QED
    BY <1>0, <1>6, <1>8, <1>9, <1>10, <2>1, <2>2 DEF Settles
<1>13. QED
  BY <1>11, <1>12

(* A new text is settled at once: nothing of it has arrived.               *)
LEMMA NewSettles ==
    ASSUME MailInv, PostInv, ThreadInv, NEW s \in Owners, NEW p \in Owners, NEW q \in Letter,
           Send(s, p, q), q.kind = "text"
    PROVE  Settles(q)'
<1>0. Push(s, p, q) /\ Apply(s, p, q, TRUE) /\ inbox' = inbox /\ now' = now
  BY DEF Send
<1>1. /\ q.from = s /\ q.to = p /\ p # s /\ sent' = sent \cup {q}
      /\ \A n \in sent : n.id < q.id
  BY <1>0, PushFresh
<1>2. q.id \in Nat /\ q.to \in Owners /\ s \in Persons /\ p \in Persons
  BY OwnersArePersons DEF Letter
<1>3. ~ Arrived(q)'
  BY <1>0, <1>1, <1>2, NotArrived DEF Arrived
<1>4. OfText(q)' = {q}
  <2>1. ASSUME NEW r \in sent PROVE About(r) # q.id
    <3>1. r.id < q.id /\ r.id \in Nat /\ (r.kind # "text" => r.target < r.id /\ r.target \in Nat)
      BY <1>1 DEF PostInv, Letter
    <3>2. QED
      BY <1>2, <3>1 DEF About
  <2>2. About(q) = q.id
    BY DEF About
  <2>3. QED
    BY <1>1, <2>1, <2>2 DEF OfText
<1>5. Received(q)' = {}
  BY <1>3, <1>4 DEF Received
<1>6. /\ Rows(hist[s][p]) \in SUBSET StoredRow
      /\ Rows(hist'[s][p]) = NewRows(Rows(hist[s][p]), q, TRUE)
      /\ \A t \in Owners, r \in Persons : t # s \/ r # p => hist'[t][r] = hist[t][r]
  <2>1. sent \subseteq sent' /\ q \in sent'
    BY <1>1
  <2>2. QED
    BY <1>0, <1>2, <2>1, ApplyThread
<1>7. \A t \in Owners, r \in Persons : \A row \in Rows(hist[t][r]) : row.id # q.id
  BY <1>1, <1>2 DEF ThreadInv
<1>8. Shows(Rows(hist'[s][p]), q, TRUE, {q}, now) /\ HasLast({q})
  <2>1. \A row \in Rows(hist[s][p]) : row.id # q.id
    BY <1>2, <1>7
  <2>2. QED
    BY <1>6, <2>1, FirstShows
<1>9. Shows(Rows(hist'[p][s]), q, FALSE, {}, now) /\ HasLast({})
  <2>1. hist'[p][s] = hist[p][s]
    BY <1>1, <1>2, <1>6
  <2>2. QED
    BY <1>2, <1>7, <2>1 DEF Shows, Says, HasLast
<1>10. \A n, r \in OfText(q)' : n.id < r.id /\ Arrived(r)' => Arrived(n)'
  BY <1>2, <1>4
<1>11. QED
  BY <1>0, <1>1, <1>4, <1>5, <1>8, <1>9, <1>10 DEF Settles

(* What the arrival of q, in a frame, changes.                             *)
LEMMA AcceptArrives ==
    ASSUME MailInv, PostInv, NEW s \in Owners, NEW f \in net, Accept(s, f)
    PROVE  LET q == MessageOf(f.id) IN
             /\ q \in sent /\ q.to = s /\ UNCHANGED <<sent, now>> /\ astray \subseteq astray'
             /\ Strays(s, q) => About(q) \in astray'
             /\ \/ q.kind = "text" /\ Expired(q.until, now) /\ hist' = hist
                \/ ~ (q.kind = "text" /\ Expired(q.until, now)) /\ Apply(s, q.from, q, FALSE)
             /\ \A r \in sent : Arrived(r)' <=> Arrived(r) \/ r = q
<1>1. PICK q \in sent : q = MessageOf(f.id) /\ q.id = f.id
  BY FrameHolds
<1>2. /\ q.to = s /\ UNCHANGED <<sent, now>> /\ inbox' = [inbox EXCEPT ![s] = @ \cup {f}]
      /\ astray' = IF Strays(s, q) THEN astray \cup {About(q)} ELSE astray
      /\ IF q.kind = "text" /\ Expired(q.until, now)
           THEN UNCHANGED <<hist, index>> ELSE Apply(s, q.from, q, FALSE)
  BY <1>1 DEF Accept
<1>3. ASSUME NEW r \in sent PROVE Arrived(r)' <=> Arrived(r) \/ r = q
  <2>1. r.to \in Owners /\ inbox \in [Owners -> SUBSET net]
    BY DEF PostInv, Letter
  <2>2. inbox'[r.to] = IF r.to = s THEN inbox[r.to] \cup {f} ELSE inbox[r.to]
    BY <1>2, <2>1
  <2>3. Arrived(r)' <=> Arrived(r) \/ (r.to = s /\ f.id = r.id)
    BY <2>2 DEF Arrived
  <2>4. (r.to = s /\ f.id = r.id) <=> r = q
    BY <1>1, <1>2 DEF MailInv
  <2>5. QED
    BY <2>3, <2>4
<1>4. QED
  BY <1>1, <1>2, <1>3

(* The text of m stays settled when q arrives, unless q is late or has     *)
(* been here before.                                                       *)
LEMMA AcceptSettles ==
    ASSUME MailInv, PostInv, ThreadInv, NEW m \in sent, m.kind = "text", m.id \notin astray',
           Settles(m), NEW s \in Owners, NEW f \in net, Accept(s, f)
    PROVE  Settles(m)'
<1>0. PICK q \in sent :
        /\ q.to = s /\ UNCHANGED <<sent, now>>
        /\ Strays(s, q) => About(q) \in astray'
        /\ \/ q.kind = "text" /\ Expired(q.until, now) /\ hist' = hist
           \/ ~ (q.kind = "text" /\ Expired(q.until, now)) /\ Apply(s, q.from, q, FALSE)
        /\ \A r \in sent : Arrived(r)' <=> Arrived(r) \/ r = q
  BY AcceptArrives
<1>1. q \in Letter /\ q.from \in Owners /\ q.from \in Persons /\ q.from # s
  BY <1>0, TextFacts
<1>2. /\ m \in Letter /\ m.from \in Owners /\ m.to \in Owners /\ m.from # m.to
      /\ m.from \in Persons /\ m.to \in Persons
      /\ OfText(m) \in SUBSET Letter /\ m \in OfText(m) /\ Received(m) \in SUBSET OfText(m)
      /\ Rows(hist[m.from][m.to]) \in SUBSET StoredRow
      /\ Rows(hist[m.to][m.from]) \in SUBSET StoredRow
  BY TextFacts
<1>3. \/ hist' = hist
      \/ /\ Rows(hist'[s][q.from]) = NewRows(Rows(hist[s][q.from]), q, FALSE)
         /\ \A t \in Owners, r \in Persons : t # s \/ r # q.from => hist'[t][r] = hist[t][r]
  <2>1. sent \subseteq sent' /\ q \in sent'
    BY <1>0
  <2>2. QED
    BY <1>0, <1>1, <2>1, ApplyThread
<1>4. OfText(m)' = OfText(m)
  BY <1>0 DEF OfText
<1>5. \A r : r \in Received(m)' <=> r \in OfText(m) /\ (Arrived(r) \/ r = q)
  <2>1. OfText(m) \subseteq sent
    BY DEF OfText
  <2>2. QED
    BY <1>0, <1>4, <2>1 DEF Received
<1>6. \A r : r \in Received(m) <=> r \in OfText(m) /\ Arrived(r)
  BY DEF Received
<1>7. /\ Shows(Rows(hist[m.from][m.to]), m, TRUE, OfText(m), now)
      /\ Shows(Rows(hist[m.to][m.from]), m, FALSE, Received(m), now)
      /\ HasLast(OfText(m)) /\ HasLast(Received(m))
      /\ \A n, r \in OfText(m) : n.id < r.id /\ Arrived(r) => Arrived(n)
  BY DEF Settles
<1>8. Shows(Rows(hist'[m.from][m.to]), m, TRUE, OfText(m), now)
  <2>1. CASE hist' = hist
    BY <1>7, <2>1
  <2>2. CASE hist' # hist /\ s = m.from /\ q.from = m.to
    <3>1. About(q) # m.id \/ (q.kind # "text" /\ FALSE # TRUE)
      <4>1. q # m
        BY <1>2, <2>2
      <4>2. q.id # m.id
        BY <4>1 DEF MailInv
      <4>3. QED
        BY <4>2 DEF About
    <3>2. Shows(NewRows(Rows(hist[m.from][m.to]), q, FALSE), m, TRUE, OfText(m), now)
      BY <1>1, <1>2, <1>7, <3>1, OtherShows
    <3>3. QED
      BY <1>3, <2>2, <3>2
  <2>3. CASE hist' # hist /\ (s # m.from \/ q.from # m.to)
    BY <1>2, <1>3, <1>7, <2>3
  <2>4. QED
    BY <2>1, <2>2, <2>3
<1>9. CASE q \in OfText(m)
  <2>1. About(q) = m.id /\ q.from = m.from /\ s = m.to
    BY <1>0, <1>9 DEF OfText
  <2>2. ~ Strays(s, q)
    BY <1>0, <2>1
  <2>3. ~ Arrived(q)
    BY <1>0, <2>2 DEF Strays, Arrived
  <2>4. \A r \in OfText(m) : r.id < q.id => Arrived(r)
    <3> SUFFICES ASSUME NEW r \in OfText(m), r.id < q.id PROVE Arrived(r)
      OBVIOUS
    <3>1. r \in sent /\ r.from = q.from /\ r.to = s /\ About(r) = About(q)
      BY <2>1 DEF OfText
    <3>2. QED
      BY <2>2, <3>1 DEF Strays, Arrived
  <2>5. \A r \in Received(m) : r.id < q.id
    <3> SUFFICES ASSUME NEW r \in Received(m) PROVE r.id < q.id
      OBVIOUS
    <3>1. r \in OfText(m) /\ Arrived(r)
      BY <1>6
    <3>2. ~ (q.id < r.id)
      BY <1>7, <1>9, <2>3, <3>1
    <3>3. r.id # q.id
      BY <2>3, <3>1 DEF MailInv, OfText
    <3>4. r.id \in Nat /\ q.id \in Nat
      BY <1>1, <1>2, <3>1 DEF Letter
    <3>5. QED
      BY <3>2, <3>3, <3>4
  <2>6. Received(m)' = Received(m) \cup {q}
    <3>1. \A r : r \in Received(m)' <=> r \in Received(m) \/ r = q
      BY <1>5, <1>6, <1>9
    <3>2. QED
      BY <3>1
  <2>7. \A n, r \in OfText(m) : n.id < r.id /\ Arrived(r)' => Arrived(n)'
    <3> SUFFICES ASSUME NEW n \in OfText(m), NEW r \in OfText(m), n.id < r.id, Arrived(r)'
                 PROVE  Arrived(n)'
      OBVIOUS
    <3>1. n \in sent /\ r \in sent
      BY DEF OfText
    <3>2. Arrived(r) \/ r = q
      BY <1>0, <3>1
    <3>3. Arrived(n)
      BY <1>7, <2>4, <3>2
    <3>4. QED
      BY <1>0, <3>1, <3>3
  <2>8. CASE q = m
    <3>1. Received(m) = {}
      <4> SUFFICES ASSUME NEW r \in Received(m) PROVE FALSE
        OBVIOUS
      <4>1. r \in OfText(m) /\ r.id < m.id
        BY <1>2, <2>5, <2>8
      <4>2. r.id \in Nat /\ m.id \in Nat
        BY <1>2, <4>1 DEF Letter
      <4>3. r # m
        BY <4>1, <4>2
      <4>4. m.id < r.id
        BY <4>1, <4>3, TextFacts
      <4>5. QED
        BY <4>1, <4>2, <4>4
    <3>2. Received(m)' = {m}
      BY <2>6, <2>8, <3>1
    <3>3. Shows(Rows(hist'[m.to][m.from]), m, FALSE, {m}, now) /\ HasLast({m})
      <4>1. CASE Expired(m.until, now)
        <5>1. hist' = hist
          BY <1>0, <2>8, <4>1
        <5>2. m.id \in Nat
          BY <1>2 DEF Letter
        <5>3. QED
          BY <1>7, <4>1, <5>1, <5>2 DEF Shows, HasLast
      <4>2. CASE ~ Expired(m.until, now)
        <5>1. \A row \in Rows(hist[m.to][m.from]) : row.id # m.id
          BY <1>7, <3>1, <4>2 DEF Shows, Says
        <5>2. /\ Shows(NewRows(Rows(hist[m.to][m.from]), m, FALSE), m, FALSE, {m}, now)
              /\ HasLast({m})
          BY <1>2, <5>1, FirstShows
        <5>3. Rows(hist'[m.to][m.from]) = NewRows(Rows(hist[m.to][m.from]), m, FALSE)
          <6>1. Apply(s, q.from, q, FALSE) /\ sent \subseteq sent' /\ q \in sent'
            BY <1>0, <2>8, <4>2
          <6>2. QED
            BY <1>1, <2>1, <2>8, <6>1, ApplyThread
        <5>4. QED
          BY <5>2, <5>3
      <4>3. QED
        BY <4>1, <4>2
    <3>4. QED
      BY <1>0, <1>4, <1>7, <1>8, <2>7, <3>2, <3>3 DEF Settles
  <2>9. CASE q # m
    <3>1. q.kind # "text" /\ q.target = m.id /\ m.id < q.id
      BY <1>9, <2>9, TextFacts
    <3>2. m \in Received(m)
      BY <1>2, <1>6, <2>4, <3>1
    <3>3. Received(m) \in SUBSET Letter /\ Received(m) # {}
      BY <1>2, <3>2
    <3>4. /\ Shows(NewRows(Rows(hist[m.to][m.from]), q, FALSE), m, FALSE,
                   Received(m) \cup {q}, now)
          /\ HasLast(Received(m) \cup {q})
      BY <1>1, <1>2, <1>7, <2>5, <3>1, <3>3, OwnShows
    <3>5. Rows(hist'[m.to][m.from]) = NewRows(Rows(hist[m.to][m.from]), q, FALSE)
      <4>1. Apply(s, q.from, q, FALSE) /\ sent \subseteq sent' /\ q \in sent'
        BY <1>0, <3>1
      <4>2. QED
        BY <1>1, <2>1, <4>1, ApplyThread
    <3>6. QED
      BY <1>0, <1>4, <1>7, <1>8, <2>6, <2>7, <3>4, <3>5 DEF Settles
  <2>10. QED
    BY <2>8, <2>9
<1>10. CASE q \notin OfText(m)
  <2>1. Received(m)' = Received(m)
    <3>1. \A r : r \in Received(m)' <=> r \in Received(m)
      BY <1>5, <1>6, <1>10
    <3>2. QED
      BY <3>1
  <2>2. \A r \in OfText(m) : Arrived(r)' <=> Arrived(r)
    BY <1>0, <1>10 DEF OfText
  <2>3. Shows(Rows(hist'[m.to][m.from]), m, FALSE, Received(m), now)
    <3>1. CASE hist' = hist
      BY <1>7, <3>1
    <3>2. CASE hist' # hist /\ s = m.to /\ q.from = m.from
      <4>1. About(q) # m.id
        BY <1>0, <1>10, <3>2 DEF OfText
      <4>2. Shows(NewRows(Rows(hist[m.to][m.from]), q, FALSE), m, FALSE, Received(m), now)
        BY <1>1, <1>2, <1>7, <4>1, OtherShows
      <4>3. QED
        BY <1>3, <3>2, <4>2
    <3>3. CASE hist' # hist /\ (s # m.to \/ q.from # m.from)
      BY <1>2, <1>3, <1>7, <3>3
    <3>4. QED
      BY <3>1, <3>2, <3>3
  <2>4. QED
    BY <1>0, <1>4, <1>7, <1>8, <2>1, <2>2, <2>3 DEF Settles
<1>11. QED
  BY <1>9, <1>10

(* Rows that have expired go, rows of other messages go, and time passes.  *)
LEMMA LoseSettles ==
    ASSUME MailInv, PostInv, ThreadInv, NEW m \in sent, m.kind = "text", Settles(m),
           UNCHANGED <<sent, inbox>>, now' = now \/ now' = now + 1,
           \A s \in Owners, p \in Persons :
             /\ Rows(hist'[s][p]) \subseteq Rows(hist[s][p])
             /\ \A row \in Rows(hist[s][p]) :
                  row \in Rows(hist'[s][p]) \/ row.id # m.id \/ Expired(row.until, now')
    PROVE  Settles(m)'
<1>1. m \in Letter /\ m.from \in Owners /\ m.to \in Owners /\ m.from \in Persons /\ m.to \in Persons
  BY TextFacts
<1>2. Expired(m.until, now) => Expired(m.until, now')
  <2>1. now \in Nat /\ m.until \in Nat \cup {Forever}
    BY <1>1 DEF PostInv, Letter
  <2>2. QED
    BY <2>1 DEF Expired
<1>3. OfText(m)' = OfText(m) /\ Received(m)' = Received(m) /\ \A q : Arrived(q)' <=> Arrived(q)
  BY DEF OfText, Received, Arrived
<1>4. Shows(Rows(hist'[m.from][m.to]), m, TRUE, OfText(m), now')
  BY <1>1, <1>2, LessShows DEF Settles
<1>5. Shows(Rows(hist'[m.to][m.from]), m, FALSE, Received(m), now')
  BY <1>1, <1>2, LessShows DEF Settles
<1>6. QED
  BY <1>3, <1>4, <1>5 DEF Settles

(* Every text that is not astray stays settled.                            *)
LEMMA StepSettle ==
    ASSUME MailInv, PostInv, ThreadInv, SettleInv, [Next]_vars
    PROVE  SettleInv'
<1>1. ASSUME NEW s \in Owners, NEW p \in Owners, NEW q \in Letter, Send(s, p, q)
      PROVE  SettleInv'
  <2>1. sent' = sent \cup {q} /\ astray' = astray
    BY <1>1 DEF Send, Push
  <2>2. ASSUME NEW m \in sent', m.kind = "text", m.id \notin astray'
        PROVE  Settles(m)'
    <3>1. CASE m \in sent
      BY <1>1, <2>1, <2>2, <3>1, SendSettles DEF SettleInv
    <3>2. CASE m = q
      BY <1>1, <2>2, <3>2, NewSettles
    <3>3. QED
      BY <2>1, <3>1, <3>2
  <2>3. QED
    BY <2>2 DEF SettleInv
<1>2. ASSUME NEW s \in Owners, NEW p \in Owners, NEW q \in Letter, SendTorn(s, p, q)
      PROVE  SettleInv'
  <2>1. /\ sent' = sent \cup {q} /\ UNCHANGED <<inbox, hist, now>>
        /\ astray' = astray \cup {About(q)}
    BY <1>2 DEF SendTorn, Push
  <2>2. ASSUME NEW m \in sent', m.kind = "text", m.id \notin astray'
        PROVE  Settles(m)'
    <3>1. m # q /\ About(q) # m.id
      BY <2>1, <2>2 DEF About
    <3>2. m \in sent /\ Settles(m)
      BY <2>1, <2>2, <3>1 DEF SettleInv
    <3>3. OfText(m)' = OfText(m)
      BY <2>1, <3>1 DEF OfText
    <3>4. Received(m)' = Received(m) /\ \A r : Arrived(r)' <=> Arrived(r)
      BY <2>1, <3>3 DEF Received, Arrived
    <3>5. QED
      BY <2>1, <3>2, <3>3, <3>4 DEF Settles
  <2>3. QED
    BY <2>2 DEF SettleInv
<1>3. ASSUME NEW s \in Owners, NEW f \in net, Accept(s, f)
      PROVE  SettleInv'
  <2>1. sent' = sent /\ astray \subseteq astray'
    BY <1>3, AcceptArrives
  <2>2. QED
    BY <1>3, <2>1, AcceptSettles DEF SettleInv
<1>4. ASSUME NEW s \in Owners, NEW p \in Persons, Read(s, p)
      PROVE  SettleInv'
  <2>1. UNCHANGED <<sent, inbox, astray, now>>
    BY <1>4 DEF Read, mailVars
  <2>2. /\ Rows(hist'[s][p]) = Rows(hist[s][p]) \ {r \in Rows(hist[s][p]) : Expired(r.until, now)}
        /\ \A t \in Owners, r \in Persons : t # s \/ r # p => hist'[t][r] = hist[t][r]
    BY <1>4, ReadThread
  <2>3. \A t \in Owners, r \in Persons :
          /\ Rows(hist'[t][r]) \subseteq Rows(hist[t][r])
          /\ \A row \in Rows(hist[t][r]) : row \in Rows(hist'[t][r]) \/ Expired(row.until, now')
    BY <2>1, <2>2
  <2>4. QED
    BY <2>1, <2>3, LoseSettles DEF SettleInv
<1>5. ASSUME NEW s \in Owners, NEW p \in Persons, Clear(s, p)
      PROVE  SettleInv'
  <2>1. UNCHANGED <<sent, inbox, now>> /\ astray' = astray \cup Ids(hist[s][p])
    BY <1>5 DEF Clear, mailVars
  <2>2. /\ Rows(hist'[s][p]) = {}
        /\ \A t \in Owners, r \in Persons : t # s \/ r # p => hist'[t][r] = hist[t][r]
    BY <1>5, ClearThread
  <2>3. ASSUME NEW m \in sent, m.id \notin astray', NEW t \in Owners, NEW r \in Persons
        PROVE  /\ Rows(hist'[t][r]) \subseteq Rows(hist[t][r])
               /\ \A row \in Rows(hist[t][r]) : row \in Rows(hist'[t][r]) \/ row.id # m.id
    <3>1. CASE t = s /\ r = p
      BY <2>1, <2>2, <2>3, <3>1 DEF Ids
    <3>2. CASE t # s \/ r # p
      BY <2>2, <3>2
    <3>3. QED
      BY <3>1, <3>2
  <2>4. QED
    BY <2>1, <2>3, LoseSettles DEF SettleInv
<1>6. CASE Quiet /\ (now' = now \/ now' = now + 1)
  <2>1. UNCHANGED <<sent, inbox, hist, astray>>
    BY <1>6 DEF Quiet
  <2>2. QED
    BY <1>6, <2>1, LoseSettles DEF SettleInv
<1>7. QED
  BY <1>1, <1>2, <1>3, <1>4, <1>5, <1>6, NextCases

(* The whole invariant.                                                    *)
ConvInv == TalkInv /\ PostInv /\ ThreadInv /\ SettleInv

(* It holds at first.                                                      *)
LEMMA InitConv ==
    Init => ConvInv
<1> SUFFICES ASSUME Init PROVE ConvInv
  OBVIOUS
<1>1. /\ sent = {} /\ inbox = [s \in Owners |-> {}] /\ now = 0
      /\ hist = [s \in Owners |-> [p \in Persons |-> << >>]]
  BY DEF Init
<1>2. PostInv
  BY <1>1 DEF PostInv
<1>3. ThreadInv
  <2>1. PICK thread : thread = << >>
    OBVIOUS
  <2>2. thread \in Threads /\ Once(thread) /\ Rows(thread) = {}
    BY <2>1, EmptyThread
  <2>3. hist = [s \in Owners |-> [p \in Persons |-> thread]]
    BY <1>1, <2>1
  <2>4. QED
    BY <2>2, <2>3 DEF ThreadInv
<1>4. SettleInv
  BY <1>1 DEF SettleInv
<1>5. QED
  BY <1>2, <1>3, <1>4, InitTalk DEF ConvInv

(* Every step preserves it.                                                *)
LEMMA StepConv ==
    ConvInv /\ [Next]_vars => ConvInv'
<1>1. TalkInv => MailInv
  BY DEF TalkInv
<1>2. QED
  BY <1>1, StepTalk, StepPost, StepThread, StepSettle DEF ConvInv

(* What is seen of a text is what the rows of its thread show of it.       *)
LEMMA SeenSays ==
    ASSUME ThreadInv, NEW m \in Letter, NEW s \in Owners, NEW p \in Persons, NEW mine, NEW B,
           Shows(Rows(hist[s][p]), m, mine, B, now)
    PROVE  \A x : x \in Seen(s, p, m.id) <=> ~ Expired(m.until, now) /\ Says(B, x)
<1>1. hist[s][p] \in Threads
  BY DEF ThreadInv
<1>2. Rows(Prune(hist[s][p], now)) =
        Rows(hist[s][p]) \ {r \in Rows(hist[s][p]) : Expired(r.until, now)}
  BY <1>1, RemoveKeeps DEF Prune, Threads
<1>3. ASSUME NEW x
      PROVE  x \in Seen(s, p, m.id) <=> \E row \in Rows(hist[s][p]) :
               row.id = m.id /\ row.text = x /\ ~ Expired(row.until, now)
  BY <1>2 DEF Seen
<1>4. QED
  BY <1>3 DEF Shows

(* When everything about a text has arrived, both sides show the same.     *)
LEMMA InvConverges ==
    ConvInv => Converges
<1> SUFFICES ASSUME ConvInv, NEW m \in sent, m.kind = "text", Settled(m.id)
             PROVE  Seen(m.from, m.to, m.id) = Seen(m.to, m.from, m.id)
  BY DEF Converges
<1>0. MailInv /\ PostInv /\ ThreadInv
  BY DEF ConvInv, TalkInv
<1>1. MessageOf(m.id) = m
  BY <1>0, MessageFound
<1>2. Settles(m)
  BY DEF ConvInv, SettleInv, Settled
<1>3. Received(m) = OfText(m)
  BY <1>1 DEF Settled, Received, OfText, Arrived
<1>4. m \in Letter /\ m.from \in Owners /\ m.to \in Owners /\ m.from \in Persons /\ m.to \in Persons
  BY <1>0, TextFacts
<1>5. /\ Shows(Rows(hist[m.from][m.to]), m, TRUE, OfText(m), now)
      /\ Shows(Rows(hist[m.to][m.from]), m, FALSE, OfText(m), now)
  BY <1>2, <1>3 DEF Settles
<1>6. \A x : x \in Seen(m.from, m.to, m.id) <=> ~ Expired(m.until, now) /\ Says(OfText(m), x)
  BY <1>0, <1>4, <1>5, SeenSays
<1>7. \A x : x \in Seen(m.to, m.from, m.id) <=> ~ Expired(m.until, now) /\ Says(OfText(m), x)
  BY <1>0, <1>4, <1>5, SeenSays
<1>8. QED
  BY <1>6, <1>7
-----------------------------------------------------------------------------
(* The transcript of s with p, as Transcript has it, after a step.         *)
LEMMA PromiseView ==
    ASSUME NEW s \in Owners, NEW p \in Persons
    PROVE  /\ [t \in Owners |-> [r \in Persons |-> Rows(hist[t][r])]][s][p] = Rows(hist[s][p])
           /\ [t \in Owners |-> [r \in Persons |-> Order(hist[t][r])]][s][p] = Order(hist[s][p])
           /\ [t \in Owners |-> [r \in Persons |-> Rows(hist'[t][r])]][s][p] = Rows(hist'[s][p])
           /\ [t \in Owners |-> [r \in Persons |-> Order(hist'[t][r])]][s][p] = Order(hist'[s][p])
OBVIOUS

(* A message stands once in a thread.                                      *)
LEMMA OneRow ==
    ASSUME NEW thread, Once(thread), NEW r \in Rows(thread), NEW row \in Rows(thread),
           r.id = row.id
    PROVE  r = row
<1>1. PICK i, j : IsPlace(thread, i, j) /\ r = thread[i][j]
  BY RowsPlaces
<1>2. PICK k, l : IsPlace(thread, k, l) /\ row = thread[k][l]
  BY RowsPlaces
<1>3. QED
  BY <1>1, <1>2 DEF Once

(* What a message between s and p does is what its author said.            *)
LEMMA ApplyPromised ==
    ASSUME ThreadInv, NEW s \in Owners, NEW p \in Persons, NEW q \in Letter,
           sent \subseteq sent', q \in sent', {q.from, q.to} = {s, p}, s # p,
           NEW mine \in BOOLEAN, mine = (q.from = s), Apply(s, p, q, mine),
           Rows(hist'[s][p]) # Rows(hist[s][p]) \/ Order(hist'[s][p]) # Order(hist[s][p])
    PROVE  Promise!Changed(s, p)
<1>0. hist[s][p] \in Threads /\ Once(hist[s][p]) /\ Rows(hist[s][p]) \in SUBSET StoredRow
  BY RowsTyped DEF ThreadInv
<1>1. /\ hist'[s][p] = Applied(hist[s][p], q, mine)
      /\ Rows(hist'[s][p]) = NewRows(Rows(hist[s][p]), q, mine)
  BY ApplyThread
<1>o. Order(hist'[s][p]) = NewOrder(hist[s][p], q, mine)
  BY <1>0, <1>1, AppliedKeeps
<1>2. \A row \in Rows(hist[s][p]) : row.mine = mine <=> q.from = (IF row.mine THEN s ELSE p)
  BY <1>0 DEF StoredRow
<1>3. CASE q.kind = "text"
  <2>1. q.id \notin Ids(hist[s][p])
    BY <1>1, <1>3, <1>o DEF NewRows, NewOrder, Ids
  <2>2. Order(hist'[s][p]) =
          Order(hist[s][p]) \cup {<<r.id, q.id>> : r \in Rows(hist[s][p])}
    BY <1>3, <1>o, <2>1 DEF NewOrder
  <2>3. \A row \in Rows(hist[s][p]) : row.id # q.id
    BY <2>1 DEF Ids
  <2>4. Rows(hist'[s][p]) = Rows(hist[s][p]) \cup
          {[id |-> q.id, mine |-> q.from = s, text |-> q.id, until |-> q.until]}
    BY <1>1, <1>3, <2>3 DEF NewRows, RowOf
  <2>5. Promise!Added(s, p)
    BY <1>3, <2>2, <2>3, <2>4, PromiseView DEF Promise!Added
  <2>6. QED
    BY <2>5 DEF Promise!Changed
<1>4. CASE q.kind = "edit"
  <2>1. Order(hist'[s][p]) = Order(hist[s][p])
    BY <1>4, <1>o DEF NewOrder
  <2>2. Rows(hist'[s][p]) =
          {IF row.id = q.target /\ row.mine = mine THEN [row EXCEPT !.text = q.id] ELSE row :
             row \in Rows(hist[s][p])}
    BY <1>1, <1>4 DEF NewRows, EditedRows
  <2>3. PICK row \in Rows(hist[s][p]) : row.id = q.target /\ row.mine = mine
    BY <2>1, <2>2
  <2>4. \A r \in Rows(hist[s][p]) : r.id = q.target => r = row
    BY <1>0, <2>3, OneRow
  <2>5. Rows(hist'[s][p]) = (Rows(hist[s][p]) \ {row}) \cup {[row EXCEPT !.text = q.id]}
    BY <2>2, <2>3, <2>4
  <2>6. q.from = Promise!Author(s, p, row)
    BY <1>2, <2>3 DEF Promise!Author
  <2>7. Promise!Edited(s, p)
    BY <1>4, <2>1, <2>3, <2>5, <2>6, PromiseView DEF Promise!Edited
  <2>8. QED
    BY <2>7 DEF Promise!Changed
<1>5. CASE q.kind = "delete"
  <2>1. PICK gone : gone = {r \in Rows(hist[s][p]) : r.id = q.target /\ r.mine = mine}
    OBVIOUS
  <2>2. Order(hist'[s][p]) = {x \in Order(hist[s][p]) : \A row \in Rows(hist[s][p]) \cap gone :
                                row.id # x[1] /\ row.id # x[2]}
    BY <1>5, <1>o, <2>1 DEF NewOrder
  <2>3. Rows(hist'[s][p]) = Rows(hist[s][p]) \ gone
    BY <1>1, <1>5, <2>1 DEF NewRows
  <2>4. gone = {r \in Rows(hist[s][p]) : r.id = q.target /\ q.from = Promise!Author(s, p, r)}
    BY <1>2, <2>1 DEF Promise!Author
  <2>5. Promise!Lost(s, p, gone)
    BY <2>2, <2>3, PromiseView DEF Promise!Lost
  <2>6. Promise!TakenBack(s, p)
    BY <1>5, <2>4, <2>5, PromiseView DEF Promise!TakenBack
  <2>7. QED
    BY <2>6 DEF Promise!Changed
<1>6. QED
  BY <1>3, <1>4, <1>5 DEF Letter, Kinds

(* load_active loses what has expired.                                     *)
LEMMA ReadPromised ==
    ASSUME ThreadInv, NEW s \in Owners, NEW p \in Persons, Read(s, p)
    PROVE  Promise!Changed(s, p)
<1>0. hist[s][p] \in Threads /\ Once(hist[s][p])
  BY DEF ThreadInv
<1>1. PICK gone : gone = {r \in Rows(hist[s][p]) : Expired(r.until, now)}
  OBVIOUS
<1>2. hist'[s][p] = RemoveRows(hist[s][p], gone)
  BY <1>1, ReadThread DEF Prune
<1>3. /\ Rows(hist'[s][p]) = Rows(hist[s][p]) \ gone
      /\ Order(hist'[s][p]) = {x \in Order(hist[s][p]) : \A row \in Rows(hist[s][p]) \cap gone :
                                 row.id # x[1] /\ row.id # x[2]}
  <2>1. hist[s][p] \in Seq(Seq(StoredRow))
    BY <1>0 DEF Threads
  <2>2. QED
    BY <1>0, <1>2, <2>1, RemoveKeeps
<1>4. Promise!Lost(s, p, gone)
  BY <1>3, PromiseView DEF Promise!Lost
<1>5. Promise!Pruned(s, p)
  BY <1>1, <1>4, PromiseView DEF Promise!Pruned, Expired
<1>6. QED
  BY <1>5 DEF Promise!Changed

(* clear_history loses everything.                                         *)
LEMMA ClearPromised ==
    ASSUME ThreadInv, NEW s \in Owners, NEW p \in Persons, Clear(s, p)
    PROVE  Promise!Changed(s, p)
<1>0. hist[s][p] \in Seq(Seq(StoredRow))
  BY DEF ThreadInv, Threads
<1>1. Rows(hist'[s][p]) = {} /\ Order(hist'[s][p]) = {}
  BY ClearThread, EmptyThread
<1>2. ASSUME NEW x \in Order(hist[s][p]) PROVE \E row \in Rows(hist[s][p]) : row.id = x[1]
  <2>0. x \in Order(hist[s][p]) <=> \E i, j, k, l :
          /\ IsPlace(hist[s][p], i, j) /\ IsPlace(hist[s][p], k, l) /\ Earlier(i, j, k, l)
          /\ x = <<hist[s][p][i][j].id, hist[s][p][k][l].id>>
    BY <1>0, OrderPlaces
  <2>1. PICK i, j, k, l :
          /\ IsPlace(hist[s][p], i, j) /\ IsPlace(hist[s][p], k, l)
          /\ x = <<hist[s][p][i][j].id, hist[s][p][k][l].id>>
    BY <1>2, <2>0
  <2>2. hist[s][p][i][j] \in Rows(hist[s][p])
    BY <2>1, RowsPlaces
  <2>3. QED
    BY <2>1, <2>2
<1>3. Promise!Lost(s, p, Rows(hist[s][p]))
  BY <1>1, <1>2, PromiseView DEF Promise!Lost
<1>4. Promise!Cleared(s, p)
  BY <1>3, PromiseView DEF Promise!Cleared
<1>5. QED
  BY <1>4 DEF Promise!Changed

(* Each step does to a transcript what Transcript allows, or nothing.      *)
LEMMA StepPromised ==
    ASSUME ConvInv, [Next]_vars
    PROVE  Promise!Next
<1>0. MailInv /\ PostInv /\ ThreadInv /\ Owners \subseteq Persons /\ now \in Nat
  BY OwnersArePersons DEF ConvInv, TalkInv, PostInv
<1> DEFINE Goal == /\ sent \subseteq sent' /\ (now' = now \/ now' = now + 1)
                   /\ \A s \in Owners, p \in Persons :
                        \/ Rows(hist'[s][p]) # Rows(hist[s][p])
                        \/ Order(hist'[s][p]) # Order(hist[s][p])
                        => Promise!Changed(s, p)
<1>1. ASSUME NEW s \in Owners, NEW p \in Owners, NEW q \in Letter, Send(s, p, q)
      PROVE  Goal
  <2>1. Push(s, p, q) /\ Apply(s, p, q, TRUE) /\ now' = now
    BY <1>1 DEF Send
  <2>2. q.from = s /\ q.to = p /\ p # s /\ sent' = sent \cup {q}
    BY <1>0, <2>1, PushFresh
  <2>3. \A t \in Owners, r \in Persons : t # s \/ r # p => hist'[t][r] = hist[t][r]
    BY <1>0, <2>1, <2>2, ApplyThread
  <2>4. \/ Rows(hist'[s][p]) # Rows(hist[s][p])
        \/ Order(hist'[s][p]) # Order(hist[s][p])
        => Promise!Changed(s, p)
    <3>1. p \in Persons /\ {q.from, q.to} = {s, p} /\ TRUE = (q.from = s)
      BY <1>0, <2>2
    <3>2. QED
      BY <1>0, <2>1, <2>2, <3>1, ApplyPromised
  <2>5. QED
    BY <2>1, <2>2, <2>3, <2>4
<1>2. ASSUME NEW s \in Owners, NEW p \in Owners, NEW q \in Letter, SendTorn(s, p, q)
      PROVE  Goal
  BY <1>2 DEF SendTorn, Push
<1>3. ASSUME NEW s \in Owners, NEW f \in net, Accept(s, f)
      PROVE  Goal
  <2>1. PICK q \in sent :
          q.to = s /\ UNCHANGED <<sent, now>> /\ (hist' = hist \/ Apply(s, q.from, q, FALSE))
    BY <1>0, <1>3, AcceptArrives
  <2>2. q \in Letter /\ q.from \in Persons /\ q.from # s
    BY <1>0, <2>1, TextFacts
  <2>3. CASE hist' = hist
    BY <2>1, <2>3
  <2>4. CASE Apply(s, q.from, q, FALSE)
    <3>1. \A t \in Owners, r \in Persons : t # s \/ r # q.from => hist'[t][r] = hist[t][r]
      BY <1>0, <2>1, <2>2, <2>4, ApplyThread
    <3>2. {q.from, q.to} = {s, q.from} /\ FALSE = (q.from = s)
      BY <2>1, <2>2
    <3>3. \/ Rows(hist'[s][q.from]) # Rows(hist[s][q.from])
          \/ Order(hist'[s][q.from]) # Order(hist[s][q.from])
          => Promise!Changed(s, q.from)
      BY <1>0, <2>1, <2>2, <2>4, <3>2, ApplyPromised
    <3>4. QED
      BY <2>1, <3>1, <3>3
  <2>5. QED
    BY <2>1, <2>3, <2>4
<1>4. ASSUME NEW s \in Owners, NEW p \in Persons, Read(s, p) \/ Clear(s, p)
      PROVE  Goal
  <2>1. UNCHANGED <<sent, now>>
    BY <1>4 DEF Read, Clear, mailVars
  <2>2. \A t \in Owners, r \in Persons : t # s \/ r # p => hist'[t][r] = hist[t][r]
    BY <1>0, <1>4, ReadThread, ClearThread
  <2>3. Promise!Changed(s, p)
    BY <1>0, <1>4, ReadPromised, ClearPromised
  <2>4. QED
    BY <2>1, <2>2, <2>3
<1>5. ASSUME Quiet, now' = now \/ now' = now + 1 PROVE Goal
  <2>1. hist' = hist /\ sent' = sent
    BY <1>5 DEF Quiet
  <2>2. QED
    BY <1>5, <2>1
<1> HIDE DEF Goal
<1>6. Goal
  BY <1>0, <1>1, <1>2, <1>3, <1>4, <1>5, NextCases
<1>7. now <= now'
  BY <1>0, <1>6 DEF Goal
<1>8. QED
  BY <1>6, <1>7, PromiseView DEF Promise!Next, Goal

(* At first every transcript is empty.                                     *)
LEMMA InitPromised ==
    Init => Promise!Init
<1> SUFFICES ASSUME Init PROVE Promise!Init
  OBVIOUS
<1>1. /\ sent = {} /\ now = 0 /\ \A s \in Owners, p \in Persons : hist[s][p] = << >>
  BY DEF Init
<1>2. \A s \in Owners, p \in Persons : Rows(hist[s][p]) = {} /\ Order(hist[s][p]) = {}
  BY <1>1, EmptyThread
<1>3. QED
  BY <1>1, <1>2 DEF Promise!Init
-----------------------------------------------------------------------------
(* The books and the mail are in order at any time.                        *)
THEOREM TalkCorrect == Spec => []TalkInv
BY InitTalk, StepTalk, PTL DEF Spec

(* What is in a book is covered by its pin (check_and_pin, put).           *)
THEOREM PinsCover == Spec => []PinCovers
<1>1. TalkInv => PinCovers
  <2> SUFFICES ASSUME TalkInv, NEW s \in Owners, NEW p \in Persons, book[s][p] # None
               PROVE  pins[s][p] # None /\ pins[s][p].seq >= book[s][p].seq
    BY DEF PinCovers
  <2>1. /\ pins[s][p] # None
        /\ pins[s][p] = book[s][p] \/ pins[s][p].seq > book[s][p].seq
        /\ pins[s][p] \in Records /\ book[s][p] \in Records
    BY DEF TalkInv, BookInv, PinInv, BookTypeOK
  <2>2. pins[s][p].seq \in Nat /\ book[s][p].seq \in Nat
    BY <2>1, RecordTyped
  <2>3. QED
    BY <2>1, <2>2
<1>2. QED
  BY <1>1, TalkCorrect, PTL

(* Every thread can be listed: its partner is a contact or in the book, or *)
(* the user removed the record (conversation_label).                       *)
THEOREM ThreadsHaveNames == Spec => []ThreadsNamed
<1>1. TalkInv => ThreadsNamed
  BY DEF TalkInv, BookInv, KnownInv, ThreadsNamed
<1>2. QED
  BY <1>1, TalkCorrect, PTL

(* A record is replaced by a newer one only, wherever the process dies     *)
(* (check_and_pin, remove_record).                                         *)
THEOREM RecordsOnlyAdvance == Spec => RecordsAdvance
<1> DEFINE Step == \A s \in Owners, p \in Persons :
      book[s][p] # None /\ book'[s][p] \notin {None, book[s][p]} =>
          book'[s][p].seq > book[s][p].seq
<1>1. TalkInv /\ [Next]_vars => [Step]_book
  <2> SUFFICES ASSUME TalkInv, [Next]_vars, book' # book PROVE Step
    OBVIOUS
  <2>1. Next
    BY DEF vars, allBookVars, bookVars
  <2>2. BookInv /\ Effect
    BY <2>1, NextTalk DEF TalkInv
  <2>3. QED
    BY <2>2, EffectAdvances
<1>2. QED
  BY <1>1, TalkCorrect, PTL DEF Spec, RecordsAdvance

(* A DHT answer for the handle of a trusted person leaves the handle with  *)
(* that person (trusted_wallet, best_dht_record_candidate).                *)
THEOREM TrustedHandlesKept == Spec => TrustedHandleKept
<1> DEFINE Step == \A s \in Owners, h \in Handles :
      TrustedWallet(s, h) # None /\ Lookup(s, h)' # Lookup(s, h) => ~ DhtLookup(s, h)
<1>1. ASSUME TalkInv, NEW s \in Owners, NEW h \in Handles, TrustedWallet(s, h) # None,
             DhtLookup(s, h)
      PROVE  Lookup(s, h)' = Lookup(s, h)
  <2>1. PICK t : t = Lookup(s, h)
    OBVIOUS
  <2>2. t # None /\ TrustedWallet(s, h) = t
    BY <1>1, <2>1 DEF TrustedWallet
  <2>3. PICK found \in SUBSET {r \in Records : r.handle = h} :
          \E r \in DhtChoice(s, h, found) : Import(s, r)
    BY <1>1 DEF DhtLookup
  <2>4. PICK r \in DhtChoice(s, h, found) : Import(s, r)
    BY <2>3
  <2>5. r \in Records /\ r.handle = h /\ r.user = t
    BY <2>2, <2>3, <2>4 DEF DhtChoice
  <2>6. t \in Known(s) /\ WithHandle(s, h) = {t}
    BY <2>1, <2>2, LookupKnown
  <2>7. book' = [book EXCEPT ![s][t] = r] /\ r # None /\ t \in Persons
    BY <2>4, <2>5, RecordTyped DEF Import, Put, Store
  <2>8. book \in [Owners -> [Persons -> Records \cup {None}]]
    BY <1>1 DEF TalkInv, BookInv, BookTypeOK
  <2>9. /\ book'[s][t] = r
        /\ \A p \in Persons \ {t} : book'[s][p] = book[s][p]
    BY <2>7, <2>8
  <2>10. WithHandle(s, h)' = {t}
    BY <2>5, <2>6, <2>7, <2>9 DEF WithHandle, Known
  <2>11. Lookup(s, h)' = CHOOSE p \in Persons : WithHandle(s, h)' = {p}
    BY <2>7, <2>10 DEF Lookup
  <2>12. QED
    BY <2>1, <2>7, <2>10, <2>11
<1>2. TalkInv /\ [Next]_vars => [Step]_allBookVars
  BY <1>1
<1>3. QED
  BY <1>2, TalkCorrect, PTL DEF Spec, TrustedHandleKept

(* Letters, threads and settled texts are in order at any time.            *)
THEOREM ConversationCorrect == Spec => []ConvInv
BY InitConv, StepConv, PTL DEF Spec

(* Once everything about a text has arrived in order, its writer and its   *)
(* reader see the same: the same wording, or nothing because it was        *)
(* deleted or has expired (send_app, recv_direct, load_active).            *)
THEOREM TranscriptsConverge == Spec => []Converges
BY InvConverges, ConversationCorrect, PTL

(* Segments, edits, frames that come again or out of order: a row says     *)
(* what its author said, stands once and in its place, and goes only by    *)
(* its author's deletion, by expiry or with the whole transcript           *)
(* (history.rs append, edit, delete, load_active).                         *)
THEOREM RefinesTranscript == Spec => ImplementsTranscript
<1>1. ConvInv /\ [Next]_vars => [Promise!Next]_Promise!vars
  BY StepPromised
<1>2. QED
  BY <1>1, InitPromised, ConversationCorrect, PTL DEF Spec, ImplementsTranscript, Promise!Spec
=============================================================================
