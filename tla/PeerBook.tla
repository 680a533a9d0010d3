------------------------------ MODULE PeerBook ------------------------------
(***************************************************************************)
(* The people a device knows: the book of signed records with its          *)
(* anti-rollback pins (peerbook.rs, antirollback.rs), contacts, verified   *)
(* identities and the block list, and the ways a name the user types       *)
(* becomes a person (contacts, the book, the DHT).                         *)
(*                                                                         *)
(* A signed record is [user, seq, handle].  Signatures hold, a user id     *)
(* determines its wallet, and the three sequence numbers of a record go    *)
(* together.  Two records of one user may have the same seq: two devices   *)
(* made them, and their digests differ.  Handles are not unique.           *)
(***************************************************************************)
EXTENDS Naturals, FiniteSets

CONSTANTS
    Owners,      \* people whose devices are modelled
    Persons,     \* everyone, strangers included
    Handles,     \* handles people may choose
    Nicknames,   \* names for contacts; a nickname may look like a handle
    Records,     \* the signed records in circulation
    Cards,       \* pairs <<s, p>>: s has saved the card of p from the start
    None,
    MaxChanges   \* MaxChanges[s], bound: changes s makes to what it knows

ASSUME OwnersArePersons == Owners \subseteq Persons
ASSUME RecordsAreSigned ==
    Records \subseteq [user : Persons, seq : Nat \ {0}, handle : Handles]
ASSUME NoneIsNoRecord == None \notin Records /\ None \notin Persons
ASSUME BoundsAreNumbers == MaxChanges \in [Owners -> Nat]

VARIABLES
    book,      \* book[s][p]: the record of p that s has stored, or None
    pins,      \* pins[s][p]: the newest record of p that s has accepted, or None
    contacts,  \* contacts[s][n]: the person s saved under nickname n, or None
    verified,  \* verified[s]: the persons whose safety number s compared
    blocked,   \* blocked[s]: the persons s has blocked
    removed,   \* removed[s]: the persons whose record s removed by hand
    changes    \* changes[s]: how many changes s has made

bookVars == <<book, pins, removed>>
peopleVars == <<contacts, verified, blocked>>
allBookVars == <<bookVars, peopleVars, changes>>

BookTypeOK ==
    /\ book \in [Owners -> [Persons -> Records \cup {None}]]
    /\ pins \in [Owners -> [Persons -> Records \cup {None}]]
    /\ contacts \in [Owners -> [Nicknames -> Persons \cup {None}]]
    /\ verified \in [Owners -> SUBSET Persons]
    /\ blocked \in [Owners -> SUBSET Persons]
    /\ removed \in [Owners -> SUBSET Persons]
    /\ changes \in [Owners -> Nat]

(* The person is a contact: verified::level finds its pin.                 *)
Pinned(s, p) == \E n \in Nicknames : contacts[s][n] = p

(* Every device has published a first record of its own and has saved the  *)
(* first records of some people as contacts.                               *)
BookInit ==
    /\ book \in [Owners -> [Persons -> Records \cup {None}]]
    /\ \A s \in Owners, p \in Persons :
         IF p = s \/ <<s, p>> \in Cards
           THEN book[s][p] \in {r \in Records : r.user = p /\ r.seq = 1}
           ELSE book[s][p] = None
    /\ pins = book
    /\ contacts \in [Owners -> [Nicknames -> Persons \cup {None}]]
    /\ \A s \in Owners, p \in Persons :
         Pinned(s, p) <=> p # s /\ <<s, p>> \in Cards
    /\ verified = [s \in Owners |-> {}]
    /\ blocked = [s \in Owners |-> {}]
    /\ removed = [s \in Owners |-> {}]
    /\ changes = [s \in Owners |-> 0]
-----------------------------------------------------------------------------
(* Trust and resolution.                                                   *)

(* verified::level is Verified or Pinned.  It is never Changed: the record *)
(* of a user id always carries the wallet the id was made from.            *)
Trusted(s, p) == p \in verified[s] \/ Pinned(s, p)

(* What check_and_pin accepts: a newer seq, or the pinned record again.    *)
Fresh(s, r) ==
    pins[s][r.user] # None =>
        r.seq > pins[s][r.user].seq \/ r = pins[s][r.user]

Known(s) == {p \in Persons : book[s][p] # None}

(* The persons that go by handle h in the book.                            *)
WithHandle(s, h) == {p \in Known(s) : book[s][p].handle = h}

(* LocalNet::lookup and peerbook::get: a handle two persons use is nobody. *)
Lookup(s, h) ==
    IF \E p \in Persons : WithHandle(s, h) = {p}
      THEN CHOOSE p \in Persons : WithHandle(s, h) = {p}
      ELSE None

(* resolve_local_record up to its checks: a user id, else a contact by its *)
(* user id, else a handle.                                                 *)
Meant(s, input) ==
    IF input \in Persons THEN input
    ELSE IF input \in Nicknames /\ contacts[s][input] # None
      THEN contacts[s][input]
    ELSE IF input \in Handles THEN Lookup(s, input)
    ELSE None

(* resolve_user_record, resolve_record: the record is in the book and is   *)
(* not older than its pin.                                                 *)
Resolves(s, p) == p \in Known(s) /\ Fresh(s, book[s][p])

(* lookup_verified: an explicit pin or verification is required as well.   *)
Reachable(s, p) == Resolves(s, p) /\ Trusted(s, p)
-----------------------------------------------------------------------------
(* peerbook::put on a fresh record: advance the pin, replace the entry.    *)
Pin(s, r) == pins' = [pins EXCEPT ![s][r.user] = r]

Store(s, r) ==
    /\ book' = [book EXCEPT ![s][r.user] = r]
    /\ removed' = [removed EXCEPT ![s] = @ \ {r.user}]

Put(s, r) == Fresh(s, r) /\ Pin(s, r) /\ Store(s, r)

(* A record arrives: typed in, or from a peer's discovery.                 *)
(* A record that is not fresh is refused.                                  *)
Import(s, r) == Put(s, r) /\ UNCHANGED peopleVars

(* apply_registry_record: the registry's record of a person in the book.   *)
Refresh(s, r) == r.user \in Known(s) /\ Import(s, r)

(* The pin and the book are two writes of a plain FileStore.               *)
ImportTorn(s, r) ==
    /\ Fresh(s, r)
    /\ Pin(s, r)
    /\ UNCHANGED <<book, removed, peopleVars>>

(* The person a DHT answer for handle h must come from, if that is known.  *)
TrustedWallet(s, h) ==
    LET p == Lookup(s, h) IN IF p # None /\ Trusted(s, p) THEN p ELSE None

(* Mutant of DhtChoice: the handle's owner is not looked up.               *)
DhtChoiceAny(s, h, found) ==
    {r \in found : /\ \A q \in found : q.user = r.user
                   /\ \A q \in found : q.seq <= r.seq}

(* best_dht_record_candidate: only the trusted person's records count; if  *)
(* there is none, all must be of one person.  The freshest one is taken,   *)
(* the first of equally fresh ones.                                        *)
DhtChoice(s, h, found) ==
    LET t == TrustedWallet(s, h)
        own == IF t = None THEN found ELSE {r \in found : r.user = t}
    IN {r \in own : /\ \A q \in own : q.user = r.user
                    /\ \A q \in own : q.seq <= r.seq}

(* dht_lookup: whatever records for h the DHT returns.                     *)
DhtLookup(s, h) ==
    \E found \in SUBSET {r \in Records : r.handle = h} :
        \E r \in DhtChoice(s, h, found) : Import(s, r)

(* remove_record: the one record with this handle goes, then its pins.     *)
RemoveRecord(s, h) ==
    \E p \in Persons :
        /\ Lookup(s, h) = p
        /\ book' = [book EXCEPT ![s][p] = None]
        /\ pins' = [pins EXCEPT ![s][p] = None]
        /\ removed' = [removed EXCEPT ![s] = @ \cup {p}]
        /\ UNCHANGED peopleVars

(* Mutant of RemoveTorn: the pins are cleared before the record is removed. *)
RemoveTornPinsFirst(s, h) ==
    \E p \in Persons :
        /\ Lookup(s, h) = p
        /\ pins' = [pins EXCEPT ![s][p] = None]
        /\ UNCHANGED <<book, removed, peopleVars>>

(* A crash after the record went and before its pins.                      *)
RemoveTorn(s, h) ==
    \E p \in Persons :
        /\ Lookup(s, h) = p
        /\ book' = [book EXCEPT ![s][p] = None]
        /\ removed' = [removed EXCEPT ![s] = @ \cup {p}]
        /\ UNCHANGED <<pins, peopleVars>>

(* save_contact_for_record: a nickname in use by another person is kept.   *)
SaveContact(s, n, p) ==
    contacts' = IF contacts[s][n] \in {None, p}
                  THEN [contacts EXCEPT ![s][n] = p] ELSE contacts

(* add_contact_from_record: the card's record is stored first, whatever    *)
(* becomes of the nickname.                                                *)
AddCard(s, n, r) ==
    /\ Put(s, r)
    /\ SaveContact(s, n, r.user)
    /\ UNCHANGED <<verified, blocked>>

(* add_contact: by a handle that only one person in the book has.          *)
AddContact(s, n, h) ==
    /\ Lookup(s, h) # None
    /\ SaveContact(s, n, Lookup(s, h))
    /\ UNCHANGED <<bookVars, verified, blocked>>

RemoveContact(s, n) ==
    /\ contacts[s][n] # None
    /\ contacts' = [contacts EXCEPT ![s][n] = None]
    /\ UNCHANGED <<bookVars, verified, blocked>>

(* mark_verified, of a person that resolves.                               *)
MarkVerified(s, p) ==
    /\ Resolves(s, p)
    /\ verified' = [verified EXCEPT ![s] = @ \cup {p}]
    /\ UNCHANGED <<bookVars, contacts, blocked>>

(* set_blocked.                                                            *)
SetBlocked(s, p) ==
    /\ blocked' \in {[blocked EXCEPT ![s] = @ \cup {p}],
                     [blocked EXCEPT ![s] = @ \ {p}]}
    /\ UNCHANGED <<bookVars, contacts, verified>>

(* publish_active_device_record: a newer record of one's own.              *)
Publish(s, r) ==
    /\ r.user = s
    /\ book[s][s] # None => r.seq > book[s][s].seq
    /\ Import(s, r)

(* The records that come from elsewhere: one's own are known.              *)
Foreign(s) == {r \in Records : r.user # s}

BookChange(s) ==
    \/ \E r \in Records : Publish(s, r)
    \/ \E r \in Foreign(s) : Import(s, r) \/ Refresh(s, r) \/ ImportTorn(s, r)
    \/ \E r \in Foreign(s), n \in Nicknames : AddCard(s, n, r)
    \/ \E h \in Handles : DhtLookup(s, h) \/ RemoveRecord(s, h) \/ RemoveTorn(s, h)
    \/ \E n \in Nicknames, h \in Handles : AddContact(s, n, h)
    \/ \E n \in Nicknames : RemoveContact(s, n)
    \/ \E p \in Persons \ {s} : MarkVerified(s, p) \/ SetBlocked(s, p)

(* The bound on what a user does by hand.                                  *)
Count(s) ==
    /\ changes[s] < MaxChanges[s]
    /\ changes' = [changes EXCEPT ![s] = @ + 1]

BookStep(s) == Count(s) /\ BookChange(s)

BookNext == \E s \in Owners : BookStep(s)
BookSpec == BookInit /\ [][BookNext]_allBookVars
-----------------------------------------------------------------------------
(* What is in the book is covered by its pin: no older record can follow.  *)
PinCovers == \A s \in Owners, p \in Persons :
    book[s][p] # None =>
        pins[s][p] # None /\ pins[s][p].seq >= book[s][p].seq

(* A person's record is replaced by a newer one only: neither by an older  *)
(* one nor by another of the same age, until the user removes it by hand,  *)
(* wherever the process dies between the pin and the book                  *)
(* (check_and_pin, remove_record).                                         *)
RecordsAdvance == [][\A s \in Owners, p \in Persons :
    book[s][p] # None /\ book'[s][p] \notin {None, book[s][p]} =>
        book'[s][p].seq > book[s][p].seq]_book

(* Sending to a group finds one's own record: require_own_record looks it  *)
(* up by handle, which somebody else may have as well.                     *)
GroupSenderFound == \A s \in Owners :
    s \in Known(s) => Lookup(s, book[s][s].handle) = s

(* Asking the DHT for the handle of a person the user trusts never makes   *)
(* the handle someone else's or nobody's, whoever publishes under it       *)
(* (trusted_wallet, best_dht_record_candidate).                            *)
TrustedHandleKept == [][\A s \in Owners, h \in Handles :
    TrustedWallet(s, h) # None /\ Lookup(s, h)' # Lookup(s, h) =>
        ~ DhtLookup(s, h)]_allBookVars
=============================================================================
