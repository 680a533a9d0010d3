----------------------------- MODULE GroupChat -----------------------------
(***************************************************************************)
(* One group with sender keys: core group.rs, engine groups.rs and the     *)
(* group handlers of flow/mod.rs, driven by the commands of the            *)
(* command-line client (the only one that starts groups) and by            *)
(* runtime.rs accept_delivery.                                             *)
(*                                                                         *)
(* mail[p][q] lists what p has sealed for q, and got[q][p] says which of   *)
(* it the store of q has accepted.  Items are parked and retried until     *)
(* they are acknowledged (module Delivery), so any item may be accepted at *)
(* any time, in any order, or never, but only once by one store.  An item  *)
(* that is refused, by a handler, a block list or a failing store, stays   *)
(* in the outbox of its sender: it is an item that has not been accepted.  *)
(* A copy that its sender cannot seal or park (DeliveryPath::Failed, or a  *)
(* target that is skipped) is never in the list: each handler goes on with *)
(* the next one, and says which of its copies were parked.                 *)
(*                                                                         *)
(* A person has one active device.  Another one starts with an empty store *)
(* and may be sent again what the old one got.  The sender keys of a       *)
(* person are numbered by generation; a generation stands for the chain    *)
(* key and for the public signing key that identifies it.                  *)
(***************************************************************************)
EXTENDS Naturals, Sequences, FiniteSets

CONSTANTS
    Persons,
    Founders,    \* who may create the group
    Friends,     \* <<p, q>>: p has q as a contact at first
    None,
    MaxSkip,     \* MAX_SKIP: skipped message keys kept, and the widest gap
    Cost,        \* what each kind of change counts against the bound
    MaxCost      \* bound on all changes together

Changes == {"text", "add", "leave", "move", "fault"}

ASSUME CostAssumption == Cost \in [Changes -> Nat] /\ MaxCost \in Nat
ASSUME SkipAssumption == MaxSkip \in Nat \ {0}

VARIABLES
    dev,      \* dev[p]: the number of p's active device
    knows,    \* knows[p][q]: the device of q in p's peer book, 0 if none
    trusts,   \* trusts[p]: those p has verified or pinned
    joined,   \* who has the group in their store
    members,  \* members[p]: StoredGroup::members
    shares,   \* shares[p]: StoredGroup::key_shares
    gen,      \* gen[p]: the generation of p's sender key
    iter,     \* iter[p]: its chain position
    keys,     \* keys[p][q]: the receiver key p has for q, or None
    mail,     \* mail[p][q]: the items p has sealed for q
    got,      \* got[q][p]: the positions in mail[p][q] accepted by q
    log,      \* log[p]: the texts in p's group transcript
    texts,    \* how many texts were encrypted
    missed,   \* history: whom a send could not give the key of its text
    spent,    \* the cost of all changes so far
    calm      \* history: nobody left or moved, no call failed or was cut

deviceVars == <<dev, knows, trusts>>
groupVars == <<joined, members, shares, gen, iter, keys>>
mailVars == <<mail, got>>
bound == <<spent, calm>>
vars == <<deviceVars, groupVars, mailVars, log, texts, missed, bound>>

Invite(d, td, ms, g, n) == [kind |-> "invite", dev |-> d, todev |-> td,
                            members |-> ms, gen |-> g, iter |-> n, id |-> 0]
Text(d, td, g, n, id) == [kind |-> "text", dev |-> d, todev |-> td,
                          members |-> {}, gen |-> g, iter |-> n, id |-> id]
Departure(d, td) == [kind |-> "leave", dev |-> d, todev |-> td,
                     members |-> {}, gen |-> 0, iter |-> 0, id |-> 0]
Item == [kind : {"invite", "text", "leave"}, dev : Nat, todev : Nat,
         members : SUBSET Persons, gen : Nat, iter : Nat, id : Nat]
Key == [dev : Nat, gen : Nat, iter : Nat, skipped : SUBSET Nat]
Share == [user : Persons, dev : Nat, gen : Nat]
Miss == [by : Persons, user : Persons, dev : Nat, gen : Nat, iter : Nat]

ASSUME NoneIsNoKey == None \notin Key

TypeOK ==
    /\ dev \in [Persons -> Nat]
    /\ knows \in [Persons -> [Persons -> Nat]]
    /\ trusts \in [Persons -> SUBSET Persons]
    /\ joined \subseteq Persons
    /\ members \in [Persons -> SUBSET Persons]
    /\ shares \in [Persons -> SUBSET Share]
    /\ gen \in [Persons -> Nat]
    /\ iter \in [Persons -> Nat]
    /\ keys \in [Persons -> [Persons -> Key \cup {None}]]
    /\ mail \in [Persons -> [Persons -> Seq(Item)]]
    /\ got \in [Persons -> [Persons -> SUBSET Nat]]
    /\ log \in [Persons -> SUBSET Nat]
    /\ texts \in Nat
    /\ missed \in SUBSET Miss
    /\ spent \in Nat
    /\ calm \in BOOLEAN

Init ==
    /\ dev = [p \in Persons |-> 1]
    /\ knows = [p \in Persons |-> [q \in Persons |->
                    IF q = p \/ <<p, q>> \in Friends THEN 1 ELSE 0]]
    /\ trusts = [p \in Persons |-> {q \in Persons : <<p, q>> \in Friends}]
    /\ joined = {}
    /\ members = [p \in Persons |-> {}]
    /\ shares = [p \in Persons |-> {}]
    /\ gen = [p \in Persons |-> 0]
    /\ iter = [p \in Persons |-> 0]
    /\ keys = [p \in Persons |-> [q \in Persons |-> None]]
    /\ mail = [p \in Persons |-> [q \in Persons |-> << >>]]
    /\ got = [p \in Persons |-> [q \in Persons |-> {}]]
    /\ log = [p \in Persons |-> {}]
    /\ texts = 0
    /\ missed = {}
    /\ spent = 0
    /\ calm = TRUE
-----------------------------------------------------------------------------
(* resolve_group_target: those of ms, other than p, whose record p has and *)
(* whom p trusts.                                                          *)
Targets(p, ms) == {q \in ms \ {p} : knows[p][q] # 0 /\ q \in trusts[p]}

(* Mutant of KeySharedWith: whichever device it was.                       *)
SharedWithPerson(p, q) ==
    \E s \in shares[p] : s.user = q /\ s.gen = gen[p]

(* StoredGroup::key_shared_with: this very device of q has our key.        *)
KeySharedWith(p, q) ==
    \E s \in shares[p] : s.user = q /\ s.dev = knows[p][q] /\ s.gen = gen[p]

(* note_key_share: one share per person, of key g, for everyone in qs.     *)
Noted(known, p, qs, g) ==
    {s \in known : s.user \notin qs}
        \cup {[user |-> q, dev |-> knows[p][q], gen |-> g] : q \in qs}

(* The invite p seals for q: its members and its sender key as it is now.  *)
InviteFor(p, q, ms, g, n) == Invite(dev[p], knows[p][q], ms, g, n)

(* deliver, park_outbox: p hands items[q] over for each q in qs.           *)
Post(p, qs, items(_)) ==
    mail' = [mail EXCEPT ![p] =
               [q \in Persons |-> IF q \in qs THEN @[q] \o items(q) ELSE @[q]]]

(* distribute_key with the current sender key, to everyone in qs.          *)
Distribute(p, qs, ms, g, n) ==
    Post(p, qs, LAMBDA q : <<InviteFor(p, q, ms, g, n)>>)

(* The bound, and whether anything but texts and new members happened.     *)
Count(change) ==
    /\ spent + Cost[change] <= MaxCost
    /\ spent' = spent + Cost[change]
    /\ calm' = (calm /\ change \in {"text", "add"})

(* A copy for each of all was parked, or only those for qs.                *)
Parked(qs, all) == IF qs = all THEN UNCHANGED bound ELSE Count("fault")
-----------------------------------------------------------------------------
(* Group::new with the members ms.                                         *)
NewGroup(p, ms) ==
    /\ joined' = joined \cup {p}
    /\ members' = [members EXCEPT ![p] = ms]
    /\ gen' = [gen EXCEPT ![p] = @ + 1]
    /\ iter' = [iter EXCEPT ![p] = 0]

(* group_create: every member must be known and trusted.  The group is     *)
(* saved, the key goes out, to qs, and the shares are saved last.          *)
Create(p, ms, qs) ==
    /\ \A q \in Persons : gen[q] = 0
    /\ p \in ms /\ Targets(p, ms) = ms \ {p} /\ qs \subseteq ms \ {p}
    /\ Parked(qs, ms \ {p})
    /\ NewGroup(p, ms)
    /\ Distribute(p, qs, ms, gen[p] + 1, 0)
    /\ shares' = [shares EXCEPT ![p] = Noted({}, p, qs, gen[p] + 1)]
    /\ UNCHANGED <<deviceVars, keys, got, log, texts, missed>>

(* Cut short when the key has gone to qs.                                  *)
CreateTorn(p, ms, qs) ==
    /\ \A q \in Persons : gen[q] = 0
    /\ p \in ms /\ Targets(p, ms) = ms \ {p} /\ qs \subseteq ms \ {p}
    /\ Count("fault")
    /\ NewGroup(p, ms)
    /\ Distribute(p, qs, ms, gen[p] + 1, 0)
    /\ UNCHANGED <<deviceVars, shares, keys, got, log, texts, missed>>

(* group_with_added_member.                                                *)
AddMember(p, q) ==
    /\ p \in joined /\ q \notin members[p]
    /\ q \in Targets(p, {q})
    /\ members' = [members EXCEPT ![p] = @ \cup {q}]

(* group_add: the new member is saved, and the key goes to all members, as *)
(* far as it can be parked: to qs.                                         *)
Add(p, q, qs) ==
    LET ms == members[p] \cup {q} IN
    /\ AddMember(p, q) /\ qs \subseteq Targets(p, ms)
    /\ Count(IF qs = Targets(p, ms) THEN "add" ELSE "fault")
    /\ Distribute(p, qs, ms, gen[p], iter[p])
    /\ shares' = [shares EXCEPT ![p] = Noted(@, p, qs, gen[p])]
    /\ UNCHANGED <<deviceVars, joined, gen, iter, keys, got, log, texts, missed>>

AddTorn(p, q, qs) ==
    LET ms == members[p] \cup {q} IN
    /\ AddMember(p, q) /\ qs \subseteq Targets(p, ms)
    /\ Count("fault")
    /\ Distribute(p, qs, ms, gen[p], iter[p])
    /\ UNCHANGED <<deviceVars, joined, shares, gen, iter, keys, got, log, texts,
                   missed>>
-----------------------------------------------------------------------------
(* The members whose device does not have the current sender key yet.      *)
Unshared(p) == {q \in Targets(p, members[p]) : ~ KeySharedWith(p, q)}

(* What group_send parks for q: the key, if q is in ks, and the text, if q *)
(* is in qs.                                                               *)
Outgoing(p, q, ks, qs) ==
    (IF q \in ks
       THEN <<InviteFor(p, q, members[p], gen[p], iter[p])>> ELSE << >>)
    \o (IF q \in qs
          THEN <<Text(dev[p], knows[p][q], gen[p], iter[p], texts + 1)>>
          ELSE << >>)

(* The devices that the key was parked for have it.                        *)
ShareNoted(p, ks) ==
    shares' = [shares EXCEPT ![p] = Noted(@, p, ks, gen[p])]

(* Those who are sent the text, in qs, lacked its key and did not get it,  *)
(* in ks, with it.                                                         *)
Misses(p, ks, qs) ==
    {[by |-> p, user |-> q, dev |-> knows[p][q], gen |-> gen[p], iter |-> iter[p]] :
        q \in (qs \cap Unshared(p)) \ ks}

(* group_send up to our own copy: first the key goes to the devices that   *)
(* lack it, as far as it can be parked, to ks, and these shares are saved; *)
(* then the text is encrypted and the advanced chain is saved; then the    *)
(* one ciphertext goes to everybody, as far as it can be parked, to qs.    *)
SendCopies(p, ks, qs) ==
    /\ p \in joined /\ ks \subseteq Unshared(p) /\ qs \subseteq Targets(p, members[p])
    /\ ShareNoted(p, ks)
    /\ iter' = [iter EXCEPT ![p] = @ + 1]
    /\ texts' = texts + 1
    /\ Post(p, Targets(p, members[p]), LAMBDA q : Outgoing(p, q, ks, qs))
    /\ missed' = missed \cup Misses(p, ks, qs)
    /\ UNCHANGED <<deviceVars, joined, members, gen, keys, got>>

(* group_send: the text is also kept in our transcript.                    *)
Send(p, ks, qs) ==
    /\ SendCopies(p, ks, qs)
    /\ Count(IF ks = Unshared(p) /\ qs = Targets(p, members[p])
               THEN "text" ELSE "fault")
    /\ log' = [log EXCEPT ![p] = @ \cup {texts + 1}]

(* Cut short while the key goes out: nothing is saved.                     *)
SendTornKeys(p, ks) ==
    /\ p \in joined /\ ks \subseteq Unshared(p)
    /\ Count("fault")
    /\ Distribute(p, ks, members[p], gen[p], iter[p])
    /\ UNCHANGED <<deviceVars, groupVars, got, log, texts, missed>>

(* Mutant of SendTorn: the chain is saved after the text has gone out.     *)
SendTornRewinds(p, ks, qs) ==
    /\ p \in joined /\ ks \subseteq Unshared(p) /\ qs \subseteq Targets(p, members[p])
    /\ Count("fault")
    /\ ShareNoted(p, ks)
    /\ texts' = texts + 1
    /\ Post(p, Targets(p, members[p]), LAMBDA q : Outgoing(p, q, ks, qs))
    /\ missed' = missed \cup Misses(p, ks, qs)
    /\ UNCHANGED <<deviceVars, joined, members, gen, iter, keys, got, log>>

(* Cut short when the text has gone to qs.                                 *)
SendTorn(p, ks, qs) ==
    /\ SendCopies(p, ks, qs)
    /\ Count("fault")
    /\ UNCHANGED log

(* groups::remove.                                                         *)
Forget(p) ==
    /\ joined' = joined \ {p}
    /\ members' = [members EXCEPT ![p] = {}]
    /\ shares' = [shares EXCEPT ![p] = {}]
    /\ keys' = [keys EXCEPT ![p] = [q \in Persons |-> None]]

(* group_leave: everybody is told, as far as the notice can be parked, for *)
(* qs, then the group is forgotten.                                        *)
Leave(p, qs) ==
    /\ p \in joined /\ qs \subseteq Targets(p, members[p])
    /\ Count("leave")
    /\ Post(p, qs, LAMBDA q : <<Departure(dev[p], knows[p][q])>>)
    /\ Forget(p)
    /\ UNCHANGED <<deviceVars, gen, iter, got, log, texts, missed>>

(* Cut short when qs have been told: we are still in the group.            *)
LeaveTorn(p, qs) ==
    /\ p \in joined /\ qs \subseteq Targets(p, members[p])
    /\ qs # {}
    /\ Count("fault")
    /\ Post(p, qs, LAMBDA q : <<Departure(dev[p], knows[p][q])>>)
    /\ UNCHANGED <<deviceVars, groupVars, got, log, texts, missed>>
-----------------------------------------------------------------------------
(* accept_delivery: the store of q has not accepted item n of p.           *)
New(q, p, n) == n \in (1 .. Len(mail[p][q])) \ got[q][p]

Accepted(q, p, n) == got' = [got EXCEPT ![q][p] = @ \cup {n}]

(* remember_sender: the record in the envelope, which must not be stale.   *)
Remember(q, p, m) ==
    /\ m.dev >= knows[q][p]
    /\ knows' = [knows EXCEPT ![q][p] = m.dev]

(* ReceiverKey::from_distribution.                                         *)
ReceiverKey(m) ==
    [dev |-> m.dev, gen |-> m.gen, iter |-> m.iter, skipped |-> {}]

(* Those of qs that can be reached, with p's record already remembered.    *)
Reachable(q, qs) == {r \in qs \ {q} : knows'[q][r] # 0 /\ r \in trusts[q]}

(* distribute_group_key to qs, as far as it can be parked, which is to.    *)
Reply(q, qs, ms, g, n, known) == \E to \in SUBSET Reachable(q, qs) :
    /\ Parked(to, Reachable(q, qs))
    /\ Post(q, to, LAMBDA r : <<Invite(dev[q], knows'[q][r], ms, g, n)>>)
    /\ shares' = [shares EXCEPT ![q] =
                    {s \in known : s.user \notin to}
                      \cup {[user |-> r, dev |-> knows'[q][r], gen |-> g] : r \in to}]

(* recv_group_invite, first time: join, and send our own key to everyone.  *)
Join(q, p, n) ==
    LET m == mail[p][q][n] IN
    /\ New(q, p, n) /\ m.kind = "invite" /\ {p, q} \subseteq m.members
    /\ q \notin joined
    /\ Remember(q, p, m)
    /\ NewGroup(q, m.members)
    /\ keys' = [keys EXCEPT ![q][p] = ReceiverKey(m)]
    /\ Reply(q, m.members, m.members, gen[q] + 1, 0, {})
    /\ Accepted(q, p, n)
    /\ UNCHANGED <<dev, trusts, log, texts, missed>>

(* Mutant of Learn: only the sender's key is taken from the invitation.    *)
LearnKeyOnly(q, p, n) ==
    LET m == mail[p][q][n] IN
    /\ New(q, p, n) /\ m.kind = "invite" /\ {p, q} \subseteq m.members
    /\ q \in joined /\ p \in members[q]
    /\ Remember(q, p, m)
    /\ keys' = [keys EXCEPT ![q][p] = ReceiverKey(m)]
    /\ Accepted(q, p, n)
    /\ UNCHANGED <<dev, trusts, mail, joined, members, shares, gen, iter, log, texts, missed, bound>>

(* recv_group_invite, known group: only from a member.  The key replaces   *)
(* the one we had of p, whichever it was; members we did not know get our  *)
(* key.                                                                    *)
Learn(q, p, n) ==
    LET m == mail[p][q][n]
        all == members[q] \cup m.members
    IN
    /\ New(q, p, n) /\ m.kind = "invite" /\ {p, q} \subseteq m.members
    /\ q \in joined /\ p \in members[q]
    /\ Remember(q, p, m)
    /\ keys' = [keys EXCEPT ![q][p] = ReceiverKey(m)]
    /\ members' = [members EXCEPT ![q] = all]
    /\ Reply(q, m.members \ members[q], all, gen[q], iter[q], shares[q])
    /\ Accepted(q, p, n)
    /\ UNCHANGED <<dev, trusts, joined, gen, iter, log, texts, missed>>

(* bank_skipped: the newest MaxSkip of the skipped positions.              *)
Banked(skipped) == {i \in skipped : Cardinality({j \in skipped : j > i}) < MaxSkip}

(* message_key can be had for position n.                                  *)
HasMessageKey(key, n) ==
    n \in key.skipped \/ (n >= key.iter /\ n - key.iter <= MaxSkip)

(* message_key: take it out of the bank, or move the chain past n.         *)
Ratcheted(key, n) ==
    IF n \in key.skipped THEN [key EXCEPT !.skipped = @ \ {n}]
    ELSE [key EXCEPT !.iter = n + 1,
                     !.skipped = Banked(@ \cup (key.iter .. (n - 1)))]

(* Text m of p can be read: it is from the device whose key and record we  *)
(* have, under the generation that we have.                                *)
Readable(q, p, m) ==
    /\ q \in joined /\ keys[q][p] # None
    /\ keys[q][p].dev = m.dev /\ knows[q][p] = m.dev
    /\ keys[q][p].gen = m.gen /\ HasMessageKey(keys[q][p], m.iter)

(* recv_group_text: the chain moves on and the text is kept.               *)
Read(q, p, n) ==
    LET m == mail[p][q][n] IN
    /\ New(q, p, n) /\ m.kind = "text"
    /\ Readable(q, p, m)
    /\ keys' = [keys EXCEPT ![q][p] = Ratcheted(@, m.iter)]
    /\ log' = [log EXCEPT ![q] = @ \cup {m.id}]
    /\ Accepted(q, p, n)
    /\ UNCHANGED <<deviceVars, mail, joined, members, shares, gen, iter, texts,
                   missed, bound>>

(* recv_group_leave when the group is not in our store.                    *)
IgnoreLeave(q, p, n) ==
    LET m == mail[p][q][n] IN
    /\ New(q, p, n) /\ m.kind = "leave" /\ q \notin joined
    /\ Remember(q, p, m)
    /\ Accepted(q, p, n)
    /\ UNCHANGED <<dev, trusts, groupVars, mail, log, texts, missed, bound>>

(* Mutant of SeeLeave: our key stays the same.                             *)
SeeLeaveKeepingKey(q, p, n) ==
    LET m == mail[p][q][n]
        rest == members[q] \ {p}
    IN
    /\ New(q, p, n) /\ m.kind = "leave" /\ q \in joined /\ p \in members[q]
    /\ Remember(q, p, m)
    /\ members' = [members EXCEPT ![q] = rest]
    /\ keys' = [keys EXCEPT ![q][p] = None]
    /\ Reply(q, rest, rest, gen[q], iter[q], shares[q])
    /\ Accepted(q, p, n)
    /\ UNCHANGED <<dev, trusts, joined, gen, iter, log, texts, missed>>

(* recv_group_leave: the member and its key go, we take a fresh sender key *)
(* and send it to those who stay.                                          *)
SeeLeave(q, p, n) ==
    LET m == mail[p][q][n]
        rest == members[q] \ {p}
    IN
    /\ New(q, p, n) /\ m.kind = "leave" /\ q \in joined /\ p \in members[q]
    /\ Remember(q, p, m)
    /\ members' = [members EXCEPT ![q] = rest]
    /\ keys' = [keys EXCEPT ![q][p] = None]
    /\ gen' = [gen EXCEPT ![q] = @ + 1]
    /\ iter' = [iter EXCEPT ![q] = 0]
    /\ Reply(q, rest, rest, gen[q] + 1, 0, shares[q])
    /\ Accepted(q, p, n)
    /\ UNCHANGED <<dev, trusts, joined, log, texts, missed>>

Accept(q, p, n) ==
    \/ Join(q, p, n) \/ Learn(q, p, n) \/ Read(q, p, n)
    \/ IgnoreLeave(q, p, n) \/ SeeLeave(q, p, n)
-----------------------------------------------------------------------------
(* p activates another device, whose store is empty.                       *)
Move(p) ==
    /\ Count("move")
    /\ dev' = [dev EXCEPT ![p] = @ + 1]
    /\ knows' = [knows EXCEPT ![p] = [q \in Persons |-> IF q = p THEN dev[p] + 1 ELSE 0]]
    /\ trusts' = [trusts EXCEPT ![p] = {}]
    /\ Forget(p)
    /\ got' = [got EXCEPT ![p] = [q \in Persons |-> {}]]
    /\ log' = [log EXCEPT ![p] = {}]
    /\ UNCHANGED <<gen, iter, mail, texts, missed>>

(* q gets the current record of p, from the registry or a card.            *)
Refresh(q, p) ==
    /\ knows[q][p] # dev[p]
    /\ knows' = [knows EXCEPT ![q][p] = dev[p]]
    /\ UNCHANGED <<dev, trusts, groupVars, mailVars, log, texts, missed, bound>>

(* q makes a contact of p, whose record it has.                            *)
AddContact(q, p) ==
    /\ q # p /\ knows[q][p] # 0 /\ p \notin trusts[q]
    /\ trusts' = [trusts EXCEPT ![q] = @ \cup {p}]
    /\ UNCHANGED <<dev, knows, groupVars, mailVars, log, texts, missed, bound>>

Command(p) ==
    \/ /\ p \in Founders
       /\ \E ms \in SUBSET Persons : \E qs \in SUBSET (ms \ {p}) :
            Create(p, ms, qs) \/ CreateTorn(p, ms, qs)
    \/ \E q \in Persons \ members[p] :
         \E qs \in SUBSET Targets(p, members[p] \cup {q}) :
            Add(p, q, qs) \/ AddTorn(p, q, qs)
    \/ \E ks \in SUBSET Unshared(p), qs \in SUBSET Targets(p, members[p]) :
         Send(p, ks, qs) \/ SendTorn(p, ks, qs)
    \/ \E ks \in SUBSET Unshared(p) : SendTornKeys(p, ks)
    \/ \E qs \in SUBSET Targets(p, members[p]) : Leave(p, qs) \/ LeaveTorn(p, qs)

Next ==
    \/ \E p \in Persons : Command(p) \/ Move(p)
    \/ \E q, p \in Persons : Refresh(q, p) \/ AddContact(q, p)
    \/ \E q, p \in Persons : \E n \in 1 .. Len(mail[p][q]) : Accept(q, p, n)

Spec == Init /\ [][Next]_vars
-----------------------------------------------------------------------------
Sent(p, q, kind) == {m \in {mail[p][q][n] : n \in 1 .. Len(mail[p][q])} : m.kind = kind}

(* A position of a sender key encrypts one text: the chain never goes      *)
(* back, not even when a send is cut short (group_send saves the advanced  *)
(* chain before the first copy goes out).                                  *)
PositionsOnce == \A p, q, r \in Persons :
    \A s \in Sent(p, q, "text"), t \in Sent(p, r, "text") :
        s.gen = t.gen /\ s.iter = t.iter => s.id = t.id

(* A text goes to a device that was not sent the key to read it with, from *)
(* a position at or before the text, only when this very send tried to     *)
(* share the key and could not: not after a device was replaced, a key was *)
(* rotated, a send was cut short, or an earlier share failed, which is     *)
(* never noted (distribute_key_inner, key_shares).                         *)
KeyBeforeText == \A p, q \in Persons : \A t \in Sent(p, q, "text") :
    \/ \E i \in Sent(p, q, "invite") :
         i.todev = t.todev /\ i.gen = t.gen /\ i.iter <= t.iter
    \/ [by |-> p, user |-> q, dev |-> t.todev, gen |-> t.gen, iter |-> t.iter]
         \in missed

(* Whoever is not a member (any more) was never sent the sender key that   *)
(* is in use now (recv_group_leave rotates, group_add saves the member     *)
(* before the key goes out).                                               *)
FormerCannotRead == \A p \in joined, q \in Persons :
    q # p /\ q \notin members[p] =>
        \A i \in Sent(p, q, "invite") : i.gen # gen[p]

(* Nothing that was sent will be accepted any more.                        *)
Quiet == \A p, q \in Persons : \A n \in (1 .. Len(mail[p][q])) \ got[q][p] :
    LET m == mail[p][q][n] IN
    IF m.kind = "text" THEN ~ Readable(q, p, m)
    ELSE m.dev < knows[q][p] \/ (q \in joined /\ p \notin members[q])

(* Everybody has everybody as a contact.                                   *)
AllFriends == \A p, q \in Persons : p # q => <<p, q>> \in Friends

(* Members find each other: when everybody has everybody as a contact,     *)
(* then however additions and invitations cross, once all have arrived     *)
(* everyone that a member counts as one has joined, agrees on who is in    *)
(* the group, and has that member's key in use, at a position that is not  *)
(* past the one used next (recv_group_invite: newcomers).  Whoever does    *)
(* not trust a newcomer sends it no key, and may not be found by it.       *)
MembersAgree ==
    AllFriends /\ Quiet /\ calm =>
      \A p \in joined : \A q \in members[p] \ {p} :
        /\ q \in joined /\ members[q] = members[p]
        /\ keys[q][p] # None
        /\ keys[q][p].gen = gen[p] /\ keys[q][p].iter <= iter[p]

(* A member that holds the key of a text it was sent can read the text     *)
(* when it arrives.                                                        *)
HoldersCanRead == \A p, q \in Persons : \A n \in (1 .. Len(mail[p][q])) \ got[q][p] :
    LET m == mail[p][q][n] IN
    m.kind = "text" /\ q \in joined /\ keys[q][p] \notin {None} =>
        (keys[q][p].gen = m.gen => HasMessageKey(keys[q][p], m.iter))
=============================================================================
