-------------------------- MODULE GroupChat_proof --------------------------
(***************************************************************************)
(* Proofs about GroupChat, for any number of people and any bounds.        *)
(*                                                                         *)
(* Every step of a person p changes what p has sent, p's sender key, and   *)
(* whom p counts as members and as holders of its key, in a way that the   *)
(* action Effect describes: keys only go out under the key and position    *)
(* that are in use after the step and to members, a text uses up its       *)
(* position, and a holder is noted together with the item that makes it    *)
(* one.  GroupInv is preserved by Effect (the lemma EffectKeeps), and each *)
(* action of the model is an Effect.                                       *)
(*                                                                         *)
(* That members find each other rests on CalmInv.  Its main part says who  *)
(* told whom of a member: people have ranks, and whoever is not a member   *)
(* from the start was added by somebody of a lower rank.  Each action is a *)
(* Grow of one person's members, together with what it Takes.              *)
(***************************************************************************)
EXTENDS GroupChat, SequenceTheorems, WellFoundedInduction, TLAPS

(* What p has sent to q.                                                   *)
Items(p, q) == {mail[p][q][n] : n \in 1 .. Len(mail[p][q])}

(* Nothing has been sent under a later key or a later position.            *)
PastInv == \A p, q \in Persons : \A m \in Items(p, q) :
    m.kind \in {"invite", "text"} =>
        /\ m.gen <= gen[p]
        /\ m.kind = "text" /\ m.gen = gen[p] => m.iter < iter[p]

(* Whoever is noted as holder of the key in use was sent it, at a position *)
(* not after the one in use.                                               *)
ShareInv == \A p \in Persons : \A s \in shares[p] :
    /\ s.gen <= gen[p]
    /\ s.gen = gen[p] => \E i \in Items(p, s.user) :
         i.kind = "invite" /\ i.todev = s.dev /\ i.gen = s.gen /\ i.iter <= iter[p]

OnceInv == \A p, q, r \in Persons : \A s \in Items(p, q), t \in Items(p, r) :
    s.kind = "text" /\ t.kind = "text" /\ s.gen = t.gen /\ s.iter = t.iter => s.id = t.id

(* The send of text t to q could not give q's device the key.              *)
MissOf(p, q, t) == [by |-> p, user |-> q, dev |-> t.todev, gen |-> t.gen, iter |-> t.iter]

KeyInv == \A p, q \in Persons : \A t \in Items(p, q) : t.kind = "text" =>
    \/ \E i \in Items(p, q) :
          i.kind = "invite" /\ i.todev = t.todev /\ i.gen = t.gen /\ i.iter <= t.iter
    \/ MissOf(p, q, t) \in missed

FormerInv == \A p \in joined, q \in Persons :
    q # p /\ q \notin members[p] =>
        \A i \in Items(p, q) : i.kind = "invite" => i.gen # gen[p]

GroupInv == TypeOK /\ PastInv /\ ShareInv /\ OnceInv /\ KeyInv /\ FormerInv

(* What p has sent grows by new[q] for each q, and lists keep their order. *)
Adds(p, new) == \A r, q \in Persons :
    /\ Items(r, q)' = IF r = p THEN Items(r, q) \cup new[q] ELSE Items(r, q)
    /\ \A n \in 1 .. Len(mail[r][q]) :
         n \in 1 .. Len(mail'[r][q]) /\ mail'[r][q][n] = mail[r][q][n]

(* The steps of p, as far as sender keys are concerned.                    *)
Effect(p, new) ==
    /\ Adds(p, new) /\ missed \subseteq missed'
    /\ \A r \in Persons \ {p} :
         /\ gen'[r] = gen[r] /\ iter'[r] = iter[r] /\ shares'[r] = shares[r]
         /\ r \in joined' => r \in joined /\ members'[r] = members[r]
    /\ gen'[p] > gen[p] \/ (gen'[p] = gen[p] /\ iter'[p] >= iter[p])
    /\ p \in joined' /\ gen'[p] = gen[p] => p \in joined /\ members[p] \subseteq members'[p]
    /\ \A q \in Persons : \A m \in new[q] :
         /\ m \in Item
         /\ m.kind = "invite" =>
              m.gen = gen'[p] /\ m.iter <= iter'[p] /\ (p \in joined' => q \in members'[p])
         /\ m.kind = "text" =>
              /\ m.gen = gen[p] /\ m.gen = gen'[p]
              /\ m.iter = iter[p] /\ iter'[p] = iter[p] + 1 /\ m.id = texts + 1
              /\ \/ \E i \in Items(p, q) \cup new[q] :
                      i.kind = "invite" /\ i.todev = m.todev /\ i.gen = m.gen /\ i.iter <= m.iter
                 \/ MissOf(p, q, m) \in missed'
    /\ \A s \in shares'[p] :
         \/ s \in shares[p]
         \/ s.gen = gen'[p] /\ \E i \in new[s.user] : i.kind = "invite" /\ i.todev = s.dev
-----------------------------------------------------------------------------
(* The steps of p preserve what is true of the keys of all.                *)
LEMMA EffectKeeps ==
    ASSUME GroupInv, TypeOK', NEW p \in Persons, NEW new, Effect(p, new)
    PROVE  GroupInv'
<1>0. TypeOK /\ PastInv /\ ShareInv /\ OnceInv /\ KeyInv /\ FormerInv
  BY DEF GroupInv
<1>t. \A r, q \in Persons : \A m \in Items(r, q) : m \in Item
  <2> SUFFICES ASSUME NEW r \in Persons, NEW q \in Persons, NEW n \in 1 .. Len(mail[r][q])
               PROVE  mail[r][q][n] \in Item
    BY DEF Items
  <2>1. mail[r][q] \in Seq(Item)
    BY <1>0 DEF TypeOK
  <2>2. QED
    BY <2>1, ElementOfSeq
<1>n. /\ gen \in [Persons -> Nat] /\ gen' \in [Persons -> Nat]
      /\ iter \in [Persons -> Nat] /\ iter' \in [Persons -> Nat]
      /\ shares \in [Persons -> SUBSET Share] /\ shares' \in [Persons -> SUBSET Share]
  BY <1>0 DEF TypeOK
<1>i. \A r, q \in Persons :
        Items(r, q)' = IF r = p THEN Items(r, q) \cup new[q] ELSE Items(r, q)
  BY DEF Effect, Adds
<1>r. \A r \in Persons \ {p} :
        /\ gen'[r] = gen[r] /\ iter'[r] = iter[r] /\ shares'[r] = shares[r]
        /\ r \in joined' => r \in joined /\ members'[r] = members[r]
  BY DEF Effect
<1>p. /\ gen'[p] > gen[p] \/ (gen'[p] = gen[p] /\ iter'[p] >= iter[p])
      /\ p \in joined' /\ gen'[p] = gen[p] => p \in joined /\ members[p] \subseteq members'[p]
  BY DEF Effect
<1>m. \A q \in Persons : \A m \in new[q] :
        /\ m \in Item
        /\ m.kind = "invite" =>
              m.gen = gen'[p] /\ m.iter <= iter'[p] /\ (p \in joined' => q \in members'[p])
        /\ m.kind = "text" =>
              /\ m.gen = gen[p] /\ m.gen = gen'[p]
              /\ m.iter = iter[p] /\ iter'[p] = iter[p] + 1 /\ m.id = texts + 1
              /\ \/ \E i \in Items(p, q) \cup new[q] :
                      i.kind = "invite" /\ i.todev = m.todev /\ i.gen = m.gen /\ i.iter <= m.iter
                 \/ MissOf(p, q, m) \in missed'
  BY DEF Effect
<1>s. \A s \in shares'[p] :
         \/ s \in shares[p]
         \/ s.gen = gen'[p] /\ \E i \in new[s.user] : i.kind = "invite" /\ i.todev = s.dev
  BY DEF Effect
<1>1. PastInv'
  <2> SUFFICES ASSUME NEW r \in Persons, NEW q \in Persons, NEW m \in Items(r, q)',
                      m.kind \in {"invite", "text"}
               PROVE  m.gen <= gen'[r] /\ (m.kind = "text" /\ m.gen = gen'[r] => m.iter < iter'[r])
    BY DEF PastInv
  <2>1. CASE r # p
    BY <1>0, <1>i, <1>r, <2>1 DEF PastInv
  <2>2. CASE r = p /\ m \in Items(p, q)
    <3>1. m.gen \in Nat /\ m.iter \in Nat
      BY <1>t, <2>2 DEF Item
    <3>2. m.gen <= gen[p] /\ (m.kind = "text" /\ m.gen = gen[p] => m.iter < iter[p])
      BY <1>0, <2>2 DEF PastInv
    <3>3. QED
      BY <1>n, <1>p, <2>2, <3>1, <3>2
  <2>3. CASE r = p /\ m \in new[q]
    <3>1. m.gen \in Nat /\ m.iter \in Nat
      BY <1>m, <2>3 DEF Item
    <3>2. QED
      BY <1>n, <1>m, <2>3, <3>1
  <2>4. QED
    BY <1>i, <2>1, <2>2, <2>3
<1>2. ShareInv'
  <2> SUFFICES ASSUME NEW r \in Persons, NEW s \in shares'[r]
               PROVE  /\ s.gen <= gen'[r]
                      /\ s.gen = gen'[r] => \E i \in Items(r, s.user)' :
                           /\ i.kind = "invite" /\ i.todev = s.dev
                           /\ i.gen = s.gen /\ i.iter <= iter'[r]
    BY DEF ShareInv
  <2>0. s \in Share /\ s.gen \in Nat /\ s.user \in Persons
    BY <1>n DEF Share
  <2>1. CASE r # p
    BY <1>0, <1>i, <1>r, <2>0, <2>1 DEF ShareInv
  <2>2. CASE r = p /\ s \in shares[p]
    <3>1. s.gen <= gen[p]
      BY <1>0, <2>2 DEF ShareInv
    <3>2. s.gen <= gen'[p]
      BY <1>n, <1>p, <2>0, <3>1
    <3>3. ASSUME s.gen = gen'[p]
          PROVE  \E i \in Items(p, s.user)' :
                   i.kind = "invite" /\ i.todev = s.dev /\ i.gen = s.gen /\ i.iter <= iter'[p]
      <4>1. gen'[p] = gen[p] /\ iter'[p] >= iter[p]
        BY <1>n, <1>p, <2>0, <3>1, <3>3
      <4>2. PICK i \in Items(p, s.user) :
              i.kind = "invite" /\ i.todev = s.dev /\ i.gen = s.gen /\ i.iter <= iter[p]
        BY <1>0, <2>2, <3>3, <4>1 DEF ShareInv
      <4>3. i.iter \in Nat
        BY <1>t, <2>0, <4>2 DEF Item
      <4>4. i.iter <= iter'[p]
        BY <1>n, <4>1, <4>2, <4>3
      <4>5. QED
        BY <1>i, <2>0, <4>2, <4>4
    <3>4. QED
      BY <2>2, <3>2, <3>3
  <2>3. CASE r = p /\ s.gen = gen'[p] /\ \E i \in new[s.user] : i.kind = "invite" /\ i.todev = s.dev
    BY <1>n, <1>i, <1>m, <2>0, <2>3
  <2>4. QED
    BY <1>s, <2>1, <2>2, <2>3
<1>3. OnceInv'
  <2> SUFFICES ASSUME NEW r \in Persons, NEW q \in Persons, NEW u \in Persons,
                      NEW s \in Items(r, q)', NEW t \in Items(r, u)',
                      s.kind = "text" /\ t.kind = "text" /\ s.gen = t.gen /\ s.iter = t.iter
               PROVE  s.id = t.id
    BY DEF OnceInv
  <2>1. CASE r # p
    BY <1>0, <1>i, <2>1 DEF OnceInv
  <2>2. CASE r = p /\ s \in Items(p, q) /\ t \in Items(p, u)
    BY <1>0, <2>2 DEF OnceInv
  <2>3. CASE r = p /\ s \in new[q] /\ t \in new[u]
    BY <1>m, <2>3
  <2>4. ASSUME NEW x \in Persons, NEW y \in Persons, NEW v \in Items(p, x), NEW w \in new[y],
               v.kind = "text", w.kind = "text", v.gen = w.gen, v.iter = w.iter
        PROVE  FALSE
    <3>1. w.gen = gen[p] /\ w.iter = iter[p]
      BY <1>m, <2>4
    <3>2. v.iter < iter[p]
      BY <1>0, <2>4, <3>1 DEF PastInv
    <3>3. QED
      BY <1>n, <2>4, <3>1, <3>2
  <2>5. QED
    BY <1>i, <2>1, <2>2, <2>3, <2>4
<1>4. KeyInv'
  <2> SUFFICES ASSUME NEW r \in Persons, NEW q \in Persons, NEW t \in Items(r, q)',
                      t.kind = "text"
               PROVE  \/ \E i \in Items(r, q)' :
                           i.kind = "invite" /\ i.todev = t.todev /\ i.gen = t.gen /\ i.iter <= t.iter
                      \/ MissOf(r, q, t) \in missed'
    BY DEF KeyInv, MissOf
  <2>0. missed \subseteq missed'
    BY DEF Effect
  <2>1. CASE t \in Items(r, q)
    BY <1>0, <1>i, <2>0, <2>1 DEF KeyInv
  <2>2. CASE r = p /\ t \in new[q]
    BY <1>m, <1>i, <2>2
  <2>3. QED
    BY <1>i, <2>1, <2>2
<1>5. FormerInv'
  <2> SUFFICES ASSUME NEW r \in joined', NEW q \in Persons, q # r, q \notin members'[r],
                      NEW i \in Items(r, q)', i.kind = "invite"
               PROVE  i.gen # gen'[r]
    BY DEF FormerInv
  <2>0. r \in Persons
    BY DEF TypeOK
  <2>1. CASE r # p
    BY <1>0, <1>i, <1>r, <2>0, <2>1 DEF FormerInv
  <2>2. CASE r = p
    <3>1. i \in Items(p, q)
      BY <1>i, <1>m, <2>0, <2>2
    <3>2. i.gen <= gen[p] /\ i.gen \in Nat
      BY <1>0, <1>t, <3>1 DEF PastInv, Item
    <3>3. CASE gen'[p] > gen[p]
      BY <1>n, <2>2, <3>2, <3>3
    <3>4. CASE gen'[p] = gen[p]
      BY <1>0, <1>p, <2>2, <3>1, <3>4 DEF FormerInv
    <3>5. QED
      BY <1>p, <3>3, <3>4
  <2>3. QED
    BY <2>1, <2>2
<1>6. QED
  BY <1>1, <1>2, <1>3, <1>4, <1>5 DEF GroupInv
-----------------------------------------------------------------------------
(* Lists of items that grow at their ends.                                 *)
MailTyped == mail \in [Persons -> [Persons -> Seq(Item)]]

(* The items of a list, and a list of item[q] if q is in qs.               *)
ItemsOf(s) == {s[n] : n \in 1 .. Len(s)}
Maybe(qs, item) == [q \in Persons |-> IF q \in qs THEN <<item[q]>> ELSE << >>]

(* Such a list and its items.                                              *)
LEMMA MaybeItems ==
    ASSUME NEW qs \in SUBSET Persons, NEW item \in [Persons -> Item], NEW q \in Persons
    PROVE  /\ Maybe(qs, item)[q] \in Seq(Item)
           /\ ItemsOf(Maybe(qs, item)[q]) = IF q \in qs THEN {item[q]} ELSE {}
           /\ q \notin qs => Maybe(qs, item)[q] = << >>
<1>1. CASE q \in qs
  <2>1. Maybe(qs, item)[q] = <<item[q]>> /\ item[q] \in Item
    BY <1>1 DEF Maybe
  <2>2. <<item[q]>> \in Seq(Item) /\ Len(<<item[q]>>) = 1 /\ <<item[q]>>[1] = item[q]
    BY <2>1
  <2>3. ItemsOf(<<item[q]>>) = {item[q]}
    BY <2>2 DEF ItemsOf
  <2>4. QED
    BY <1>1, <2>1, <2>2, <2>3
<1>2. CASE q \notin qs
  <2>1. Maybe(qs, item)[q] = << >>
    BY <1>2 DEF Maybe
  <2>2. << >> \in Seq(Item) /\ Len(<< >>) = 0
    OBVIOUS
  <2>3. ItemsOf(<< >>) = {}
    BY <2>2 DEF ItemsOf
  <2>4. QED
    BY <1>2, <2>1, <2>2, <2>3
<1>3. QED
  BY <1>1, <1>2

(* Appending adds the items of the second list.                            *)
LEMMA ConcatItems ==
    ASSUME NEW s \in Seq(Item), NEW t \in Seq(Item)
    PROVE  s \o t \in Seq(Item) /\ ItemsOf(s \o t) = ItemsOf(s) \cup ItemsOf(t)
<1>1. /\ Len(s \o t) = Len(s) + Len(t) /\ Len(s) \in Nat /\ Len(t) \in Nat
      /\ \A i \in 1 .. Len(s) + Len(t) :
           (s \o t)[i] = IF i <= Len(s) THEN s[i] ELSE t[i - Len(s)]
      /\ s \o t \in Seq(Item)
  BY ConcatProperties, LenProperties
<1>2. ASSUME NEW i \in 1 .. Len(s) + Len(t)
      PROVE  (s \o t)[i] \in ItemsOf(s) \cup ItemsOf(t)
  <2>1. CASE i <= Len(s)
    BY <1>1, <2>1 DEF ItemsOf
  <2>2. CASE ~ (i <= Len(s))
    <3>1. i - Len(s) \in 1 .. Len(t)
      BY <1>1, <2>2
    <3>2. QED
      BY <1>1, <2>2, <3>1 DEF ItemsOf
  <2>3. QED
    BY <2>1, <2>2
<1>3. ASSUME NEW k \in 1 .. Len(s)
      PROVE  k \in 1 .. Len(s) + Len(t) /\ (s \o t)[k] = s[k]
  BY <1>1
<1>4. ASSUME NEW k \in 1 .. Len(t)
      PROVE  k + Len(s) \in 1 .. Len(s) + Len(t) /\ (s \o t)[k + Len(s)] = t[k]
  BY <1>1
<1>5. ItemsOf(s \o t) = {(s \o t)[i] : i \in 1 .. Len(s) + Len(t)}
  BY <1>1 DEF ItemsOf
<1>6. QED
  BY <1>1, <1>2, <1>3, <1>4, <1>5 DEF ItemsOf

(* Appending to the lists of p adds the appended items.                    *)
LEMMA GrownAdds ==
    ASSUME MailTyped, NEW p \in Persons, NEW g \in [Persons -> Seq(Item)],
           mail' = [mail EXCEPT ![p] = [q \in Persons |-> mail[p][q] \o g[q]]]
    PROVE  MailTyped' /\ Adds(p, [q \in Persons |-> ItemsOf(g[q])])
<1>1. ASSUME NEW q \in Persons
      PROVE  /\ mail'[p][q] = mail[p][q] \o g[q]
             /\ mail[p][q] \in Seq(Item) /\ g[q] \in Seq(Item)
  BY DEF MailTyped
<1>2. ASSUME NEW r \in Persons, r # p, NEW q \in Persons
      PROVE  mail'[r][q] = mail[r][q]
  BY <1>2 DEF MailTyped
<1>3. MailTyped'
  <2>1. [q \in Persons |-> mail[p][q] \o g[q]] \in [Persons -> Seq(Item)]
    BY <1>1, ConcatItems
  <2>2. QED
    BY <2>1 DEF MailTyped
<1>4. ASSUME NEW q \in Persons
      PROVE  Items(p, q)' = Items(p, q) \cup ItemsOf(g[q])
  <2>1. ItemsOf(mail[p][q] \o g[q]) = ItemsOf(mail[p][q]) \cup ItemsOf(g[q])
    BY <1>1, ConcatItems
  <2>2. Items(p, q) = ItemsOf(mail[p][q]) /\ Items(p, q)' = ItemsOf(mail'[p][q])
    BY DEF Items, ItemsOf
  <2>3. QED
    BY <1>1, <2>1, <2>2
<1>5. ASSUME NEW r \in Persons, r # p, NEW q \in Persons
      PROVE  Items(r, q)' = Items(r, q)
  BY <1>2, <1>5 DEF Items
<1>6. ASSUME NEW r \in Persons, NEW q \in Persons, NEW n \in 1 .. Len(mail[r][q])
      PROVE  n \in 1 .. Len(mail'[r][q]) /\ mail'[r][q][n] = mail[r][q][n]
  <2>1. CASE r = p
    <3>1. PICK s \in Seq(Item) : s = mail[p][q]
      BY <1>1
    <3>2. PICK t \in Seq(Item) : t = g[q]
      BY <1>1
    <3>3. /\ Len(s \o t) = Len(s) + Len(t) /\ Len(s) \in Nat /\ Len(t) \in Nat
          /\ \A i \in 1 .. Len(s) + Len(t) :
               (s \o t)[i] = IF i <= Len(s) THEN s[i] ELSE t[i - Len(s)]
      BY ConcatProperties, LenProperties
    <3>4. mail'[r][q] = s \o t /\ mail[r][q] = s /\ n \in 1 .. Len(s)
      BY <1>1, <2>1, <3>1, <3>2
    <3>5. QED
      BY <3>3, <3>4
  <2>2. CASE r # p
    BY <1>2, <2>2
  <2>3. QED
    BY <2>1, <2>2
<1>7. QED
  BY <1>3, <1>4, <1>5, <1>6 DEF Adds

(* Mail that is left alone adds nothing.                                   *)
LEMMA SameAdds ==
    ASSUME mail' = mail, NEW p \in Persons
    PROVE  Adds(p, [q \in Persons |-> {}])
BY DEF Adds, Items

(* p posts item[q] to each q in qs.                                        *)
Posted(p, qs, item) ==
    mail' = [mail EXCEPT ![p] =
               [q \in Persons |-> IF q \in qs THEN @[q] \o <<item[q]>> ELSE @[q]]]

(* One item for each q in qs.                                              *)
LEMMA PostOne ==
    ASSUME MailTyped, NEW p \in Persons, NEW qs \in SUBSET Persons,
           NEW item \in [Persons -> Item],
           Posted(p, qs, item)
    PROVE  /\ MailTyped'
           /\ Adds(p, [q \in Persons |-> IF q \in qs THEN {item[q]} ELSE {}])
<1> DEFINE g == Maybe(qs, item)
<1>1. g \in [Persons -> Seq(Item)]
  <2>1. g = [q \in Persons |-> g[q]]
    BY DEF Maybe
  <2>2. QED
    BY <2>1, MaybeItems
<1>2. ASSUME NEW q \in Persons
      PROVE  (IF q \in qs THEN mail[p][q] \o <<item[q]>> ELSE mail[p][q]) = mail[p][q] \o g[q]
  <2>1. mail[p][q] \in Seq(Item)
    BY DEF MailTyped
  <2>2. mail[p][q] \o << >> = mail[p][q]
    BY <2>1, ConcatEmptySeq
  <2>3. QED
    BY <2>2 DEF Maybe
<1>3. mail' = [mail EXCEPT ![p] = [q \in Persons |-> mail[p][q] \o g[q]]]
  BY <1>2, Zenon DEF Posted
<1>4. \A q \in Persons : ItemsOf(g[q]) = IF q \in qs THEN {item[q]} ELSE {}
  BY MaybeItems
<1>5. [q \in Persons |-> ItemsOf(g[q])]
        = [q \in Persons |-> IF q \in qs THEN {item[q]} ELSE {}]
  BY <1>4
<1> HIDE DEF g
<1>6. QED
  BY <1>1, <1>3, <1>5, GrownAdds
-----------------------------------------------------------------------------
(* An invitation is an item.                                               *)
LEMMA InviteTyped ==
    ASSUME NEW d \in Nat, NEW td \in Nat, NEW ms \in SUBSET Persons, NEW g \in Nat, NEW n \in Nat
    PROVE  /\ Invite(d, td, ms, g, n) \in Item
           /\ Invite(d, td, ms, g, n).kind = "invite" /\ Invite(d, td, ms, g, n).todev = td
           /\ Invite(d, td, ms, g, n).gen = g /\ Invite(d, td, ms, g, n).iter = n
BY DEF Invite, Item

(* A departure is an item.                                                 *)
LEMMA DepartureTyped ==
    ASSUME NEW d \in Nat, NEW td \in Nat
    PROVE  Departure(d, td) \in Item /\ Departure(d, td).kind = "leave"
BY DEF Departure, Item

(* The invitation of p for each person, when their devices are known, and  *)
(* what p adds when it goes to those in qs.                                *)
Invitation(p, ms, g, n, known) == [q \in Persons |-> Invite(dev[p], known[q], ms, g, n)]
InvitesTo(p, qs, ms, g, n, known) ==
    [q \in Persons |-> IF q \in qs THEN {Invitation(p, ms, g, n, known)[q]} ELSE {}]

(* One invitation for each of qs (distribute_key).                         *)
LEMMA InvitesAdded ==
    ASSUME TypeOK, NEW p \in Persons, NEW qs \in SUBSET Persons, NEW ms \in SUBSET Persons,
           NEW g \in Nat, NEW n \in Nat, NEW known \in [Persons -> Nat],
           Posted(p, qs, Invitation(p, ms, g, n, known))
    PROVE  MailTyped' /\ Adds(p, InvitesTo(p, qs, ms, g, n, known))
<1>1. dev[p] \in Nat /\ MailTyped
  BY DEF TypeOK, MailTyped
<1>2. Invitation(p, ms, g, n, known) \in [Persons -> Item]
  BY <1>1, InviteTyped DEF Invitation
<1>3. QED
  BY <1>1, <1>2, PostOne DEF InvitesTo

(* Only p's part of the group changes.                                     *)
OnlyOf(p) == \A r \in Persons \ {p} :
    /\ gen'[r] = gen[r] /\ iter'[r] = iter[r] /\ shares'[r] = shares[r]
    /\ r \in joined' => r \in joined /\ members'[r] = members[r]

(* Keys that go to members under the key in use, noted or not, are an      *)
(* effect.                                                                 *)
LEMMA InviteEffect ==
    ASSUME TypeOK, NEW p \in Persons, NEW qs \in SUBSET Persons, NEW ms \in SUBSET Persons,
           NEW known \in [Persons -> Nat], NEW n \in Nat,
           OnlyOf(p), missed' = missed, gen'[p] \in Nat, iter'[p] \in Nat, n <= iter'[p],
           Adds(p, InvitesTo(p, qs, ms, gen'[p], n, known)),
           gen'[p] > gen[p] \/ (gen'[p] = gen[p] /\ iter'[p] >= iter[p]),
           p \in joined' /\ gen'[p] = gen[p] => p \in joined /\ members[p] \subseteq members'[p],
           p \in joined' => qs \subseteq members'[p],
           \A s \in shares'[p] :
              s \in shares[p] \/ \E q \in qs : s = [user |-> q, dev |-> known[q], gen |-> gen'[p]]
    PROVE  Effect(p, InvitesTo(p, qs, ms, gen'[p], n, known))
<1> DEFINE new == InvitesTo(p, qs, ms, gen'[p], n, known)
<1>1. ASSUME NEW q \in Persons, NEW m \in new[q]
      PROVE  /\ q \in qs /\ m \in Item /\ m.kind = "invite" /\ m.todev = known[q]
             /\ m.gen = gen'[p] /\ m.iter = n
  <2>1. q \in qs /\ m = Invite(dev[p], known[q], ms, gen'[p], n)
    BY <1>1 DEF InvitesTo, Invitation
  <2>2. dev[p] \in Nat
    BY DEF TypeOK
  <2>3. QED
    BY <2>1, <2>2, InviteTyped
<1>2. ASSUME NEW s \in shares'[p], s \notin shares[p]
      PROVE  s.gen = gen'[p] /\ \E i \in new[s.user] : i.kind = "invite" /\ i.todev = s.dev
  <2>1. PICK q \in qs : s = [user |-> q, dev |-> known[q], gen |-> gen'[p]]
    BY <1>2
  <2>2. new[q] = {Invite(dev[p], known[q], ms, gen'[p], n)}
    BY DEF InvitesTo, Invitation
  <2>3. QED
    BY <1>1, <2>1, <2>2
<1> HIDE DEF new
<1>3. QED
  BY <1>1, <1>2 DEF Effect, OnlyOf, new

(* Both lemmas together.                                                   *)
LEMMA KeysOut ==
    ASSUME TypeOK, NEW p \in Persons, NEW qs \in SUBSET Persons, NEW ms \in SUBSET Persons,
           NEW known \in [Persons -> Nat], NEW g \in Nat, NEW n \in Nat,
           Posted(p, qs, Invitation(p, ms, g, n, known)),
           OnlyOf(p), missed' = missed, gen'[p] = g, iter'[p] \in Nat, n <= iter'[p],
           g > gen[p] \/ (g = gen[p] /\ iter'[p] >= iter[p]),
           p \in joined' /\ g = gen[p] => p \in joined /\ members[p] \subseteq members'[p],
           p \in joined' => qs \subseteq members'[p],
           \A s \in shares'[p] :
              s \in shares[p] \/ \E q \in qs : s = [user |-> q, dev |-> known[q], gen |-> g]
    PROVE  MailTyped' /\ \E new : Effect(p, new)
<1>1. MailTyped' /\ Adds(p, InvitesTo(p, qs, ms, gen'[p], n, known))
  BY InvitesAdded
<1>2. Effect(p, InvitesTo(p, qs, ms, gen'[p], n, known))
  BY <1>1, InviteEffect
<1>3. QED
  BY <1>1, <1>2

(* A step that sends no keys and no texts.                                 *)
LEMMA QuietEffect ==
    ASSUME NEW p \in Persons, NEW new, Adds(p, new),
           \A q \in Persons : \A m \in new[q] : m \in Item /\ m.kind = "leave",
           OnlyOf(p), missed' = missed, gen' = gen, iter' = iter, iter[p] \in Nat,
           shares'[p] \subseteq shares[p], p \in joined' => p \in joined /\ members'[p] = members[p]
    PROVE  Effect(p, new)
BY DEF Effect, OnlyOf

(* The bound.                                                              *)
LEMMA CountTyped ==
    ASSUME TypeOK, NEW change \in Changes, Count(change)
    PROVE  spent' \in Nat /\ calm' \in BOOLEAN
BY CostAssumption DEF Count, TypeOK

(* The bound, when some copies may not have been parked.                   *)
LEMMA ParkedTyped ==
    ASSUME TypeOK, NEW qs, NEW all, Parked(qs, all)
    PROVE  spent' \in Nat /\ calm' \in BOOLEAN
<1>1. CASE qs = all
  BY <1>1 DEF Parked, bound, TypeOK
<1>2. CASE qs # all
  BY <1>2, CountTyped DEF Parked, Changes
<1>3. QED
  BY <1>1, <1>2

(* As long as it is calm, all copies are parked.                           *)
LEMMA ParkedCalm ==
    ASSUME NEW qs, NEW all, Parked(qs, all), calm'
    PROVE  qs = all
BY DEF Parked, Count

(* Noting shares makes shares (note_key_share).                            *)
LEMMA NotedTyped ==
    ASSUME TypeOK, NEW p \in Persons, NEW qs \in SUBSET Persons, NEW g \in Nat,
           NEW known \in SUBSET Share
    PROVE  /\ Noted(known, p, qs, g) \in SUBSET Share
           /\ \A s \in Noted(known, p, qs, g) :
                s \in known \/ \E q \in qs : s = [user |-> q, dev |-> knows[p][q], gen |-> g]
BY DEF Noted, Share, TypeOK
-----------------------------------------------------------------------------
(* group_create, also cut short.                                           *)
LEMMA CreateEffect ==
    ASSUME TypeOK, NEW p \in Persons, NEW ms \in SUBSET Persons, NEW qs \in SUBSET Persons,
           Create(p, ms, qs) \/ CreateTorn(p, ms, qs)
    PROVE  TypeOK' /\ \E new : Effect(p, new)
<1>k. PICK known : known = knows[p]
  OBVIOUS
<1>1. /\ gen' = [gen EXCEPT ![p] = @ + 1] /\ iter' = [iter EXCEPT ![p] = 0]
      /\ joined' = joined \cup {p} /\ members' = [members EXCEPT ![p] = ms]
      /\ UNCHANGED <<dev, knows, trusts, keys, got, log, texts, missed>>
      /\ qs \subseteq ms \ {p}
      /\ shares' = shares \/ shares' = [shares EXCEPT ![p] = Noted({}, p, qs, gen[p] + 1)]
  BY DEF Create, CreateTorn, NewGroup, deviceVars
<1>2. spent' \in Nat /\ calm' \in BOOLEAN
  <2>1. CASE Count("fault")
    BY <2>1, CountTyped DEF Changes
  <2>2. CASE Parked(qs, ms \ {p})
    BY <2>2, ParkedTyped
  <2>3. QED
    BY <2>1, <2>2 DEF Create, CreateTorn
<1>3. gen[p] \in Nat /\ gen'[p] = gen[p] + 1 /\ iter'[p] = 0 /\ members'[p] = ms
  BY <1>1 DEF TypeOK
<1>4. known \in [Persons -> Nat]
  BY <1>k DEF TypeOK
<1>5. Posted(p, qs, Invitation(p, ms, gen[p] + 1, 0, known))
  BY <1>k DEF Create, CreateTorn, Distribute, Post, InviteFor, Posted, Invitation
<1>6. /\ Noted({}, p, qs, gen[p] + 1) \in SUBSET Share
      /\ \A s \in Noted({}, p, qs, gen[p] + 1) :
           \E q \in qs : s = [user |-> q, dev |-> known[q], gen |-> gen[p] + 1]
  <2>1. {} \in SUBSET Share /\ gen[p] + 1 \in Nat
    BY <1>3
  <2>2. QED
    BY <1>k, <2>1, NotedTyped
<1>7. OnlyOf(p)
  BY <1>1 DEF OnlyOf, TypeOK
<1>8. \A s \in shares'[p] : s \in shares[p] \/
        \E q \in qs : s = [user |-> q, dev |-> known[q], gen |-> gen[p] + 1]
  BY <1>1, <1>6 DEF TypeOK
<1>9. MailTyped' /\ \E new : Effect(p, new)
  <2>1. gen[p] + 1 \in Nat /\ 0 <= iter'[p] /\ iter'[p] \in Nat /\ gen[p] + 1 > gen[p]
        /\ qs \subseteq members'[p] /\ gen[p] + 1 # gen[p]
    BY <1>1, <1>3
  <2>2. QED
    BY <1>1, <1>3, <1>4, <1>5, <1>7, <1>8, <2>1, KeysOut
<1>10. TypeOK'
  <2>1. gen' \in [Persons -> Nat] /\ iter' \in [Persons -> Nat]
    BY <1>1 DEF TypeOK
  <2>2. shares' \in [Persons -> SUBSET Share]
    BY <1>1, <1>6 DEF TypeOK
  <2>3. joined' \subseteq Persons /\ members' \in [Persons -> SUBSET Persons]
    BY <1>1 DEF TypeOK
  <2>4. QED
    BY <1>1, <1>2, <1>9, <2>1, <2>2, <2>3 DEF TypeOK, MailTyped
<1>11. QED
  BY <1>9, <1>10

(* group_add, also cut short.                                              *)
LEMMA AddEffect ==
    ASSUME TypeOK, NEW p \in Persons, NEW q \in Persons, NEW qs \in SUBSET Persons,
           Add(p, q, qs) \/ AddTorn(p, q, qs)
    PROVE  TypeOK' /\ \E new : Effect(p, new)
<1>k. PICK known : known = knows[p]
  OBVIOUS
<1>m. PICK ms : ms = members[p] \cup {q}
  OBVIOUS
<1>1. /\ UNCHANGED <<dev, knows, trusts, joined, gen, iter, keys, got, log, texts, missed>>
      /\ members' = [members EXCEPT ![p] = ms] /\ p \in joined
      /\ qs \subseteq Targets(p, ms)
      /\ shares' = shares \/ shares' = [shares EXCEPT ![p] = Noted(@, p, qs, gen[p])]
  BY <1>m DEF Add, AddTorn, AddMember, deviceVars
<1>2. spent' \in Nat /\ calm' \in BOOLEAN
  BY CountTyped DEF Add, AddTorn, Changes
<1>3. gen[p] \in Nat /\ iter[p] \in Nat /\ members'[p] = ms /\ ms \in SUBSET Persons
      /\ members[p] \subseteq ms /\ qs \subseteq ms
  BY <1>1, <1>m DEF TypeOK, Targets
<1>4. known \in [Persons -> Nat]
  BY <1>k DEF TypeOK
<1>5. Posted(p, qs, Invitation(p, ms, gen[p], iter[p], known))
  BY <1>k, <1>m DEF Add, AddTorn, Distribute, Post, InviteFor, Posted, Invitation
<1>6. /\ Noted(shares[p], p, qs, gen[p]) \in SUBSET Share
      /\ \A s \in Noted(shares[p], p, qs, gen[p]) : s \in shares[p] \/
           \E r \in qs : s = [user |-> r, dev |-> known[r], gen |-> gen[p]]
  <2>1. shares[p] \in SUBSET Share
    BY DEF TypeOK
  <2>2. QED
    BY <1>3, <1>k, <2>1, NotedTyped
<1>7. OnlyOf(p)
  BY <1>1 DEF OnlyOf, TypeOK
<1>8. \A s \in shares'[p] : s \in shares[p] \/
        \E r \in qs : s = [user |-> r, dev |-> known[r], gen |-> gen[p]]
  BY <1>1, <1>6 DEF TypeOK
<1>9. MailTyped' /\ \E new : Effect(p, new)
  <2>1. gen'[p] = gen[p] /\ iter'[p] = iter[p] /\ iter[p] <= iter'[p] /\ iter'[p] >= iter[p]
    BY <1>1, <1>3
  <2>2. QED
    BY <1>1, <1>3, <1>4, <1>5, <1>7, <1>8, <2>1, KeysOut
<1>10. TypeOK'
  <2>1. shares' \in [Persons -> SUBSET Share]
    BY <1>1, <1>6 DEF TypeOK
  <2>2. members' \in [Persons -> SUBSET Persons]
    BY <1>1, <1>3 DEF TypeOK
  <2>3. QED
    BY <1>1, <1>2, <1>9, <2>1, <2>2 DEF TypeOK, MailTyped
<1>11. QED
  BY <1>9, <1>10

(* group_send, cut short while the key goes out.                           *)
LEMMA SendKeysEffect ==
    ASSUME TypeOK, NEW p \in Persons, NEW qs \in SUBSET Persons, SendTornKeys(p, qs)
    PROVE  TypeOK' /\ \E new : Effect(p, new)
<1>k. PICK known : known = knows[p]
  OBVIOUS
<1>1. /\ UNCHANGED <<dev, knows, trusts, joined, members, shares, gen, iter, keys, got,
                     log, texts, missed>>
      /\ p \in joined /\ qs \subseteq members[p]
  BY DEF SendTornKeys, Unshared, Targets, deviceVars, groupVars
<1>2. spent' \in Nat /\ calm' \in BOOLEAN
  BY CountTyped DEF SendTornKeys, Changes
<1>3. gen[p] \in Nat /\ iter[p] \in Nat /\ members[p] \in SUBSET Persons
  BY DEF TypeOK
<1>4. known \in [Persons -> Nat]
  BY <1>k DEF TypeOK
<1>5. Posted(p, qs, Invitation(p, members[p], gen[p], iter[p], known))
  BY <1>k DEF SendTornKeys, Distribute, Post, InviteFor, Posted, Invitation
<1>6. OnlyOf(p)
  BY <1>1 DEF OnlyOf
<1>7. gen'[p] = gen[p] /\ iter'[p] = iter[p] /\ iter[p] <= iter'[p] /\ iter'[p] >= iter[p]
      /\ members'[p] = members[p] /\ shares'[p] = shares[p]
  BY <1>1, <1>3
<1>8. MailTyped' /\ \E new : Effect(p, new)
  BY <1>1, <1>3, <1>4, <1>5, <1>6, <1>7, KeysOut
<1>9. TypeOK'
  BY <1>1, <1>2, <1>8 DEF TypeOK, MailTyped
<1>10. QED
  BY <1>8, <1>9
-----------------------------------------------------------------------------
(* What p adds when it posts a[q] to those in us and then b[q] to those in *)
(* qs.                                                                     *)
Both(us, a, qs, b) == [q \in Persons |->
    (IF q \in us THEN {a[q]} ELSE {}) \cup (IF q \in qs THEN {b[q]} ELSE {})]
PostedBoth(p, to, us, a, qs, b) ==
    mail' = [mail EXCEPT ![p] = [q \in Persons |->
               IF q \in to THEN @[q] \o (Maybe(us, a)[q] \o Maybe(qs, b)[q]) ELSE @[q]]]

(* Two posts in a row add both.                                            *)
LEMMA PostBoth ==
    ASSUME MailTyped, NEW p \in Persons, NEW to \in SUBSET Persons,
           NEW us \in SUBSET to, NEW qs \in SUBSET to,
           NEW a \in [Persons -> Item], NEW b \in [Persons -> Item],
           PostedBoth(p, to, us, a, qs, b)
    PROVE  MailTyped' /\ Adds(p, Both(us, a, qs, b))
<1> DEFINE g == [q \in Persons |-> Maybe(us, a)[q] \o Maybe(qs, b)[q]]
<1>1. ASSUME NEW q \in Persons
      PROVE  /\ Maybe(us, a)[q] \in Seq(Item) /\ Maybe(qs, b)[q] \in Seq(Item)
             /\ ItemsOf(Maybe(us, a)[q]) = IF q \in us THEN {a[q]} ELSE {}
             /\ ItemsOf(Maybe(qs, b)[q]) = IF q \in qs THEN {b[q]} ELSE {}
             /\ q \notin to => Maybe(us, a)[q] = << >> /\ Maybe(qs, b)[q] = << >>
  <2>1. us \in SUBSET Persons /\ qs \in SUBSET Persons
    OBVIOUS
  <2>2. QED
    BY <2>1, MaybeItems
<1>2. ASSUME NEW q \in Persons
      PROVE  /\ Maybe(us, a)[q] \o Maybe(qs, b)[q] \in Seq(Item)
             /\ ItemsOf(Maybe(us, a)[q] \o Maybe(qs, b)[q]) = Both(us, a, qs, b)[q]
  <2>1. /\ Maybe(us, a)[q] \o Maybe(qs, b)[q] \in Seq(Item)
        /\ ItemsOf(Maybe(us, a)[q] \o Maybe(qs, b)[q])
             = ItemsOf(Maybe(us, a)[q]) \cup ItemsOf(Maybe(qs, b)[q])
    BY <1>1, ConcatItems
  <2>2. Both(us, a, qs, b)[q]
          = (IF q \in us THEN {a[q]} ELSE {}) \cup (IF q \in qs THEN {b[q]} ELSE {})
    BY DEF Both
  <2>3. QED
    BY <1>1, <2>1, <2>2
<1>3. g \in [Persons -> Seq(Item)]
  BY <1>2
<1>4. ASSUME NEW q \in Persons
      PROVE  (IF q \in to THEN mail[p][q] \o (Maybe(us, a)[q] \o Maybe(qs, b)[q]) ELSE mail[p][q])
               = mail[p][q] \o g[q]
  <2>1. CASE q \in to
    BY <2>1
  <2>2. CASE q \notin to
    <3>1. g[q] = << >> \o << >>
      BY <1>1, <2>2
    <3>2. << >> \o << >> = << >>
      BY ConcatEmptySeq
    <3>3. mail[p][q] \o << >> = mail[p][q]
      <4>1. mail[p][q] \in Seq(Item)
        BY DEF MailTyped
      <4>2. QED
        BY <4>1, ConcatEmptySeq
    <3>4. QED
      BY <2>2, <3>1, <3>2, <3>3
  <2>3. QED
    BY <2>1, <2>2
<1>5. mail' = [mail EXCEPT ![p] = [q \in Persons |-> mail[p][q] \o g[q]]]
  BY <1>4, Zenon DEF PostedBoth
<1>6. \A q \in Persons : ItemsOf(g[q]) = Both(us, a, qs, b)[q]
  BY <1>2
<1>7. [q \in Persons |-> ItemsOf(g[q])] = Both(us, a, qs, b)
  BY <1>6 DEF Both
<1> HIDE DEF g
<1>8. QED
  BY <1>3, <1>5, <1>7, GrownAdds

(* The text of p for each person.                                          *)
TextFor(p, known) ==
    [q \in Persons |-> Text(dev[p], known[q], gen[p], iter[p], texts + 1)]

(* What group_send posts: the key to those in us, the text to those in qs. *)
LEMMA SendPosts ==
    ASSUME TypeOK, NEW p \in Persons, NEW us, NEW qs, SendCopies(p, us, qs),
           NEW known, known = knows[p],
           NEW a, a = Invitation(p, members[p], gen[p], iter[p], known),
           NEW b, b = TextFor(p, known)
    PROVE  /\ a \in [Persons -> Item] /\ b \in [Persons -> Item]
           /\ \A q \in Persons : b[q] = Text(dev[p], known[q], gen[p], iter[p], texts + 1)
           /\ MailTyped' /\ Adds(p, Both(us, a, qs, b))
<1>o. PICK to : to = Targets(p, members[p])
  OBVIOUS
<1>1. /\ gen[p] \in Nat /\ iter[p] \in Nat /\ members[p] \in SUBSET Persons /\ dev[p] \in Nat
      /\ known \in [Persons -> Nat] /\ texts \in Nat /\ MailTyped
  BY DEF TypeOK, MailTyped
<1>2. to \in SUBSET Persons /\ us \in SUBSET to /\ qs \in SUBSET to
  BY <1>1, <1>o DEF Unshared, Targets, SendCopies
<1>3. a \in [Persons -> Item]
  BY <1>1, InviteTyped DEF Invitation
<1>4. \A q \in Persons : b[q] = Text(dev[p], known[q], gen[p], iter[p], texts + 1)
  BY DEF TextFor
<1>5. b \in [Persons -> Item]
  <2>1. texts + 1 \in Nat
    BY <1>1
  <2>2. ASSUME NEW q \in Persons PROVE b[q] \in Item
    <3>1. b[q] = Text(dev[p], known[q], gen[p], iter[p], texts + 1) /\ known[q] \in Nat
      BY <1>1, <1>4
    <3>2. QED
      BY <1>1, <2>1, <3>1 DEF Text, Item
  <2>3. b = [q \in Persons |-> b[q]]
    BY DEF TextFor
  <2>4. QED
    BY <2>2, <2>3
<1>6. ASSUME NEW q \in Persons
      PROVE  Outgoing(p, q, us, qs) = Maybe(us, a)[q] \o Maybe(qs, b)[q]
  BY DEF Outgoing, Maybe, Invitation, TextFor, InviteFor
<1>7. PostedBoth(p, to, us, a, qs, b)
  <2>1. mail' = [mail EXCEPT ![p] = [q \in Persons |->
                   IF q \in to THEN @[q] \o Outgoing(p, q, us, qs) ELSE @[q]]]
    BY <1>o DEF SendCopies, Post
  <2>2. QED
    BY <1>6, <2>1, Zenon DEF PostedBoth
<1>8. MailTyped' /\ Adds(p, Both(us, a, qs, b))
  BY <1>1, <1>2, <1>3, <1>5, <1>7, PostBoth
<1>9. QED
  BY <1>3, <1>4, <1>5, <1>8

(* group_send, also cut short when the text is going out.                  *)
LEMMA SendEffect ==
    ASSUME GroupInv, NEW p \in Persons, NEW us \in SUBSET Persons, NEW qs \in SUBSET Persons,
           Send(p, us, qs) \/ SendTorn(p, us, qs)
    PROVE  TypeOK' /\ \E new : Effect(p, new)
<1>k. PICK known : known = knows[p]
  OBVIOUS
<1>c. SendCopies(p, us, qs)
  BY DEF Send, SendTorn
<1>o. PICK to : to = Targets(p, members[p])
  OBVIOUS
<1>a. PICK a : a = Invitation(p, members[p], gen[p], iter[p], known)
  OBVIOUS
<1>b. PICK b : b = TextFor(p, known)
  OBVIOUS
<1>0. TypeOK /\ ShareInv
  BY DEF GroupInv
<1>1. /\ UNCHANGED <<dev, knows, trusts, joined, members, gen, keys, got>>
      /\ iter' = [iter EXCEPT ![p] = @ + 1] /\ texts' = texts + 1
      /\ p \in joined /\ qs \subseteq to /\ us \subseteq Unshared(p)
      /\ shares' = [shares EXCEPT ![p] = Noted(@, p, us, gen[p])]
      /\ missed' = missed \cup Misses(p, us, qs)
  BY <1>c, <1>o DEF SendCopies, ShareNoted, deviceVars
<1>l. log' = log \/ log' = [log EXCEPT ![p] = @ \cup {texts + 1}]
  BY DEF Send, SendTorn
<1>2. spent' \in Nat /\ calm' \in BOOLEAN
  BY <1>0, CountTyped DEF Send, SendTorn, Changes
<1>3. /\ gen[p] \in Nat /\ iter[p] \in Nat /\ members[p] \in SUBSET Persons /\ dev[p] \in Nat
      /\ known \in [Persons -> Nat] /\ texts \in Nat /\ MailTyped /\ shares[p] \in SUBSET Share
  BY <1>0, <1>k DEF TypeOK, MailTyped
<1>4. to \in SUBSET members[p] /\ to \in SUBSET Persons /\ us \in SUBSET to
  BY <1>1, <1>3, <1>o DEF Unshared, Targets
<1>5. /\ a \in [Persons -> Item] /\ b \in [Persons -> Item]
      /\ \A q \in Persons : b[q] = Text(dev[p], known[q], gen[p], iter[p], texts + 1)
      /\ MailTyped' /\ Adds(p, Both(us, a, qs, b))
  BY <1>0, <1>c, <1>k, <1>a, <1>b, SendPosts
<1>6. a \in [Persons -> Item] /\ \A q \in Persons :
        a[q].kind = "invite" /\ a[q].todev = known[q] /\ a[q].gen = gen[p] /\ a[q].iter = iter[p]
  BY <1>3, <1>a, InviteTyped DEF Invitation
<1>7. b \in [Persons -> Item] /\ \A q \in Persons :
        /\ b[q].kind = "text" /\ b[q].todev = known[q] /\ b[q].gen = gen[p] /\ b[q].iter = iter[p]
        /\ b[q].id = texts + 1
  BY <1>5 DEF Text
<1>8. PICK new : new = Both(us, a, qs, b)
  OBVIOUS
<1>9. \A q \in Persons : \A m \in new[q] : (q \in us /\ m = a[q]) \/ (q \in qs /\ m = b[q])
  BY <1>8 DEF Both
<1>10. ASSUME NEW q \in qs
       PROVE  \/ \E i \in Items(p, q) \cup new[q] :
                   i.kind = "invite" /\ i.todev = known[q] /\ i.gen = gen[p] /\ i.iter <= iter[p]
              \/ MissOf(p, q, b[q]) \in missed'
  <2>0. q \in Persons /\ q \in to
    BY <1>1, <1>4
  <2>1. CASE q \in us
    <3>1. a[q] \in new[q]
      BY <1>8, <2>0, <2>1 DEF Both
    <3>2. iter[p] <= iter[p]
      BY <1>3
    <3>3. QED
      BY <1>6, <2>0, <3>1, <3>2
  <2>m. CASE q \in Unshared(p) \ us
    <3>1. MissOf(p, q, b[q]) =
            [by |-> p, user |-> q, dev |-> knows[p][q], gen |-> gen[p], iter |-> iter[p]]
      BY <1>7, <1>k, <2>0 DEF MissOf
    <3>2. MissOf(p, q, b[q]) \in Misses(p, us, qs)
      BY <2>m, <3>1 DEF Misses
    <3>3. QED
      BY <1>1, <3>2
  <2>2. CASE q \notin Unshared(p)
    <3>1. KeySharedWith(p, q)
      BY <1>o, <2>0, <2>2 DEF Unshared
    <3>2. PICK s \in shares[p] : s.user = q /\ s.dev = known[q] /\ s.gen = gen[p]
      BY <1>k, <3>1 DEF KeySharedWith
    <3>3. QED
      BY <1>0, <3>2 DEF ShareInv
  <2>3. QED
    BY <2>1, <2>m, <2>2
<1>11. /\ Noted(shares[p], p, us, gen[p]) \in SUBSET Share
       /\ \A s \in Noted(shares[p], p, us, gen[p]) : s \in shares[p] \/
            \E r \in us : s = [user |-> r, dev |-> known[r], gen |-> gen[p]]
  <2>1. us \in SUBSET Persons
    BY <1>4
  <2>2. QED
    BY <1>0, <1>3, <1>k, <2>1, NotedTyped
<1>12. ASSUME NEW s \in shares'[p], s \notin shares[p]
       PROVE  s.gen = gen[p] /\ \E i \in new[s.user] : i.kind = "invite" /\ i.todev = s.dev
  <2>1. PICK r \in us : s = [user |-> r, dev |-> known[r], gen |-> gen[p]]
    BY <1>0, <1>1, <1>11, <1>12 DEF TypeOK
  <2>2. r \in Persons
    BY <1>4
  <2>3. a[r] \in new[r]
    BY <1>8, <2>2 DEF Both
  <2>4. QED
    BY <1>6, <2>1, <2>2, <2>3
<1>13. OnlyOf(p)
  BY <1>0, <1>1 DEF OnlyOf, TypeOK
<1>14. gen'[p] = gen[p] /\ iter'[p] = iter[p] + 1 /\ iter[p] <= iter'[p] /\ iter'[p] >= iter[p]
       /\ members'[p] = members[p]
  BY <1>0, <1>1, <1>3 DEF TypeOK
<1>15. ASSUME NEW q \in Persons, NEW m \in new[q]
       PROVE  /\ m \in Item
              /\ m.kind = "invite" =>
                   m.gen = gen'[p] /\ m.iter <= iter'[p] /\ (p \in joined' => q \in members'[p])
              /\ m.kind = "text" =>
                   /\ m.gen = gen[p] /\ m.gen = gen'[p]
                   /\ m.iter = iter[p] /\ iter'[p] = iter[p] + 1 /\ m.id = texts + 1
                   /\ \/ \E i \in Items(p, q) \cup new[q] :
                           i.kind = "invite" /\ i.todev = m.todev /\ i.gen = m.gen /\ i.iter <= m.iter
                      \/ MissOf(p, q, m) \in missed'
  <2>1. CASE q \in us /\ m = a[q]
    BY <1>4, <1>6, <1>14, <2>1
  <2>2. CASE q \in qs /\ m = b[q]
    BY <1>7, <1>10, <1>14, <2>2
  <2>3. QED
    BY <1>9, <1>15, <2>1, <2>2
<1>16. Effect(p, new)
  <2>1. Adds(p, new) /\ missed \subseteq missed'
    BY <1>1, <1>5, <1>8
  <2>2. \A s \in shares'[p] :
         \/ s \in shares[p]
         \/ s.gen = gen'[p] /\ \E i \in new[s.user] : i.kind = "invite" /\ i.todev = s.dev
    BY <1>12, <1>14
  <2>3. p \in joined' /\ gen'[p] = gen[p] => p \in joined /\ members[p] \subseteq members'[p]
    BY <1>1, <1>14
  <2>4. QED
    BY <1>13, <1>14, <1>15, <2>1, <2>2, <2>3 DEF Effect, OnlyOf
<1>17. TypeOK'
  <2>1. iter' \in [Persons -> Nat] /\ texts' \in Nat
    BY <1>0, <1>1, <1>3 DEF TypeOK
  <2>2. log' \in [Persons -> SUBSET Nat]
    <3>1. texts + 1 \in Nat
      BY <1>3
    <3>2. log \in [Persons -> SUBSET Nat] /\ log[p] \cup {texts + 1} \in SUBSET Nat
      BY <1>0, <3>1 DEF TypeOK
    <3>3. QED
      BY <1>l, <3>2
  <2>3. shares' \in [Persons -> SUBSET Share]
    BY <1>0, <1>1, <1>11 DEF TypeOK
  <2>m. missed' \in SUBSET Miss
    <3>1. \A q \in Persons : knows[p][q] \in Nat
      BY <1>3, <1>k
    <3>2. Misses(p, us, qs) \in SUBSET Miss
      BY <1>3, <3>1 DEF Misses, Miss
    <3>3. QED
      BY <1>0, <1>1, <3>2 DEF TypeOK
  <2>4. QED
    BY <1>0, <1>1, <1>2, <1>5, <2>1, <2>2, <2>3, <2>m DEF TypeOK, MailTyped
<1>18. QED
  BY <1>16, <1>17
-----------------------------------------------------------------------------
(* group_leave, also cut short.                                            *)
LEMMA LeaveEffect ==
    ASSUME TypeOK, NEW p \in Persons, NEW qs \in SUBSET Persons,
           Leave(p, qs) \/ LeaveTorn(p, qs)
    PROVE  TypeOK' /\ \E new : Effect(p, new)
<1>k. PICK known : known = knows[p]
  OBVIOUS
<1>b. PICK bye : bye = [q \in Persons |-> Departure(dev[p], known[q])]
  OBVIOUS
<1>1. /\ UNCHANGED <<dev, knows, trusts, gen, iter, got, log, texts, missed>>
      /\ \/ UNCHANGED <<joined, members, shares, keys>>
         \/ /\ joined' = joined \ {p} /\ members' = [members EXCEPT ![p] = {}]
            /\ shares' = [shares EXCEPT ![p] = {}]
            /\ keys' = [keys EXCEPT ![p] = [q \in Persons |-> None]]
  BY DEF Leave, LeaveTorn, Forget, deviceVars, groupVars
<1>2. spent' \in Nat /\ calm' \in BOOLEAN
  BY CountTyped DEF Leave, LeaveTorn, Changes
<1>3. dev[p] \in Nat /\ iter[p] \in Nat /\ known \in [Persons -> Nat] /\ MailTyped
  BY <1>k DEF TypeOK, MailTyped
<1>4. bye \in [Persons -> Item] /\ \A q \in Persons : bye[q].kind = "leave"
  <2>1. ASSUME NEW q \in Persons
        PROVE  bye[q] \in Item /\ bye[q].kind = "leave"
    <3>1. bye[q] = Departure(dev[p], known[q]) /\ known[q] \in Nat
      BY <1>3, <1>b
    <3>2. QED
      BY <1>3, <3>1, DepartureTyped
  <2>2. bye = [q \in Persons |-> bye[q]]
    BY <1>b
  <2>3. QED
    BY <2>1, <2>2
<1>5. Posted(p, qs, bye)
  BY <1>k, <1>b DEF Leave, LeaveTorn, Post, Posted
<1>6. PICK new : new = [q \in Persons |-> IF q \in qs THEN {bye[q]} ELSE {}]
  OBVIOUS
<1>7. MailTyped' /\ Adds(p, new)
  BY <1>3, <1>4, <1>5, <1>6, PostOne
<1>8. \A q \in Persons : \A m \in new[q] : m \in Item /\ m.kind = "leave"
  BY <1>4, <1>6
<1>9. OnlyOf(p) /\ missed' = missed /\ gen' = gen /\ iter' = iter /\ shares'[p] \subseteq shares[p]
      /\ (p \in joined' => p \in joined /\ members'[p] = members[p])
  BY <1>1 DEF OnlyOf, TypeOK
<1>10. Effect(p, new)
  BY <1>3, <1>7, <1>8, <1>9, QuietEffect
<1>11. TypeOK'
  <2>1. keys' \in [Persons -> [Persons -> Key \cup {None}]]
    <3>1. [q \in Persons |-> None] \in [Persons -> Key \cup {None}]
      OBVIOUS
    <3>2. keys \in [Persons -> [Persons -> Key \cup {None}]]
      BY DEF TypeOK
    <3>3. QED
      BY <1>1, <3>1, <3>2
  <2>2. joined' \subseteq Persons /\ members' \in [Persons -> SUBSET Persons]
        /\ shares' \in [Persons -> SUBSET Share]
    BY <1>1 DEF TypeOK
  <2>3. QED
    BY <1>1, <1>2, <1>7, <2>1, <2>2 DEF TypeOK, MailTyped
<1>12. QED
  BY <1>10, <1>11

(* Steps that send nothing and leave the group of everyone alone, except   *)
(* that p may forget it.                                                   *)
LEMMA SilentEffect ==
    ASSUME TypeOK, NEW p \in Persons, UNCHANGED <<mail, gen, iter, missed>>,
           \/ UNCHANGED <<joined, members, shares>>
           \/ /\ joined' = joined \ {p} /\ members' = [members EXCEPT ![p] = {}]
              /\ shares' = [shares EXCEPT ![p] = {}]
    PROVE  \E new : Effect(p, new)
<1>1. PICK new : new = [q \in Persons |-> {}]
  OBVIOUS
<1>2. Adds(p, new)
  BY <1>1, SameAdds
<1>3. OnlyOf(p) /\ gen' = gen /\ iter' = iter /\ shares'[p] \subseteq shares[p]
      /\ (p \in joined' => p \in joined /\ members'[p] = members[p]) /\ iter[p] \in Nat
  BY DEF OnlyOf, TypeOK
<1>4. \A q \in Persons : \A m \in new[q] : m \in Item /\ m.kind = "leave"
  BY <1>1
<1>5. QED
  BY <1>2, <1>3, <1>4, QuietEffect

(* Another device, a newer record, another contact.                        *)
LEMMA DeviceEffect ==
    ASSUME TypeOK, NEW p \in Persons, NEW q \in Persons,
           Move(p) \/ Refresh(p, q) \/ AddContact(p, q)
    PROVE  TypeOK' /\ \E new : Effect(p, new)
<1>1. CASE Move(p)
  <2>1. /\ UNCHANGED <<mail, gen, iter, texts, missed>>
        /\ joined' = joined \ {p} /\ members' = [members EXCEPT ![p] = {}]
        /\ shares' = [shares EXCEPT ![p] = {}]
    BY <1>1 DEF Move, Forget
  <2>2. \E new : Effect(p, new)
    BY <2>1, SilentEffect
  <2>3. dev' \in [Persons -> Nat]
    BY <1>1 DEF Move, TypeOK
  <2>4. knows' \in [Persons -> [Persons -> Nat]]
    <3>1. dev[p] + 1 \in Nat
      BY DEF TypeOK
    <3>2. [r \in Persons |-> IF r = p THEN dev[p] + 1 ELSE 0] \in [Persons -> Nat]
      BY <3>1
    <3>3. QED
      BY <1>1, <3>2 DEF Move, TypeOK
  <2>5. keys' \in [Persons -> [Persons -> Key \cup {None}]]
    BY <1>1 DEF Move, Forget, TypeOK
  <2>6. got' \in [Persons -> [Persons -> SUBSET Nat]] /\ log' \in [Persons -> SUBSET Nat]
        /\ trusts' \in [Persons -> SUBSET Persons]
    BY <1>1 DEF Move, TypeOK
  <2>7. joined' \subseteq Persons /\ members' \in [Persons -> SUBSET Persons]
        /\ shares' \in [Persons -> SUBSET Share]
    BY <2>1 DEF TypeOK
  <2>8. spent' \in Nat /\ calm' \in BOOLEAN
    BY <1>1, CountTyped DEF Move, Changes
  <2>9. QED
    BY <2>1, <2>2, <2>3, <2>4, <2>5, <2>6, <2>7, <2>8 DEF TypeOK
<1>2. CASE Refresh(p, q)
  <2>1. UNCHANGED <<dev, trusts, joined, members, shares, gen, iter, keys, mail, got, log,
                    texts, missed, spent, calm>>
    BY <1>2 DEF Refresh, groupVars, mailVars, bound
  <2>2. knows' \in [Persons -> [Persons -> Nat]]
    BY <1>2 DEF Refresh, TypeOK
  <2>3. \E new : Effect(p, new)
    BY <2>1, SilentEffect
  <2>4. QED
    BY <2>1, <2>2, <2>3 DEF TypeOK
<1>3. CASE AddContact(p, q)
  <2>1. UNCHANGED <<dev, knows, joined, members, shares, gen, iter, keys, mail, got, log,
                    texts, missed, spent, calm>>
    BY <1>3 DEF AddContact, groupVars, mailVars, bound
  <2>2. trusts' \in [Persons -> SUBSET Persons]
    BY <1>3 DEF AddContact, TypeOK
  <2>3. \E new : Effect(p, new)
    BY <2>1, SilentEffect
  <2>4. QED
    BY <2>1, <2>2, <2>3 DEF TypeOK
<1>4. QED
  BY <1>1, <1>2, <1>3
-----------------------------------------------------------------------------
(* An item that arrives is an item.                                        *)
LEMMA ArrivalTyped ==
    ASSUME TypeOK, NEW p \in Persons, NEW q \in Persons, NEW n \in 1 .. Len(mail[p][q])
    PROVE  mail[p][q][n] \in Item /\ n \in Nat
<1>1. mail[p][q] \in Seq(Item)
  BY DEF TypeOK
<1>2. QED
  BY <1>1, ElementOfSeq, LenProperties

(* What the store of q keeps of an item: that it was accepted, and the     *)
(* record of its sender.                                                   *)
LEMMA AcceptTyped ==
    ASSUME TypeOK, NEW p \in Persons, NEW q \in Persons, NEW n \in Nat, NEW m \in Item
    PROVE  /\ Accepted(q, p, n) => got' \in [Persons -> [Persons -> SUBSET Nat]]
           /\ Remember(q, p, m) => knows' \in [Persons -> [Persons -> Nat]]
           /\ ReceiverKey(m) \in Key
<1>1. ASSUME Accepted(q, p, n) PROVE got' \in [Persons -> [Persons -> SUBSET Nat]]
  <2>1. got[q][p] \cup {n} \in SUBSET Nat
    BY DEF TypeOK
  <2>2. QED
    BY <1>1, <2>1 DEF Accepted, TypeOK
<1>2. ASSUME Remember(q, p, m) PROVE knows' \in [Persons -> [Persons -> Nat]]
  <2>1. m.dev \in Nat
    BY DEF Item
  <2>2. QED
    BY <1>2, <2>1 DEF Remember, TypeOK
<1>3. ReceiverKey(m) \in Key
  BY DEF ReceiverKey, Key, Item
<1>4. QED
  BY <1>1, <1>2, <1>3

(* message_key leaves a receiver key.                                      *)
LEMMA RatchetTyped ==
    ASSUME NEW key \in Key, NEW n \in Nat
    PROVE  Ratcheted(key, n) \in Key
<1>1. key.skipped \ {n} \in SUBSET Nat /\ key.iter \in Nat /\ key.skipped \in SUBSET Nat
  BY DEF Key
<1>2. key.iter .. (n - 1) \subseteq Nat
  BY <1>1
<1>3. Banked(key.skipped \cup (key.iter .. (n - 1))) \in SUBSET Nat
  BY <1>1, <1>2 DEF Banked
<1>4. PICK bank \in SUBSET Nat : bank = Banked(key.skipped \cup (key.iter .. (n - 1)))
  BY <1>3
<1>5. Ratcheted(key, n) = IF n \in key.skipped THEN [key EXCEPT !.skipped = key.skipped \ {n}]
                          ELSE [key EXCEPT !.iter = n + 1, !.skipped = bank]
  BY <1>4 DEF Ratcheted, Key
<1>6. CASE n \in key.skipped
  BY <1>1, <1>5, <1>6 DEF Key
<1>7. CASE n \notin key.skipped
  <2>1. Ratcheted(key, n) = [key EXCEPT !.iter = n + 1, !.skipped = bank] /\ n + 1 \in Nat
    BY <1>5, <1>7
  <2>2. QED
    BY <2>1 DEF Key
<1>8. QED
  BY <1>6, <1>7

(* The key of q goes out with its answer to p (distribute_group_key).      *)
LEMMA ReplyEffect ==
    ASSUME TypeOK, knows' \in [Persons -> [Persons -> Nat]], NEW q \in Persons,
           NEW qs \in SUBSET Persons, NEW ms \in SUBSET Persons, NEW g \in Nat, NEW n \in Nat,
           NEW held \in SUBSET shares[q],
           Reply(q, qs, ms, g, n, held), missed' = missed,
           \A r \in Persons \ {q} :
              /\ gen'[r] = gen[r] /\ iter'[r] = iter[r]
              /\ r \in joined' => r \in joined /\ members'[r] = members[r],
           gen'[q] = g, iter'[q] = n,
           g > gen[q] \/ (g = gen[q] /\ n >= iter[q]),
           g = gen[q] => q \in joined /\ members[q] \subseteq members'[q],
           qs \subseteq members'[q]
    PROVE  /\ MailTyped' /\ shares' \in [Persons -> SUBSET Share]
           /\ spent' \in Nat /\ calm' \in BOOLEAN /\ \E new : Effect(q, new)
<1>k. PICK known : known = knows'[q]
  OBVIOUS
<1>o. PICK to \in SUBSET Reachable(q, qs) :
        /\ Parked(to, Reachable(q, qs))
        /\ Post(q, to, LAMBDA r : <<Invite(dev[q], knows'[q][r], ms, g, n)>>)
        /\ shares' = [shares EXCEPT ![q] =
                        {s \in held : s.user \notin to}
                          \cup {[user |-> r, dev |-> knows'[q][r], gen |-> g] : r \in to}]
  BY Zenon DEF Reply
<1>b. spent' \in Nat /\ calm' \in BOOLEAN
  BY <1>o, ParkedTyped
<1>1. known \in [Persons -> Nat] /\ to \in SUBSET Persons /\ to \subseteq qs
  BY <1>k, <1>o DEF Reachable
<1>2. Posted(q, to, Invitation(q, ms, g, n, known))
  BY <1>k, <1>o DEF Post, Posted, Invitation
<1>3. PICK noted : /\ shares' = [shares EXCEPT ![q] = noted]
                   /\ \A s \in noted : s \in held \/
                        \E r \in to : s = [user |-> r, dev |-> known[r], gen |-> g]
  <2>1. PICK noted :
          /\ shares' = [shares EXCEPT ![q] = noted]
          /\ noted = {s \in held : s.user \notin to}
                       \cup {[user |-> r, dev |-> knows'[q][r], gen |-> g] : r \in to}
    BY <1>o, Zenon
  <2>2. ASSUME NEW s \in noted, s \notin held
        PROVE  \E r \in to : s = [user |-> r, dev |-> known[r], gen |-> g]
    <3>1. PICK r \in to : s = [user |-> r, dev |-> knows'[q][r], gen |-> g]
      BY <2>1, <2>2
    <3>2. QED
      BY <1>k, <3>1
  <2>3. QED
    BY <2>1, <2>2
<1>4. shares \in [Persons -> SUBSET Share]
  BY DEF TypeOK
<1>5. \A s \in shares'[q] : s \in shares[q] \/
        \E r \in to : s = [user |-> r, dev |-> known[r], gen |-> g]
  BY <1>3, <1>4
<1>6. shares' \in [Persons -> SUBSET Share]
  <2>1. \A r \in to : [user |-> r, dev |-> known[r], gen |-> g] \in Share
    BY <1>1 DEF Share
  <2>2. noted \in SUBSET Share
    BY <1>3, <1>4, <2>1
  <2>3. QED
    BY <1>3, <1>4, <2>2
<1>7. OnlyOf(q)
  BY <1>3, <1>4 DEF OnlyOf
<1>8. MailTyped' /\ \E new : Effect(q, new)
  <2>1. n <= iter'[q] /\ iter'[q] \in Nat /\ to \subseteq members'[q]
    BY <1>1
  <2>2. g > gen[q] \/ (g = gen[q] /\ iter'[q] >= iter[q])
    OBVIOUS
  <2>3. QED
    BY <1>1, <1>2, <1>5, <1>7, <2>1, <2>2, KeysOut
<1>9. QED
  BY <1>6, <1>8, <1>b
-----------------------------------------------------------------------------
(* recv_group_invite, first time.                                          *)
LEMMA JoinEffect ==
    ASSUME TypeOK, NEW p \in Persons, NEW q \in Persons, NEW n \in 1 .. Len(mail[p][q]),
           Join(q, p, n)
    PROVE  TypeOK' /\ \E new : Effect(q, new)
<1>m. PICK m : m = mail[p][q][n]
  OBVIOUS
<1>0. m \in Item /\ n \in Nat
  BY <1>m, ArrivalTyped
<1>1. /\ Remember(q, p, m) /\ Accepted(q, p, n)
      /\ keys' = [keys EXCEPT ![q][p] = ReceiverKey(m)]
      /\ joined' = joined \cup {q} /\ members' = [members EXCEPT ![q] = m.members]
      /\ gen' = [gen EXCEPT ![q] = @ + 1] /\ iter' = [iter EXCEPT ![q] = 0]
      /\ UNCHANGED <<dev, trusts, log, texts, missed>>
      /\ Reply(q, m.members, m.members, gen[q] + 1, 0, {})
  BY <1>m DEF Join, NewGroup
<1>2. /\ got' \in [Persons -> [Persons -> SUBSET Nat]] /\ ReceiverKey(m) \in Key
      /\ knows' \in [Persons -> [Persons -> Nat]]
  BY <1>0, <1>1, AcceptTyped
<1>3. m.members \in SUBSET Persons
  BY <1>0 DEF Item
<1>4. /\ gen[q] \in Nat /\ gen[q] + 1 \in Nat /\ gen[q] + 1 > gen[q] /\ gen[q] + 1 # gen[q]
      /\ gen'[q] = gen[q] + 1 /\ iter'[q] = 0 /\ m.members \subseteq members'[q]
  BY <1>1, <1>3 DEF TypeOK
<1>5. \A r \in Persons \ {q} :
        /\ gen'[r] = gen[r] /\ iter'[r] = iter[r]
        /\ r \in joined' => r \in joined /\ members'[r] = members[r]
  BY <1>1 DEF TypeOK
<1>6. /\ MailTyped' /\ shares' \in [Persons -> SUBSET Share]
      /\ spent' \in Nat /\ calm' \in BOOLEAN /\ \E new : Effect(q, new)
  <2>1. {} \in SUBSET shares[q] /\ 0 \in Nat
    OBVIOUS
  <2>2. QED
    BY <1>1, <1>2, <1>3, <1>4, <1>5, <2>1, ReplyEffect
<1>7. TypeOK'
  <2>1. gen' \in [Persons -> Nat] /\ iter' \in [Persons -> Nat]
    BY <1>1 DEF TypeOK
  <2>2. joined' \subseteq Persons /\ members' \in [Persons -> SUBSET Persons]
    BY <1>1, <1>3 DEF TypeOK
  <2>3. keys' \in [Persons -> [Persons -> Key \cup {None}]]
    BY <1>1, <1>2 DEF TypeOK
  <2>4. QED
    BY <1>1, <1>2, <1>6, <2>1, <2>2, <2>3 DEF TypeOK, MailTyped
<1>8. QED
  BY <1>6, <1>7

(* recv_group_invite, known group.                                         *)
LEMMA LearnEffect ==
    ASSUME TypeOK, NEW p \in Persons, NEW q \in Persons, NEW n \in 1 .. Len(mail[p][q]),
           Learn(q, p, n)
    PROVE  TypeOK' /\ \E new : Effect(q, new)
<1>m. PICK m : m = mail[p][q][n]
  OBVIOUS
<1>a. PICK all : all = members[q] \cup m.members
  OBVIOUS
<1>0. m \in Item /\ n \in Nat
  BY <1>m, ArrivalTyped
<1>1. /\ Remember(q, p, m) /\ Accepted(q, p, n) /\ q \in joined
      /\ keys' = [keys EXCEPT ![q][p] = ReceiverKey(m)]
      /\ members' = [members EXCEPT ![q] = all]
      /\ UNCHANGED <<dev, trusts, joined, gen, iter, log, texts, missed>>
      /\ Reply(q, m.members \ members[q], all, gen[q], iter[q], shares[q])
  BY <1>m, <1>a DEF Learn
<1>2. /\ got' \in [Persons -> [Persons -> SUBSET Nat]] /\ ReceiverKey(m) \in Key
      /\ knows' \in [Persons -> [Persons -> Nat]]
  BY <1>0, <1>1, AcceptTyped
<1>3. m.members \in SUBSET Persons /\ all \in SUBSET Persons
  BY <1>0, <1>a DEF Item, TypeOK
<1>4. /\ gen[q] \in Nat /\ iter[q] \in Nat /\ gen'[q] = gen[q] /\ iter'[q] = iter[q]
      /\ iter[q] >= iter[q] /\ members[q] \subseteq members'[q]
      /\ m.members \ members[q] \subseteq members'[q] /\ m.members \ members[q] \in SUBSET Persons
  BY <1>1, <1>3, <1>a DEF TypeOK
<1>5. \A r \in Persons \ {q} :
        /\ gen'[r] = gen[r] /\ iter'[r] = iter[r]
        /\ r \in joined' => r \in joined /\ members'[r] = members[r]
  BY <1>1 DEF TypeOK
<1>6. /\ MailTyped' /\ shares' \in [Persons -> SUBSET Share]
      /\ spent' \in Nat /\ calm' \in BOOLEAN /\ \E new : Effect(q, new)
  BY <1>1, <1>2, <1>3, <1>4, <1>5, ReplyEffect
<1>7. TypeOK'
  <2>1. members' \in [Persons -> SUBSET Persons]
    BY <1>1, <1>3 DEF TypeOK
  <2>2. keys' \in [Persons -> [Persons -> Key \cup {None}]]
    BY <1>1, <1>2 DEF TypeOK
  <2>3. QED
    BY <1>1, <1>2, <1>6, <2>1, <2>2 DEF TypeOK, MailTyped
<1>8. QED
  BY <1>6, <1>7

(* recv_group_leave.                                                       *)
LEMMA SeeLeaveEffect ==
    ASSUME TypeOK, NEW p \in Persons, NEW q \in Persons, NEW n \in 1 .. Len(mail[p][q]),
           SeeLeave(q, p, n)
    PROVE  TypeOK' /\ \E new : Effect(q, new)
<1>m. PICK m : m = mail[p][q][n]
  OBVIOUS
<1>a. PICK rest : rest = members[q] \ {p}
  OBVIOUS
<1>0. m \in Item /\ n \in Nat
  BY <1>m, ArrivalTyped
<1>1. /\ Remember(q, p, m) /\ Accepted(q, p, n)
      /\ keys' = [keys EXCEPT ![q][p] = None]
      /\ members' = [members EXCEPT ![q] = rest]
      /\ gen' = [gen EXCEPT ![q] = @ + 1] /\ iter' = [iter EXCEPT ![q] = 0]
      /\ UNCHANGED <<dev, trusts, joined, log, texts, missed>>
      /\ Reply(q, rest, rest, gen[q] + 1, 0, shares[q])
  BY <1>m, <1>a DEF SeeLeave
<1>2. /\ got' \in [Persons -> [Persons -> SUBSET Nat]]
      /\ knows' \in [Persons -> [Persons -> Nat]]
  BY <1>0, <1>1, AcceptTyped
<1>3. rest \in SUBSET Persons
  BY <1>a DEF TypeOK
<1>4. /\ gen[q] \in Nat /\ gen[q] + 1 \in Nat /\ gen[q] + 1 > gen[q] /\ gen[q] + 1 # gen[q]
      /\ gen'[q] = gen[q] + 1 /\ iter'[q] = 0 /\ rest \subseteq members'[q]
  BY <1>1, <1>3 DEF TypeOK
<1>5. \A r \in Persons \ {q} :
        /\ gen'[r] = gen[r] /\ iter'[r] = iter[r]
        /\ r \in joined' => r \in joined /\ members'[r] = members[r]
  BY <1>1 DEF TypeOK
<1>6. /\ MailTyped' /\ shares' \in [Persons -> SUBSET Share]
      /\ spent' \in Nat /\ calm' \in BOOLEAN /\ \E new : Effect(q, new)
  <2>1. 0 \in Nat /\ shares[q] \in SUBSET shares[q]
    OBVIOUS
  <2>2. QED
    BY <1>1, <1>2, <1>3, <1>4, <1>5, <2>1, ReplyEffect
<1>7. TypeOK'
  <2>1. gen' \in [Persons -> Nat] /\ iter' \in [Persons -> Nat]
    BY <1>1 DEF TypeOK
  <2>2. members' \in [Persons -> SUBSET Persons]
    BY <1>1, <1>3 DEF TypeOK
  <2>3. keys' \in [Persons -> [Persons -> Key \cup {None}]]
    BY <1>1 DEF TypeOK
  <2>4. QED
    BY <1>1, <1>2, <1>6, <2>1, <2>2, <2>3 DEF TypeOK, MailTyped
<1>8. QED
  BY <1>6, <1>7

(* recv_group_text, and recv_group_leave for a group we do not have.       *)
LEMMA ReadEffect ==
    ASSUME TypeOK, NEW p \in Persons, NEW q \in Persons, NEW n \in 1 .. Len(mail[p][q]),
           Read(q, p, n) \/ IgnoreLeave(q, p, n)
    PROVE  TypeOK' /\ \E new : Effect(q, new)
<1>m. PICK m : m = mail[p][q][n]
  OBVIOUS
<1>0. m \in Item /\ n \in Nat
  BY <1>m, ArrivalTyped
<1>1. CASE Read(q, p, n)
  <2>1. /\ UNCHANGED <<dev, knows, trusts, mail, joined, members, shares, gen, iter, texts,
                       missed, spent, calm>>
        /\ keys[q][p] # None /\ keys' = [keys EXCEPT ![q][p] = Ratcheted(@, m.iter)]
        /\ log' = [log EXCEPT ![q] = @ \cup {m.id}] /\ Accepted(q, p, n)
    BY <1>1, <1>m DEF Read, Readable, deviceVars, bound
  <2>2. got' \in [Persons -> [Persons -> SUBSET Nat]]
    BY <1>0, <2>1, AcceptTyped
  <2>3. m.iter \in Nat /\ m.id \in Nat
    BY <1>0 DEF Item
  <2>4. keys[q][p] \in Key
    BY <2>1 DEF TypeOK
  <2>5. Ratcheted(keys[q][p], m.iter) \in Key
    BY <2>3, <2>4, RatchetTyped
  <2>6. keys' \in [Persons -> [Persons -> Key \cup {None}]]
    BY <2>1, <2>5 DEF TypeOK
  <2>7. log' \in [Persons -> SUBSET Nat]
    BY <2>1, <2>3 DEF TypeOK
  <2>8. \E new : Effect(q, new)
    BY <2>1, SilentEffect
  <2>9. QED
    BY <2>1, <2>2, <2>6, <2>7, <2>8 DEF TypeOK
<1>2. CASE IgnoreLeave(q, p, n)
  <2>1. /\ UNCHANGED <<dev, trusts, joined, members, shares, gen, iter, keys, mail, log, texts,
                       missed, spent, calm>>
        /\ Remember(q, p, m) /\ Accepted(q, p, n)
    BY <1>2, <1>m DEF IgnoreLeave, groupVars, bound
  <2>2. /\ got' \in [Persons -> [Persons -> SUBSET Nat]]
        /\ knows' \in [Persons -> [Persons -> Nat]]
    BY <1>0, <2>1, AcceptTyped
  <2>3. \E new : Effect(q, new)
    BY <2>1, SilentEffect
  <2>4. QED
    BY <2>1, <2>2, <2>3 DEF TypeOK
<1>3. QED
  BY <1>1, <1>2
-----------------------------------------------------------------------------
(* At first nothing has been sent.                                         *)
LEMMA InitGroup ==
    Init => GroupInv
<1> SUFFICES ASSUME Init PROVE GroupInv
  OBVIOUS
<1>1. \A p, q \in Persons : Items(p, q) = {}
  <2> SUFFICES ASSUME NEW p \in Persons, NEW q \in Persons PROVE Items(p, q) = {}
    OBVIOUS
  <2>1. mail[p][q] = << >> /\ Len(<< >>) = 0
    BY DEF Init
  <2>2. QED
    BY <2>1 DEF Items
<1>2. mail \in [Persons -> [Persons -> Seq(Item)]]
  <2>1. << >> \in Seq(Item)
    OBVIOUS
  <2>2. QED
    BY <2>1 DEF Init
<1>3. TypeOK
  <2>1. knows \in [Persons -> [Persons -> Nat]]
    BY DEF Init
  <2>2. keys \in [Persons -> [Persons -> Key \cup {None}]]
    BY DEF Init
  <2>3. got \in [Persons -> [Persons -> SUBSET Nat]] /\ shares \in [Persons -> SUBSET Share]
    BY DEF Init
  <2>4. QED
    BY <1>2, <2>1, <2>2, <2>3 DEF Init, TypeOK
<1>4. PastInv /\ OnceInv /\ KeyInv
  BY <1>1 DEF PastInv, OnceInv, KeyInv
<1>5. ShareInv /\ FormerInv
  BY <1>1 DEF ShareInv, FormerInv, Init
<1>6. QED
  BY <1>3, <1>4, <1>5 DEF GroupInv

(* Commands choose among people.                                           *)
LEMMA CommandChoices ==
    ASSUME TypeOK, NEW p \in Persons, Command(p)
    PROVE  \/ \E ms, qs \in SUBSET Persons : Create(p, ms, qs) \/ CreateTorn(p, ms, qs)
           \/ \E q \in Persons, qs \in SUBSET Persons : Add(p, q, qs) \/ AddTorn(p, q, qs)
           \/ \E ks, qs \in SUBSET Persons : Send(p, ks, qs) \/ SendTorn(p, ks, qs)
           \/ \E qs \in SUBSET Persons : SendTornKeys(p, qs)
           \/ \E qs \in SUBSET Persons : Leave(p, qs) \/ LeaveTorn(p, qs)
<1>1. members[p] \subseteq Persons
  BY DEF TypeOK
<1>2. \A ms \in SUBSET Persons : SUBSET (ms \ {p}) \subseteq SUBSET Persons
  OBVIOUS
<1>3. /\ SUBSET Targets(p, members[p]) \subseteq SUBSET Persons
      /\ SUBSET Unshared(p) \subseteq SUBSET Persons
      /\ \A q \in Persons :
            SUBSET Targets(p, members[p] \cup {q}) \subseteq SUBSET Persons
  BY <1>1 DEF Targets, Unshared
<1> QED
  BY <1>2, <1>3, Zenon DEF Command

(* Every step is one person's.                                             *)
LEMMA NextEffect ==
    ASSUME GroupInv, Next
    PROVE  TypeOK' /\ \E p \in Persons : \E new : Effect(p, new)
<1>0. TypeOK
  BY DEF GroupInv
<1>1. ASSUME NEW p \in Persons, Command(p)
      PROVE  TypeOK' /\ \E new : Effect(p, new)
  <2>1. ASSUME NEW ms \in SUBSET Persons, NEW qs \in SUBSET Persons,
               Create(p, ms, qs) \/ CreateTorn(p, ms, qs)
        PROVE  TypeOK' /\ \E new : Effect(p, new)
    BY <1>0, <2>1, CreateEffect
  <2>2. ASSUME NEW q \in Persons, NEW qs \in SUBSET Persons, Add(p, q, qs) \/ AddTorn(p, q, qs)
        PROVE  TypeOK' /\ \E new : Effect(p, new)
    BY <1>0, <2>2, AddEffect
  <2>3. ASSUME NEW ks \in SUBSET Persons, NEW qs \in SUBSET Persons,
               Send(p, ks, qs) \/ SendTorn(p, ks, qs)
        PROVE  TypeOK' /\ \E new : Effect(p, new)
    BY <2>3, SendEffect
  <2>4. ASSUME NEW qs \in SUBSET Persons, SendTornKeys(p, qs)
        PROVE  TypeOK' /\ \E new : Effect(p, new)
    BY <1>0, <2>4, SendKeysEffect
  <2>5. ASSUME NEW qs \in SUBSET Persons, Leave(p, qs) \/ LeaveTorn(p, qs)
        PROVE  TypeOK' /\ \E new : Effect(p, new)
    BY <1>0, <2>5, LeaveEffect
  <2>6. QED
    BY <1>0, <1>1, <2>1, <2>2, <2>3, <2>4, <2>5, CommandChoices
<1>2. ASSUME NEW p \in Persons, NEW q \in Persons, Move(p) \/ Refresh(p, q) \/ AddContact(p, q)
      PROVE  TypeOK' /\ \E new : Effect(p, new)
  BY <1>0, <1>2, DeviceEffect
<1>3. ASSUME NEW q \in Persons, NEW p \in Persons, NEW n \in 1 .. Len(mail[p][q]),
             Accept(q, p, n)
      PROVE  TypeOK' /\ \E new : Effect(q, new)
  BY <1>0, <1>3, JoinEffect, LearnEffect, SeeLeaveEffect, ReadEffect DEF Accept
<1>4. QED
  BY <1>1, <1>2, <1>3 DEF Next

(* The invariant is inductive.                                             *)
LEMMA NextGroup ==
    GroupInv /\ [Next]_vars => GroupInv'
<1> SUFFICES ASSUME GroupInv, [Next]_vars PROVE GroupInv'
  OBVIOUS
<1>1. CASE Next
  BY <1>1, NextEffect, EffectKeeps
<1>2. CASE UNCHANGED vars
  <2>1. UNCHANGED <<dev, knows, trusts, joined, members, shares, gen, iter, keys, mail, got,
                    log, texts, missed, spent, calm>>
    BY <1>2 DEF vars, deviceVars, groupVars, mailVars, bound
  <2>2. TypeOK'
    BY <2>1 DEF GroupInv, TypeOK
  <2>3. \A p, q \in Persons : Items(p, q)' = Items(p, q)
    BY <2>1 DEF Items
  <2>4. PastInv' /\ OnceInv' /\ KeyInv'
    BY <2>1, <2>3 DEF GroupInv, PastInv, OnceInv, KeyInv
  <2>5. ShareInv'
    <3> SUFFICES ASSUME NEW p \in Persons, NEW s \in shares[p]
                 PROVE  /\ s.gen <= gen[p]
                        /\ s.gen = gen[p] => \E i \in Items(p, s.user)' :
                             /\ i.kind = "invite" /\ i.todev = s.dev
                             /\ i.gen = s.gen /\ i.iter <= iter[p]
      BY <2>1 DEF ShareInv
    <3>1. s.user \in Persons
      BY DEF GroupInv, TypeOK, Share
    <3>2. QED
      BY <2>3, <3>1 DEF GroupInv, ShareInv
  <2>6. FormerInv'
    <3>1. joined \subseteq Persons
      BY DEF GroupInv, TypeOK
    <3>2. QED
      BY <2>1, <2>3, <3>1 DEF GroupInv, FormerInv
  <2>7. QED
    BY <2>2, <2>4, <2>5, <2>6 DEF GroupInv
<1>3. QED
  BY <1>1, <1>2
-----------------------------------------------------------------------------
(* The rest of the module is about groups of people who all have each      *)
(* other as contacts, as long as nobody leaves or moves and no call fails. *)

(* Everybody still uses the first device, which everybody knows and trusts.*)
Settled == \A p, q \in Persons :
    dev[p] = 1 /\ knows[p][q] = 1 /\ (p # q => q \in trusts[p])

(* Everybody in the group still uses the first key, and counts itself in.  *)
FirstKeys == \A p \in Persons :
    /\ p \in joined => gen[p] = 1 /\ p \in members[p]
    /\ p \notin joined => gen[p] = 0 /\ members[p] = {}

(* What is in the mail: keys and texts of those who joined, and a key goes *)
(* with members that its sender still counts.                              *)
MailCalm == \A p, q \in Persons : \A i \in Items(p, q) :
    /\ p \in joined /\ i.dev = 1 /\ i.gen = 1 /\ i.kind \in {"invite", "text"}
    /\ i.kind = "invite" => /\ i.iter <= iter[p] /\ i.members \subseteq members[p]
                            /\ p \in i.members /\ q \in i.members

(* Whoever accepted an invitation joined, and has its members and key.     *)
GotCalm == \A p, q \in Persons : \A n \in got[q][p] :
    /\ n \in 1 .. Len(mail[p][q])
    /\ mail[p][q][n].kind = "invite" =>
         q \in joined /\ mail[p][q][n].members \subseteq members[q] /\ keys[q][p] # None

KeysCalm == \A p, q \in Persons : keys[q][p] # None =>
    p \in joined /\ keys[q][p].gen = 1 /\ keys[q][p].iter <= iter[p]

(* A member was sent the key of everyone that counts it in.                *)
AllInvited == \A p \in joined : \A q \in members[p] \ {p} :
    \E i \in Items(p, q) : i.kind = "invite"

(* x tells everyone it counts in of s.                                     *)
Tells(x, s) == \A q \in members[x] \ {x} :
    \E i \in Items(x, q) : i.kind = "invite" /\ s \in i.members

(* Everybody counts in the members that the group was created with.  Every *)
(* other member was added by somebody of a lower rank, who tells everyone  *)
(* of it.                                                                  *)
Ranked(core, rank) ==
    /\ \A p \in joined : core \subseteq members[p]
    /\ \A p, q \in Persons : \A i \in Items(p, q) :
         i.kind = "invite" => core \subseteq i.members
    /\ \A p \in joined : \A s \in members[p] \ core :
         \E x \in joined : rank[x] < rank[s] /\ s \in members[x] /\ Tells(x, s)

AddersRanked == \E core \in SUBSET Persons, rank \in [Persons -> Nat] : Ranked(core, rank)

CalmInv == /\ Settled /\ FirstKeys /\ MailCalm /\ GotCalm /\ KeysCalm
           /\ AllInvited /\ AddersRanked

(* p, who may join with this step, counts in ms and sends an invitation to *)
(* those in to, which are at least those it did not count in before.       *)
Grow(p, ms, to, new) ==
    /\ joined' = joined \cup {p} /\ members' = [members EXCEPT ![p] = ms]
    /\ gen'[p] = 1
    /\ \A r \in Persons \ {p} : gen'[r] = gen[r] /\ iter'[r] = iter[r]
    /\ p \in joined => iter[p] <= iter'[p]
    /\ Adds(p, new)
    /\ p \in ms /\ members[p] \subseteq ms /\ ms \ (members[p] \cup {p}) \subseteq to
    /\ \A q \in Persons : \A i \in new[q] :
         /\ i.dev = 1 /\ i.gen = 1 /\ i.kind \in {"invite", "text"}
         /\ i.kind = "invite" => i.members = ms /\ q \in ms /\ i.iter <= iter'[p]
    /\ \A q \in to : \E i \in new[q] : i.kind = "invite"

(* What is in a mailbox is an item.                                        *)
LEMMA ItemsTyped ==
    ASSUME TypeOK, NEW p \in Persons, NEW q \in Persons, NEW i \in Items(p, q)
    PROVE  i \in Item
<1>1. PICK n \in 1 .. Len(mail[p][q]) : i = mail[p][q][n]
  BY DEF Items
<1>2. QED
  BY <1>1, ArrivalTyped

(* Keys, mail and invitations stay in order when p counts in ms.           *)
LEMMA GrowKeeps ==
    ASSUME TypeOK, TypeOK', FirstKeys, MailCalm, AllInvited,
           NEW p \in Persons, NEW ms \in SUBSET Persons, NEW to \in SUBSET Persons, NEW new,
           Grow(p, ms, to, new)
    PROVE  FirstKeys' /\ MailCalm' /\ AllInvited'
<1>m. /\ joined' = joined \cup {p} /\ members'[p] = ms /\ gen'[p] = 1 /\ p \in ms
      /\ \A r \in Persons \ {p} :
           gen'[r] = gen[r] /\ iter'[r] = iter[r] /\ members'[r] = members[r]
      /\ members[p] \subseteq ms /\ ms \ (members[p] \cup {p}) \subseteq to
      /\ joined \subseteq Persons
  BY DEF Grow, TypeOK
<1>i. \A r, q \in Persons :
        Items(r, q)' = IF r = p THEN Items(r, q) \cup new[q] ELSE Items(r, q)
  BY DEF Grow, Adds
<1>n. \A q \in Persons : \A i \in new[q] :
         /\ i.dev = 1 /\ i.gen = 1 /\ i.kind \in {"invite", "text"}
         /\ i.kind = "invite" => i.members = ms /\ q \in ms /\ i.iter <= iter'[p]
  BY DEF Grow
<1>1. FirstKeys'
  BY <1>m DEF FirstKeys
<1>2. MailCalm'
  <2> SUFFICES ASSUME NEW r \in Persons, NEW q \in Persons, NEW i \in Items(r, q)'
               PROVE  /\ r \in joined' /\ i.dev = 1 /\ i.gen = 1 /\ i.kind \in {"invite", "text"}
                      /\ i.kind = "invite" =>
                           /\ i.iter <= iter'[r] /\ i.members \subseteq members'[r]
                           /\ r \in i.members /\ q \in i.members
    BY DEF MailCalm
  <2>1. CASE i \in Items(r, q)
    <3>1. /\ r \in joined /\ i.dev = 1 /\ i.gen = 1 /\ i.kind \in {"invite", "text"}
          /\ i.kind = "invite" => /\ i.iter <= iter[r] /\ i.members \subseteq members[r]
                                  /\ r \in i.members /\ q \in i.members
      BY <2>1 DEF MailCalm
    <3>2. members[r] \subseteq members'[r]
      BY <1>m
    <3>3. i.iter <= iter[r] => i.iter <= iter'[r]
      <4>1. i.iter \in Nat /\ iter[r] \in Nat /\ iter'[r] \in Nat
        <5>1. i \in Item
          BY <2>1, ItemsTyped
        <5>2. QED
          BY <5>1 DEF Item, TypeOK
      <4>2. iter[r] <= iter'[r]
        BY <1>m, <3>1, <4>1 DEF Grow
      <4>3. QED
        BY <4>1, <4>2
    <3>4. QED
      BY <1>m, <3>1, <3>2, <3>3
  <2>2. CASE r = p /\ i \in new[q]
    BY <1>m, <1>n, <2>2
  <2>3. QED
    BY <1>i, <2>1, <2>2
<1>3. AllInvited'
  <2> SUFFICES ASSUME NEW r \in joined', NEW q \in members'[r] \ {r}
               PROVE  \E i \in Items(r, q)' : i.kind = "invite"
    BY DEF AllInvited
  <2>0. r \in Persons /\ q \in Persons
    BY DEF TypeOK
  <2>1. CASE r \in joined /\ q \in members[r]
    BY <1>i, <2>0, <2>1 DEF AllInvited
  <2>2. CASE r = p /\ q \notin members[p]
    <3>1. \E i \in new[q] : i.kind = "invite"
      BY <1>m, <2>2 DEF Grow
    <3>2. QED
      BY <1>i, <2>0, <2>2, <3>1
  <2>3. r # p => r \in joined /\ q \in members[r]
    BY <1>m, <2>0
  <2>4. r = p /\ q \in members[p] => p \in joined
    BY DEF FirstKeys
  <2>5. QED
    BY <2>1, <2>2, <2>3, <2>4
<1>4. QED
  BY <1>1, <1>2, <1>3

(* Whoever told everyone of s still does: newcomers are told, too.         *)
LEMMA TellsKept ==
    ASSUME TypeOK, NEW p \in Persons, NEW ms \in SUBSET Persons, NEW to \in SUBSET Persons,
           NEW new, Grow(p, ms, to, new),
           NEW x \in joined, NEW s \in members[x], Tells(x, s)
    PROVE  Tells(x, s)' /\ s \in members'[x]
<1>m. /\ members'[p] = ms /\ members[p] \subseteq ms
      /\ ms \ (members[p] \cup {p}) \subseteq to /\ x \in Persons
      /\ x # p => members'[x] = members[x]
  BY DEF Grow, TypeOK
<1>1. s \in members'[x]
  BY <1>m
<1>2. ASSUME NEW q \in members'[x] \ {x}
      PROVE  \E i \in Items(x, q)' : i.kind = "invite" /\ s \in i.members
  <2>0. q \in Persons
    BY <1>m, <1>2 DEF TypeOK
  <2>1. CASE q \in members[x]
    <3>1. PICK i \in Items(x, q) : i.kind = "invite" /\ s \in i.members
      BY <1>2, <2>1 DEF Tells
    <3>2. i \in Items(x, q)'
      BY <1>m, <2>0, <3>1 DEF Grow, Adds
    <3>3. QED
      BY <3>1, <3>2
  <2>2. CASE q \notin members[x]
    <3>1. x = p /\ q \in to
      BY <1>m, <1>2, <2>2
    <3>2. PICK i \in new[q] : i.kind = "invite" /\ i.members = ms
      BY <2>0, <3>1 DEF Grow
    <3>3. i \in Items(x, q)'
      BY <2>0, <3>1, <3>2 DEF Grow, Adds
    <3>4. QED
      BY <1>m, <3>1, <3>2, <3>3
  <2>3. QED
    BY <2>1, <2>2
<1>3. QED
  BY <1>1, <1>2 DEF Tells

(* The core stays known, and the new invitations name it.                  *)
LEMMA CoreKept ==
    ASSUME TypeOK, NEW core \in SUBSET Persons, NEW rank, Ranked(core, rank),
           NEW p \in Persons, NEW ms \in SUBSET Persons, NEW to \in SUBSET Persons, NEW new,
           Grow(p, ms, to, new), core \subseteq ms
    PROVE  /\ \A r \in joined' : core \subseteq members'[r]
           /\ \A r, q \in Persons : \A i \in Items(r, q)' :
                i.kind = "invite" => core \subseteq i.members
<1>1. ASSUME NEW r \in joined' PROVE core \subseteq members'[r]
  BY <1>1 DEF Grow, Ranked, TypeOK
<1>2. ASSUME NEW r \in Persons, NEW q \in Persons, NEW i \in Items(r, q)', i.kind = "invite"
      PROVE  core \subseteq i.members
  <2>1. CASE i \in Items(r, q)
    BY <1>2, <2>1 DEF Ranked
  <2>2. CASE i \in new[q]
    BY <1>2, <2>2 DEF Grow
  <2>3. QED
    BY <1>2, <2>1, <2>2 DEF Grow, Adds
<1>3. QED
  BY <1>1, <1>2

(* p counts in people whom others count in already.                        *)
LEMMA LearnRanked ==
    ASSUME TypeOK, NEW core \in SUBSET Persons, NEW rank, Ranked(core, rank),
           NEW p \in Persons, NEW ms \in SUBSET Persons, NEW to \in SUBSET Persons, NEW new,
           Grow(p, ms, to, new), core \subseteq ms,
           \A s \in ms : \E r \in joined : s \in members[r]
    PROVE  Ranked(core, rank)'
<1>1. /\ \A r \in joined' : core \subseteq members'[r]
      /\ \A r, q \in Persons : \A i \in Items(r, q)' :
           i.kind = "invite" => core \subseteq i.members
  BY CoreKept
<1>2. ASSUME NEW r \in joined', NEW s \in members'[r] \ core
      PROVE  \E x \in joined' : rank[x] < rank[s] /\ s \in members'[x] /\ Tells(x, s)'
  <2>1. PICK o \in joined : s \in members[o]
    BY <1>2 DEF Grow, TypeOK
  <2>2. PICK x \in joined : rank[x] < rank[s] /\ s \in members[x] /\ Tells(x, s)
    BY <1>2, <2>1 DEF Ranked
  <2>3. Tells(x, s)' /\ s \in members'[x]
    BY <2>2, TellsKept
  <2>4. x \in joined'
    BY DEF Grow
  <2>5. QED
    BY <2>2, <2>3, <2>4
<1>3. QED
  BY <1>1, <1>2 DEF Ranked

(* p adds s, whom nobody counts in yet: s ranks after p.                   *)
LEMMA AddRanked ==
    ASSUME TypeOK, NEW core \in SUBSET Persons, NEW rank \in [Persons -> Nat],
           Ranked(core, rank), FirstKeys,
           NEW p \in joined, NEW s \in Persons, NEW ms \in SUBSET Persons, NEW new,
           ms = members[p] \cup {s}, Grow(p, ms, ms \ {p}, new),
           \A r \in joined : s \notin members[r]
    PROVE  Ranked(core, [rank EXCEPT ![s] = rank[p] + 1])'
<1>p. PICK to \in SUBSET Persons : to = ms \ {p}
  OBVIOUS
<1>r. PICK next : next = [rank EXCEPT ![s] = rank[p] + 1]
  OBVIOUS
<1>0. p \in Persons /\ core \subseteq ms /\ Grow(p, ms, to, new) /\ s \notin joined /\ p # s
  BY <1>p DEF Ranked, TypeOK, FirstKeys
<1>1. /\ \A r \in joined' : core \subseteq members'[r]
      /\ \A r, q \in Persons : \A i \in Items(r, q)' :
           i.kind = "invite" => core \subseteq i.members
  BY <1>0, CoreKept
<1>2. ASSUME NEW r \in joined', NEW t \in members'[r] \ core
      PROVE  \E x \in joined' : next[x] < next[t] /\ t \in members'[x] /\ Tells(x, t)'
  <2>1. CASE t = s
    <3>1. next[p] = rank[p] /\ next[s] = rank[p] + 1 /\ rank[p] \in Nat
      BY <1>0, <1>r
    <3>2. p \in joined' /\ members'[p] = ms
      BY <1>0 DEF Grow, TypeOK
    <3>3. ASSUME NEW q \in ms \ {p}
          PROVE  \E i \in Items(p, q)' : i.kind = "invite" /\ s \in i.members
      <4>1. PICK i \in new[q] : i.kind = "invite"
        BY <1>0, <1>p, <3>3 DEF Grow
      <4>2. i.members = ms
        BY <1>0, <4>1 DEF Grow
      <4>3. i \in Items(p, q)'
        BY <1>0, <4>1 DEF Grow, Adds
      <4>4. QED
        BY <4>1, <4>2, <4>3
    <3>4. Tells(p, s)'
      BY <3>2, <3>3 DEF Tells
    <3>5. QED
      BY <2>1, <3>1, <3>2, <3>4
  <2>2. CASE t # s
    <3>1. PICK o \in joined : t \in members[o]
      BY <1>0, <1>2, <2>2 DEF Grow, TypeOK
    <3>2. PICK x \in joined : rank[x] < rank[t] /\ t \in members[x] /\ Tells(x, t)
      BY <1>2, <3>1 DEF Ranked
    <3>3. Tells(x, t)' /\ t \in members'[x]
      BY <1>0, <3>2, TellsKept
    <3>4. x \in joined' /\ x # s /\ x \in Persons /\ t \in Persons
      BY <1>0, <3>1 DEF Grow, TypeOK
    <3>5. next[x] = rank[x] /\ next[t] = rank[t]
      BY <1>r, <2>2, <3>4
    <3>6. QED
      BY <3>2, <3>3, <3>4, <3>5
  <2>3. QED
    BY <2>1, <2>2
<1>3. Ranked(core, next)'
  BY <1>1, <1>2 DEF Ranked
<1>4. QED
  BY <1>3, <1>r

(* The store of p is left alone, or accepts item n of r and takes key k.   *)
Takes(p, ms) ==
    \/ got' = got /\ keys' = keys
    \/ \E r \in joined : \E n \in 1 .. Len(mail[r][p]), k \in Key :
         /\ got' = [got EXCEPT ![p][r] = @ \cup {n}]
         /\ keys' = [keys EXCEPT ![p][r] = k]
         /\ mail[r][p][n].kind = "invite" => mail[r][p][n].members \subseteq ms
         /\ k.gen = 1 /\ k.iter <= iter[r]

(* What was accepted stays in order.                                       *)
LEMMA TakesKeeps ==
    ASSUME TypeOK, TypeOK', GotCalm, KeysCalm,
           NEW p \in Persons, NEW ms \in SUBSET Persons, NEW to \in SUBSET Persons, NEW new,
           Grow(p, ms, to, new), Takes(p, ms)
    PROVE  GotCalm' /\ KeysCalm'
<1>m. /\ joined' = joined \cup {p} /\ joined \subseteq Persons
      /\ members'[p] = ms /\ members[p] \subseteq ms
      /\ \A r \in Persons \ {p} : members'[r] = members[r]
  BY DEF Grow, TypeOK
<1>k. \A r, q \in Persons : \A n \in 1 .. Len(mail[r][q]) :
        n \in 1 .. Len(mail'[r][q]) /\ mail'[r][q][n] = mail[r][q][n]
  BY DEF Grow, Adds
<1>i. \A r \in joined : iter[r] \in Nat /\ iter'[r] \in Nat /\ iter[r] <= iter'[r]
  <2> SUFFICES ASSUME NEW r \in joined
               PROVE  iter[r] \in Nat /\ iter'[r] \in Nat /\ iter[r] <= iter'[r]
    OBVIOUS
  <2>1. iter[r] \in Nat /\ iter'[r] \in Nat /\ r \in Persons
    BY DEF TypeOK
  <2>2. QED
    BY <2>1 DEF Grow
<1>1. ASSUME NEW q \in Persons, NEW r \in Persons,
             got'[q][r] = got[q][r], keys'[q][r] = keys[q][r]
      PROVE  /\ \A n \in got'[q][r] :
                  /\ n \in 1 .. Len(mail'[r][q])
                  /\ mail'[r][q][n].kind = "invite" =>
                       q \in joined' /\ mail'[r][q][n].members \subseteq members'[q]
                                     /\ keys'[q][r] # None
             /\ keys'[q][r] # None =>
                  r \in joined' /\ keys'[q][r].gen = 1 /\ keys'[q][r].iter <= iter'[r]
  <2>1. ASSUME NEW n \in got[q][r]
        PROVE  /\ n \in 1 .. Len(mail'[r][q])
               /\ mail'[r][q][n].kind = "invite" =>
                    q \in joined' /\ mail'[r][q][n].members \subseteq members'[q]
                                  /\ keys'[q][r] # None
    <3>1. /\ n \in 1 .. Len(mail[r][q])
          /\ mail[r][q][n].kind = "invite" =>
               q \in joined /\ mail[r][q][n].members \subseteq members[q] /\ keys[q][r] # None
      BY DEF GotCalm
    <3>2. n \in 1 .. Len(mail'[r][q]) /\ mail'[r][q][n] = mail[r][q][n]
      BY <1>k, <3>1
    <3>3. members[q] \subseteq members'[q]
      BY <1>m
    <3>4. QED
      BY <1>1, <1>m, <3>1, <3>2, <3>3
  <2>2. ASSUME keys[q][r] # None
        PROVE  r \in joined' /\ keys[q][r].gen = 1 /\ keys[q][r].iter <= iter'[r]
    <3>1. r \in joined /\ keys[q][r].gen = 1 /\ keys[q][r].iter <= iter[r]
      BY <2>2 DEF KeysCalm
    <3>2. keys[q][r] \in Key
      BY <2>2 DEF TypeOK
    <3>3. keys[q][r].iter \in Nat
      BY <3>2 DEF Key
    <3>4. QED
      BY <1>i, <1>m, <3>1, <3>3
  <2>3. QED
    BY <1>1, <2>1, <2>2
<1>2. CASE got' = got /\ keys' = keys
  BY <1>1, <1>2 DEF GotCalm, KeysCalm
<1>3. ASSUME NEW r \in joined, NEW n \in 1 .. Len(mail[r][p]), NEW k \in Key,
             got' = [got EXCEPT ![p][r] = @ \cup {n}],
             keys' = [keys EXCEPT ![p][r] = k],
             mail[r][p][n].kind = "invite" => mail[r][p][n].members \subseteq ms,
             k.gen = 1, k.iter <= iter[r]
      PROVE  GotCalm' /\ KeysCalm'
  <2>0. /\ got'[p][r] = got[p][r] \cup {n} /\ keys'[p][r] = k /\ r \in Persons
        /\ \A q, t \in Persons : q # p \/ t # r =>
             got'[q][t] = got[q][t] /\ keys'[q][t] = keys[q][t]
    BY <1>3, <1>m DEF TypeOK
  <2>1. k # None /\ k.iter \in Nat
    BY NoneIsNoKey DEF Key
  <2>2. ASSUME NEW j \in got'[p][r]
        PROVE  /\ j \in 1 .. Len(mail'[r][p])
               /\ mail'[r][p][j].kind = "invite" =>
                    p \in joined' /\ mail'[r][p][j].members \subseteq members'[p]
                                  /\ keys'[p][r] # None
    <3>1. /\ j \in 1 .. Len(mail[r][p])
          /\ mail[r][p][j].kind = "invite" => mail[r][p][j].members \subseteq ms
      BY <1>3, <1>m, <2>0, <2>2 DEF GotCalm
    <3>2. j \in 1 .. Len(mail'[r][p]) /\ mail'[r][p][j] = mail[r][p][j]
      BY <1>k, <2>0, <3>1
    <3>3. QED
      BY <1>m, <2>0, <2>1, <3>1, <3>2
  <2>3. r \in joined' /\ keys'[p][r].gen = 1 /\ keys'[p][r].iter <= iter'[r]
    BY <1>3, <1>i, <1>m, <2>0, <2>1
  <2>4. QED
    BY <1>1, <2>0, <2>2, <2>3 DEF GotCalm, KeysCalm
<1>4. QED
  BY <1>2, <1>3 DEF Takes

(* Invitations to those in qs, that name ms, at position n.                *)
AreInvites(new, qs, ms, n) ==
    /\ \A q \in Persons : \A i \in new[q] :
         /\ q \in qs /\ i.dev = 1 /\ i.gen = 1 /\ i.kind = "invite"
         /\ i.members = ms /\ i.iter = n
    /\ \A q \in qs : \E i \in new[q] : i.kind = "invite"

(* Such are those of p, when p uses its first device and key.              *)
LEMMA InvitesOfCalm ==
    ASSUME TypeOK, Settled, NEW p \in Persons, NEW qs \in SUBSET Persons,
           NEW ms \in SUBSET Persons, NEW n \in Nat, NEW known \in [Persons -> Nat]
    PROVE  AreInvites(InvitesTo(p, qs, ms, 1, n, known), qs, ms, n)
<1>1. dev[p] = 1
  BY DEF Settled
<1>2. \A q \in Persons : InvitesTo(p, qs, ms, 1, n, known)[q] =
        IF q \in qs THEN {Invite(1, known[q], ms, 1, n)} ELSE {}
  BY <1>1 DEF InvitesTo, Invitation
<1>3. \A q \in Persons : LET i == Invite(1, known[q], ms, 1, n) IN
        i.dev = 1 /\ i.gen = 1 /\ i.kind = "invite" /\ i.members = ms /\ i.iter = n
  BY DEF Invite
<1>4. QED
  BY <1>2, <1>3 DEF AreInvites

(* Everything but the ranks.                                               *)
LEMMA GrowCalm ==
    ASSUME TypeOK, TypeOK', CalmInv, Settled', AddersRanked',
           NEW p \in Persons, NEW ms \in SUBSET Persons, NEW to \in SUBSET Persons, NEW new,
           Grow(p, ms, to, new), Takes(p, ms)
    PROVE  CalmInv'
<1>1. FirstKeys' /\ MailCalm' /\ AllInvited'
  BY GrowKeeps DEF CalmInv
<1>2. GotCalm' /\ KeysCalm'
  BY TakesKeeps DEF CalmInv
<1>3. QED
  BY <1>1, <1>2 DEF CalmInv

(* The ranks, when nobody new comes.                                       *)
LEMMA GrowKnown ==
    ASSUME TypeOK, TypeOK', CalmInv, Settled',
           NEW p \in Persons, NEW ms \in SUBSET Persons, NEW to \in SUBSET Persons, NEW new,
           Grow(p, ms, to, new), Takes(p, ms),
           \A s \in ms : \E r \in joined : s \in members[r],
           \/ p \in joined
           \/ \E r \in Persons : \E i \in Items(r, p) : i.kind = "invite" /\ i.members \subseteq ms
    PROVE  CalmInv'
<1>1. PICK core \in SUBSET Persons, rank \in [Persons -> Nat] : Ranked(core, rank)
  BY DEF CalmInv, AddersRanked
<1>2. core \subseteq ms
  BY <1>1 DEF Ranked, Grow
<1>3. Ranked(core, rank)'
  BY <1>1, <1>2, LearnRanked
<1>4. AddersRanked'
  BY <1>3 DEF AddersRanked
<1>5. QED
  BY <1>4, GrowCalm

(* group_create.                                                           *)
LEMMA CreateCalm ==
    ASSUME TypeOK, TypeOK', CalmInv, calm', NEW p \in Persons, NEW ms \in SUBSET Persons,
           NEW qs \in SUBSET Persons, Create(p, ms, qs)
    PROVE  CalmInv'
<1>k. PICK known \in [Persons -> Nat] : known = knows[p]
  BY DEF TypeOK
<1>t. PICK to \in SUBSET Persons : to = ms \ {p}
  OBVIOUS
<1>c. qs = to
  BY <1>t, ParkedCalm DEF Create
<1>0. Settled /\ FirstKeys /\ MailCalm
  BY DEF CalmInv
<1>1. /\ joined' = joined \cup {p} /\ members' = [members EXCEPT ![p] = ms]
      /\ gen' = [gen EXCEPT ![p] = @ + 1] /\ iter' = [iter EXCEPT ![p] = 0]
      /\ UNCHANGED <<dev, knows, trusts, keys, got>>
      /\ p \in ms /\ \A q \in Persons : gen[q] = 0
  BY DEF Create, NewGroup, deviceVars
<1>2. joined = {} /\ members[p] = {}
  BY <1>0, <1>1 DEF FirstKeys, TypeOK
<1>3. Posted(p, to, Invitation(p, ms, 1, 0, known))
  <2>1. gen[p] + 1 = 1
    BY <1>1
  <2>2. QED
    BY <1>k, <1>c, <2>1 DEF Create, Distribute, Post, InviteFor, Posted, Invitation
<1>4. PICK new : new = InvitesTo(p, to, ms, 1, 0, known)
  OBVIOUS
<1>5. Adds(p, new)
  BY <1>3, <1>4, InvitesAdded
<1>6. AreInvites(new, to, ms, 0)
  BY <1>0, <1>4, InvitesOfCalm
<1>7. Grow(p, ms, to, new)
  <2>1. gen'[p] = 1 /\ iter'[p] = 0 /\ \A r \in Persons \ {p} : gen'[r] = gen[r] /\ iter'[r] = iter[r]
    BY <1>1 DEF TypeOK
  <2>2. QED
    BY <1>1, <1>2, <1>5, <1>6, <1>t, <2>1 DEF Grow, AreInvites
<1>8. Ranked(ms, [q \in Persons |-> 0])'
  <2>1. \A r, q \in Persons : \A i \in Items(r, q)' : i.members = ms
    BY <1>0, <1>2, <1>5, <1>6 DEF Adds, MailCalm, AreInvites
  <2>2. joined' = {p} /\ members'[p] = ms
    BY <1>1, <1>2 DEF TypeOK
  <2>3. QED
    BY <2>1, <2>2 DEF Ranked
<1>9. AddersRanked'
  <2>1. [q \in Persons |-> 0] \in [Persons -> Nat]
    OBVIOUS
  <2>2. QED
    BY <1>8, <2>1 DEF AddersRanked
<1>10. Settled' /\ Takes(p, ms)
  BY <1>0, <1>1 DEF Settled, Takes
<1>11. QED
  BY <1>7, <1>9, <1>10, GrowCalm

(* group_add.                                                              *)
LEMMA AddCalm ==
    ASSUME TypeOK, TypeOK', CalmInv, calm', NEW p \in Persons, NEW s \in Persons,
           NEW qs \in SUBSET Persons, Add(p, s, qs)
    PROVE  CalmInv'
<1>k. PICK known \in [Persons -> Nat] : known = knows[p]
  BY DEF TypeOK
<1>m. PICK ms \in SUBSET Persons : ms = members[p] \cup {s}
  BY DEF TypeOK
<1>t. PICK to \in SUBSET Persons : to = ms \ {p}
  OBVIOUS
<1>0. Settled /\ FirstKeys /\ MailCalm
  BY DEF CalmInv
<1>1. /\ members' = [members EXCEPT ![p] = ms] /\ p \in joined
      /\ UNCHANGED <<dev, knows, trusts, joined, gen, iter, keys, got>>
  BY <1>m DEF Add, AddMember, deviceVars
<1>2. gen[p] = 1 /\ p \in members[p] /\ iter[p] \in Nat
  BY <1>0, <1>1 DEF FirstKeys, TypeOK
<1>3. Targets(p, ms) = to
  BY <1>0, <1>t DEF Targets, Settled
<1>c. qs = to
  BY <1>m, <1>3 DEF Add, Count
<1>4. Posted(p, to, Invitation(p, ms, 1, iter[p], known))
  BY <1>k, <1>m, <1>2, <1>c DEF Add, Distribute, Post, InviteFor, Posted, Invitation
<1>5. PICK new : new = InvitesTo(p, to, ms, 1, iter[p], known)
  OBVIOUS
<1>6. Adds(p, new)
  BY <1>2, <1>4, <1>5, InvitesAdded
<1>7. AreInvites(new, to, ms, iter[p])
  BY <1>0, <1>2, <1>5, InvitesOfCalm
<1>8. Grow(p, ms, to, new)
  <2>1. iter[p] <= iter[p] /\ joined' = joined \cup {p}
    BY <1>1, <1>2
  <2>2. QED
    BY <1>1, <1>2, <1>6, <1>7, <1>m, <1>t, <2>1 DEF Grow, AreInvites
<1>9. Settled' /\ Takes(p, ms)
  BY <1>0, <1>1 DEF Settled, Takes
<1>10. CASE \E r \in joined : s \in members[r]
  <2>1. \A q \in ms : \E r \in joined : q \in members[r]
    BY <1>1, <1>10, <1>m
  <2>2. QED
    BY <1>1, <1>8, <1>9, <2>1, GrowKnown
<1>11. CASE \A r \in joined : s \notin members[r]
  <2>1. PICK core \in SUBSET Persons, rank \in [Persons -> Nat] : Ranked(core, rank)
    BY DEF CalmInv, AddersRanked
  <2>2. Ranked(core, [rank EXCEPT ![s] = rank[p] + 1])'
    BY <1>0, <1>1, <1>8, <1>11, <1>m, <1>t, <2>1, AddRanked
  <2>3. [rank EXCEPT ![s] = rank[p] + 1] \in [Persons -> Nat]
    BY <2>1
  <2>4. AddersRanked'
    BY <2>2, <2>3 DEF AddersRanked
  <2>5. QED
    BY <1>8, <1>9, <2>4, GrowCalm
<1>12. QED
  BY <1>10, <1>11

(* q answers those in qs with its key.                                     *)
LEMMA ReplyCalm ==
    ASSUME TypeOK, Settled, Settled', calm', NEW q \in Persons, NEW qs \in SUBSET Persons,
           NEW ms \in SUBSET Persons, NEW n \in Nat, NEW held,
           Reply(q, qs, ms, 1, n, held)
    PROVE  \E new : Adds(q, new) /\ AreInvites(new, qs \ {q}, ms, n)
<1>t. PICK to \in SUBSET Persons : to = qs \ {q}
  OBVIOUS
<1>k. PICK known \in [Persons -> Nat] : known = [r \in Persons |-> 1]
  OBVIOUS
<1>1. Reachable(q, qs) = to
  BY <1>t DEF Settled, Reachable
<1>2. Posted(q, to, Invitation(q, ms, 1, n, known))
  <2>1. mail' = [mail EXCEPT ![q] = [r \in Persons |->
                   IF r \in to THEN @[r] \o <<Invite(dev[q], knows'[q][r], ms, 1, n)>>
                   ELSE @[r]]]
    <3>1. PICK some \in SUBSET Reachable(q, qs) :
            /\ Parked(some, Reachable(q, qs))
            /\ Post(q, some, LAMBDA r : <<Invite(dev[q], knows'[q][r], ms, 1, n)>>)
      BY Zenon DEF Reply
    <3>2. some = to
      BY <1>1, <3>1, ParkedCalm
    <3>3. QED
      BY <3>1, <3>2 DEF Post
  <2>2. \A r \in Persons : Invitation(q, ms, 1, n, known)[r] = Invite(dev[q], knows'[q][r], ms, 1, n)
    BY <1>k DEF Invitation, Settled
  <2>3. QED
    BY <2>1, <2>2, Zenon DEF Posted
<1>3. PICK new : new = InvitesTo(q, to, ms, 1, n, known)
  OBVIOUS
<1>4. Adds(q, new)
  BY <1>2, <1>3, InvitesAdded
<1>5. AreInvites(new, to, ms, n)
  BY <1>3, InvitesOfCalm
<1>6. QED
  BY <1>4, <1>5, <1>t

(* What an invitation says when it arrives.                                *)
LEMMA InviteArrives ==
    ASSUME TypeOK, CalmInv, NEW p \in Persons, NEW q \in Persons,
           NEW n \in 1 .. Len(mail[p][q]), NEW m, m = mail[p][q][n]
    PROVE  /\ m \in Items(p, q) /\ m \in Item /\ n \in Nat
           /\ p \in joined /\ m.dev = 1 /\ m.gen = 1
           /\ m.kind = "invite" => m.iter <= iter[p] /\ m.members \subseteq members[p]
           /\ Remember(q, p, m) => knows' = knows
<1>1. m \in Items(p, q)
  BY DEF Items
<1>2. /\ p \in joined /\ m.dev = 1 /\ m.gen = 1
      /\ m.kind = "invite" => m.iter <= iter[p] /\ m.members \subseteq members[p]
  BY <1>1 DEF CalmInv, MailCalm
<1>3. Remember(q, p, m) => knows' = knows
  <2>1. knows \in [Persons -> [Persons -> Nat]] /\ knows[q][p] = 1
    BY DEF TypeOK, CalmInv, Settled
  <2>2. [knows EXCEPT ![q][p] = 1] = knows
    BY <2>1
  <2>3. QED
    BY <1>2, <2>2 DEF Remember
<1>4. QED
  BY <1>1, <1>2, <1>3, ArrivalTyped

(* recv_group_invite, first time.                                          *)
LEMMA JoinCalm ==
    ASSUME TypeOK, TypeOK', CalmInv, calm', NEW p \in Persons, NEW q \in Persons,
           NEW n \in 1 .. Len(mail[p][q]), Join(q, p, n)
    PROVE  CalmInv'
<1>m. PICK m : m = mail[p][q][n]
  OBVIOUS
<1>0. Settled /\ FirstKeys
  BY DEF CalmInv
<1>1. /\ Remember(q, p, m) /\ Accepted(q, p, n) /\ m.kind = "invite" /\ {p, q} \subseteq m.members
      /\ keys' = [keys EXCEPT ![q][p] = ReceiverKey(m)] /\ q \notin joined
      /\ joined' = joined \cup {q} /\ members' = [members EXCEPT ![q] = m.members]
      /\ gen' = [gen EXCEPT ![q] = @ + 1] /\ iter' = [iter EXCEPT ![q] = 0]
      /\ UNCHANGED <<dev, trusts>>
      /\ Reply(q, m.members, m.members, gen[q] + 1, 0, {})
  BY <1>m DEF Join, NewGroup
<1>2. /\ m \in Items(p, q) /\ m \in Item /\ n \in Nat /\ p \in joined /\ m.gen = 1
      /\ m.iter <= iter[p] /\ m.members \subseteq members[p] /\ knows' = knows
  BY <1>1, <1>m, InviteArrives
<1>3. PICK ms \in SUBSET Persons : ms = m.members
  BY <1>2 DEF Item
<1>4. Settled'
  BY <1>0, <1>1, <1>2 DEF Settled
<1>5. gen[q] = 0 /\ members[q] = {}
  BY <1>0, <1>1 DEF FirstKeys
<1>6. PICK new : Adds(q, new) /\ AreInvites(new, ms \ {q}, ms, 0)
  <2>1. Reply(q, ms, ms, 1, 0, {})
    BY <1>1, <1>3, <1>5
  <2>2. QED
    BY <1>0, <1>4, <2>1, ReplyCalm
<1>7. Grow(q, ms, ms \ {q}, new)
  <2>1. gen'[q] = 1 /\ iter'[q] = 0 /\ \A r \in Persons \ {q} : gen'[r] = gen[r] /\ iter'[r] = iter[r]
    BY <1>1, <1>5 DEF TypeOK
  <2>2. QED
    BY <1>1, <1>3, <1>5, <1>6, <2>1 DEF Grow, AreInvites
<1>8. Takes(q, ms)
  <2>1. ReceiverKey(m) \in Key /\ ReceiverKey(m).gen = 1 /\ ReceiverKey(m).iter <= iter[p]
    BY <1>2 DEF ReceiverKey, Key, Item
  <2>2. QED
    BY <1>1, <1>2, <1>3, <1>m, <2>1 DEF Takes, Accepted
<1>9. \A s \in ms : \E r \in joined : s \in members[r]
  BY <1>2, <1>3
<1>10. ms \ {q} \in SUBSET Persons
  OBVIOUS
<1>11. \E r \in Persons : \E i \in Items(r, q) : i.kind = "invite" /\ i.members \subseteq ms
  BY <1>1, <1>2, <1>3
<1>12. QED
  BY <1>4, <1>7, <1>8, <1>9, <1>10, <1>11, GrowKnown

(* recv_group_invite, known group.                                         *)
LEMMA LearnCalm ==
    ASSUME TypeOK, TypeOK', CalmInv, calm', NEW p \in Persons, NEW q \in Persons,
           NEW n \in 1 .. Len(mail[p][q]), Learn(q, p, n)
    PROVE  CalmInv'
<1>m. PICK m : m = mail[p][q][n]
  OBVIOUS
<1>0. Settled /\ FirstKeys
  BY DEF CalmInv
<1>1. /\ Remember(q, p, m) /\ Accepted(q, p, n) /\ m.kind = "invite" /\ q \in joined
      /\ keys' = [keys EXCEPT ![q][p] = ReceiverKey(m)]
      /\ members' = [members EXCEPT ![q] = members[q] \cup m.members]
      /\ UNCHANGED <<dev, trusts, joined, gen, iter>>
      /\ Reply(q, m.members \ members[q], members[q] \cup m.members, gen[q], iter[q], shares[q])
  BY <1>m DEF Learn
<1>2. /\ m \in Items(p, q) /\ m \in Item /\ n \in Nat /\ p \in joined /\ m.gen = 1
      /\ m.iter <= iter[p] /\ m.members \subseteq members[p] /\ knows' = knows
  BY <1>1, <1>m, InviteArrives
<1>3. PICK ms \in SUBSET Persons : ms = members[q] \cup m.members
  BY <1>2 DEF Item, TypeOK
<1>t. PICK to \in SUBSET Persons : to = m.members \ members[q]
  BY <1>3
<1>4. Settled'
  BY <1>0, <1>1, <1>2 DEF Settled
<1>5. gen[q] = 1 /\ q \in members[q] /\ iter[q] \in Nat
  BY <1>0, <1>1 DEF FirstKeys, TypeOK
<1>6. PICK new : Adds(q, new) /\ AreInvites(new, to \ {q}, ms, iter[q])
  <2>1. Reply(q, to, ms, 1, iter[q], shares[q])
    BY <1>1, <1>3, <1>5, <1>t
  <2>2. QED
    BY <1>0, <1>4, <1>5, <2>1, ReplyCalm
<1>7. Grow(q, ms, to, new)
  <2>1. iter[q] <= iter[q] /\ joined' = joined \cup {q} /\ to \ {q} = to
    BY <1>1, <1>5, <1>t
  <2>2. QED
    BY <1>1, <1>3, <1>5, <1>6, <1>t, <2>1 DEF Grow, AreInvites
<1>8. Takes(q, ms)
  <2>1. ReceiverKey(m) \in Key /\ ReceiverKey(m).gen = 1 /\ ReceiverKey(m).iter <= iter[p]
    BY <1>2 DEF ReceiverKey, Key, Item
  <2>2. QED
    BY <1>1, <1>2, <1>3, <1>m, <2>1 DEF Takes, Accepted
<1>9. \A s \in ms : \E r \in joined : s \in members[r]
  BY <1>1, <1>2, <1>3
<1>10. QED
  BY <1>1, <1>4, <1>7, <1>8, <1>9, GrowKnown

(* group_send.                                                             *)
LEMMA SendCalm ==
    ASSUME TypeOK, TypeOK', CalmInv, NEW p \in Persons, NEW us \in SUBSET Persons,
           NEW qs \in SUBSET Persons, SendCopies(p, us, qs)
    PROVE  CalmInv'
<1>k. PICK known : known = knows[p]
  OBVIOUS
<1>a. PICK a : a = Invitation(p, members[p], gen[p], iter[p], known)
  OBVIOUS
<1>b. PICK b : b = TextFor(p, known)
  OBVIOUS
<1>m. PICK ms \in SUBSET Persons : ms = members[p]
  BY DEF TypeOK
<1>0. Settled /\ FirstKeys
  BY DEF CalmInv
<1>1. /\ UNCHANGED <<dev, knows, trusts, joined, members, gen, keys, got>>
      /\ iter' = [iter EXCEPT ![p] = @ + 1] /\ p \in joined /\ us \subseteq Unshared(p)
  BY DEF SendCopies, deviceVars
<1>2. gen[p] = 1 /\ p \in ms /\ dev[p] = 1 /\ iter[p] \in Nat /\ iter'[p] = iter[p] + 1
  BY <1>0, <1>1, <1>m DEF FirstKeys, Settled, TypeOK
<1>3. /\ \A q \in Persons : b[q] = Text(dev[p], known[q], gen[p], iter[p], texts + 1)
      /\ Adds(p, Both(us, a, qs, b))
  BY <1>k, <1>a, <1>b, SendPosts
<1>4. PICK new : new = Both(us, a, qs, b)
  OBVIOUS
<1>5. ASSUME NEW q \in Persons, NEW i \in new[q]
      PROVE  /\ i.dev = 1 /\ i.gen = 1 /\ i.kind \in {"invite", "text"}
             /\ i.kind = "invite" => i.members = ms /\ q \in ms /\ i.iter <= iter'[p]
  <2>1. (q \in us /\ i = a[q]) \/ i = b[q]
    BY <1>4, <1>5 DEF Both
  <2>2. CASE q \in us /\ i = a[q]
    <3>1. i = Invite(1, known[q], ms, 1, iter[p])
      BY <1>2, <1>a, <1>m, <2>2 DEF Invitation
    <3>2. q \in ms /\ iter[p] <= iter'[p]
      BY <1>1, <1>2, <1>m, <2>2 DEF Unshared, Targets
    <3>3. QED
      BY <3>1, <3>2 DEF Invite
  <2>3. CASE i = b[q]
    <3>1. i = Text(1, known[q], 1, iter[p], texts + 1)
      BY <1>2, <1>3, <2>3
    <3>2. QED
      BY <3>1 DEF Text
  <2>4. QED
    BY <2>1, <2>2, <2>3
<1>6. Grow(p, ms, {}, new)
  <2>1. members' = [members EXCEPT ![p] = ms] /\ joined' = joined \cup {p}
    BY <1>1, <1>m DEF TypeOK
  <2>2. iter[p] <= iter'[p] /\ \A r \in Persons \ {p} : gen'[r] = gen[r] /\ iter'[r] = iter[r]
    BY <1>1, <1>2 DEF TypeOK
  <2>3. QED
    BY <1>1, <1>2, <1>3, <1>4, <1>5, <1>m, <2>1, <2>2 DEF Grow
<1>7. Settled' /\ Takes(p, ms)
  BY <1>0, <1>1 DEF Settled, Takes
<1>8. {} \in SUBSET Persons /\ \A s \in ms : \E r \in joined : s \in members[r]
  BY <1>1, <1>m
<1>9. QED
  BY <1>1, <1>6, <1>7, <1>8, GrowKnown

(* recv_group_text.                                                        *)
LEMMA ReadCalm ==
    ASSUME GroupInv, TypeOK', CalmInv, NEW p \in Persons, NEW q \in Persons,
           NEW n \in 1 .. Len(mail[p][q]), Read(q, p, n)
    PROVE  CalmInv'
<1>m. PICK m : m = mail[p][q][n]
  OBVIOUS
<1>s. PICK ms \in SUBSET Persons : ms = members[q]
  BY DEF GroupInv, TypeOK
<1>0. Settled /\ FirstKeys /\ TypeOK /\ PastInv
  BY DEF CalmInv, GroupInv
<1>1. /\ UNCHANGED <<dev, knows, trusts, mail, joined, members, shares, gen, iter>>
      /\ q \in joined /\ keys[q][p] # None /\ m.kind = "text"
      /\ keys' = [keys EXCEPT ![q][p] = Ratcheted(@, m.iter)] /\ Accepted(q, p, n)
  BY <1>m DEF Read, Readable, deviceVars
<1>2. m \in Items(p, q) /\ m \in Item /\ p \in joined /\ m.gen = 1
  BY <1>0, <1>m, InviteArrives
<1>3. gen[q] = 1 /\ q \in members[q] /\ gen[p] = 1 /\ iter[q] \in Nat /\ iter[p] \in Nat
  BY <1>0, <1>1, <1>2 DEF FirstKeys, TypeOK
<1>4. PICK new : new = [r \in Persons |-> {}]
  OBVIOUS
<1>5. Adds(q, new)
  BY <1>1, <1>4, SameAdds
<1>6. Grow(q, ms, {}, new)
  <2>1. members' = [members EXCEPT ![q] = ms] /\ joined' = joined \cup {q} /\ iter[q] <= iter[q]
    BY <1>0, <1>1, <1>3, <1>s DEF TypeOK
  <2>2. QED
    BY <1>1, <1>3, <1>4, <1>5, <1>s, <2>1 DEF Grow
<1>7. PICK k \in Key : /\ k = Ratcheted(keys[q][p], m.iter)
                       /\ k.gen = 1 /\ k.iter <= iter[p]
  <2>1. keys[q][p] \in Key /\ keys[q][p].gen = 1 /\ keys[q][p].iter <= iter[p]
    BY <1>0, <1>1 DEF TypeOK, CalmInv, KeysCalm
  <2>2. m.iter \in Nat /\ m.iter < iter[p]
    BY <1>0, <1>1, <1>2, <1>3 DEF PastInv, Item
  <2>3. Ratcheted(keys[q][p], m.iter) \in Key
    BY <2>1, <2>2, RatchetTyped
  <2>4. PICK bank : bank = Banked(keys[q][p].skipped \cup (keys[q][p].iter .. (m.iter - 1)))
    OBVIOUS
  <2>5. Ratcheted(keys[q][p], m.iter) =
          IF m.iter \in keys[q][p].skipped
            THEN [keys[q][p] EXCEPT !.skipped = keys[q][p].skipped \ {m.iter}]
            ELSE [keys[q][p] EXCEPT !.iter = m.iter + 1, !.skipped = bank]
    BY <2>1, <2>4 DEF Ratcheted, Key
  <2>6. m.iter + 1 <= iter[p]
    BY <1>3, <2>2
  <2>7. /\ Ratcheted(keys[q][p], m.iter).gen = 1
        /\ Ratcheted(keys[q][p], m.iter).iter <= iter[p]
    BY <2>1, <2>5, <2>6 DEF Key
  <2>8. QED
    BY <2>3, <2>7
<1>8. Takes(q, ms)
  <2>1. keys' = [keys EXCEPT ![q][p] = k]
    BY <1>1, <1>7
  <2>2. QED
    BY <1>1, <1>2, <1>7, <1>m, <2>1 DEF Takes, Accepted
<1>9. Settled'
  BY <1>0, <1>1 DEF Settled
<1>10. {} \in SUBSET Persons /\ \A s \in ms : \E r \in joined : s \in members[r]
  BY <1>1, <1>s
<1>11. QED
  BY <1>0, <1>1, <1>6, <1>8, <1>9, <1>10, GrowKnown

(* A new contact, or nothing at all, changes nothing.                      *)
LEMMA SameCalm ==
    ASSUME CalmInv,
           UNCHANGED <<dev, knows, joined, members, gen, iter, keys, mail, got>>,
           \A p \in Persons : trusts[p] \subseteq trusts'[p]
    PROVE  CalmInv'
<1>1. \A p, q \in Persons : Items(p, q)' = Items(p, q)
  BY DEF Items
<1>2. Settled' /\ FirstKeys' /\ MailCalm' /\ GotCalm' /\ KeysCalm'
  BY <1>1 DEF CalmInv, Settled, FirstKeys, MailCalm, GotCalm, KeysCalm
<1>3. AllInvited'
  BY DEF CalmInv, AllInvited, Items
<1>4. AddersRanked'
  <2>1. PICK core \in SUBSET Persons, rank \in [Persons -> Nat] : Ranked(core, rank)
    BY DEF CalmInv, AddersRanked
  <2>2. \A x, t : Tells(x, t)' <=> Tells(x, t)
    BY DEF Tells, Items
  <2>3. Ranked(core, rank)'
    BY <1>1, <2>1, <2>2 DEF Ranked
  <2>4. QED
    BY <2>3 DEF AddersRanked
<1>5. QED
  BY <1>2, <1>3, <1>4 DEF CalmInv

(* A calm step keeps the calm.                                             *)
LEMMA NextCalm ==
    ASSUME GroupInv, TypeOK', CalmInv, [Next]_vars, calm'
    PROVE  CalmInv'
<1>0. TypeOK /\ Settled /\ MailCalm
  BY DEF GroupInv, CalmInv
<1>1. ASSUME NEW p \in Persons, Command(p) PROVE CalmInv'
  <2>1. ASSUME NEW ms \in SUBSET Persons, NEW qs \in SUBSET Persons, Create(p, ms, qs)
        PROVE  CalmInv'
    BY <1>0, <2>1, CreateCalm
  <2>2. ASSUME NEW s \in Persons, NEW qs \in SUBSET Persons, Add(p, s, qs) PROVE CalmInv'
    BY <1>0, <2>2, AddCalm
  <2>3. ASSUME NEW ks \in SUBSET Persons, NEW qs \in SUBSET Persons, Send(p, ks, qs)
        PROVE  CalmInv'
    BY <1>0, <2>3, SendCalm DEF Send
  <2>4. \A change \in {"fault", "leave", "move"} : ~ Count(change)
    BY DEF Count
  <2>5. QED
    BY <1>0, <1>1, <2>1, <2>2, <2>3, <2>4, CommandChoices
    DEF CreateTorn, AddTorn, SendTornKeys, SendTorn, LeaveTorn, Leave
<1>2. ASSUME NEW p \in Persons, Move(p) PROVE CalmInv'
  BY <1>2 DEF Move, Count
<1>3. ASSUME NEW p \in Persons, NEW q \in Persons, Refresh(q, p) PROVE CalmInv'
  BY <1>0, <1>3 DEF Refresh, Settled
<1>4. ASSUME NEW p \in Persons, NEW q \in Persons, AddContact(q, p) PROVE CalmInv'
  <2>1. UNCHANGED <<dev, knows, joined, members, gen, iter, keys, mail, got>>
    BY <1>4 DEF AddContact, groupVars, mailVars
  <2>2. \A r \in Persons : trusts[r] \subseteq trusts'[r]
    BY <1>0, <1>4 DEF AddContact, TypeOK
  <2>3. QED
    BY <2>1, <2>2, SameCalm
<1>5. ASSUME NEW q \in Persons, NEW p \in Persons, NEW n \in 1 .. Len(mail[p][q]),
             Accept(q, p, n)
      PROVE  CalmInv'
  <2>1. CASE Join(q, p, n)
    BY <1>0, <2>1, JoinCalm
  <2>2. CASE Learn(q, p, n)
    BY <1>0, <2>2, LearnCalm
  <2>3. CASE Read(q, p, n)
    BY <2>3, ReadCalm
  <2>4. mail[p][q][n].kind # "leave"
    <3>1. mail[p][q][n] \in Items(p, q)
      BY DEF Items
    <3>2. QED
      BY <1>0, <3>1 DEF MailCalm
  <2>5. QED
    BY <1>5, <2>1, <2>2, <2>3, <2>4 DEF Accept, IgnoreLeave, SeeLeave
<1>6. CASE UNCHANGED vars
  BY <1>6, SameCalm DEF vars, deviceVars, groupVars, mailVars
<1>7. QED
  BY <1>1, <1>2, <1>3, <1>4, <1>5, <1>6 DEF Next

(* At first there is no group.                                             *)
LEMMA InitCalm ==
    ASSUME Init, AllFriends
    PROVE  CalmInv
<1>1. \A p, q \in Persons : Items(p, q) = {}
  BY DEF Init, Items
<1>2. Settled
  BY DEF Init, AllFriends, Settled
<1>3. FirstKeys /\ MailCalm /\ GotCalm /\ KeysCalm /\ AllInvited
  BY <1>1 DEF Init, FirstKeys, MailCalm, GotCalm, KeysCalm, AllInvited
<1>4. AddersRanked
  <2>1. [p \in Persons |-> 0] \in [Persons -> Nat]
    OBVIOUS
  <2>2. Ranked({}, [p \in Persons |-> 0])
    BY <1>1 DEF Init, Ranked
  <2>3. QED
    BY <2>1, <2>2 DEF AddersRanked
<1>5. QED
  BY <1>2, <1>3, <1>4 DEF CalmInv

(* The calm does not come back.                                            *)
LEMMA CalmStays ==
    ASSUME [Next]_vars, calm'
    PROVE  calm
<1>1. \A change : Count(change) => calm
  BY DEF Count
<1>p. \A qs, all : Parked(qs, all) => calm
  BY <1>1 DEF Parked, bound
<1>2. ASSUME NEW p \in Persons, Command(p) \/ Move(p) PROVE calm
  <2>1. CASE Command(p)
    BY <1>1, <1>p, <2>1 DEF Command, Create, CreateTorn, Add, AddTorn, Send, SendTornKeys,
                      SendTorn, Leave, LeaveTorn, bound
  <2>2. CASE Move(p)
    BY <1>1, <2>2 DEF Move
  <2>3. QED
    BY <1>2, <2>1, <2>2
<1>3. ASSUME NEW q \in Persons, NEW p \in Persons, Refresh(q, p) \/ AddContact(q, p) PROVE calm
  BY <1>3 DEF Refresh, AddContact, bound
<1>4. ASSUME NEW q \in Persons, NEW p \in Persons, NEW n \in 1 .. Len(mail[p][q]),
             Accept(q, p, n)
      PROVE  calm
  BY <1>p, <1>4 DEF Accept, Join, Learn, Read, IgnoreLeave, SeeLeave, Reply, bound
<1>5. CASE UNCHANGED vars
  BY <1>5 DEF vars, bound
<1>6. QED
  BY <1>2, <1>3, <1>4, <1>5 DEF Next

(* Some number of a set of numbers is the least.                           *)
LEMMA LeastNumber ==
    ASSUME NEW S \in SUBSET Nat, S # {}
    PROVE  \E m \in S : \A k \in S : m <= k
<1>1. PICK m \in S : \A k \in S : ~ (<<k, m>> \in OpToRel(<, Nat))
  BY WFMin, NatLessThanWellFounded, Zenon
<1>2. ASSUME NEW k \in S PROVE m <= k
  <2>1. ~ (k < m)
    BY <1>1 DEF OpToRel
  <2>2. QED
    BY <2>1
<1>3. QED
  BY <1>2

(* Once the mail is in, an invitation from somebody that its receiver      *)
(* counts in has been accepted.                                            *)
LEMMA InvitationsIn ==
    ASSUME TypeOK, CalmInv, Quiet, NEW p \in Persons, NEW q \in Persons,
           NEW i \in Items(p, q), i.kind = "invite"
    PROVE  q \in joined /\ (p \in members[q] => i.members \subseteq members[q] /\ keys[q][p] # None)
<1>1. PICK n \in 1 .. Len(mail[p][q]) : i = mail[p][q][n]
  BY DEF Items
<1>2. i.dev = 1 /\ knows[q][p] = 1
  BY DEF CalmInv, Settled, MailCalm
<1>3. CASE n \in got[q][p]
  BY <1>1, <1>3 DEF CalmInv, GotCalm
<1>4. CASE n \notin got[q][p]
  <2>1. i.dev < knows[q][p] \/ (q \in joined /\ p \notin members[q])
    BY <1>1, <1>4 DEF Quiet
  <2>2. QED
    BY <1>2, <2>1
<1>5. QED
  BY <1>3, <1>4

(* Who is counted in by somebody.                                          *)
Counted == {s \in Persons : \E p \in joined : s \in members[p]}

(* Once the mail is in, everyone who is counted in counts everyone in: of  *)
(* two who do not, with the lowest ranks, the later one was added by       *)
(* somebody of a lower rank, who is counted in by the other, counts it in  *)
(* and has told it.                                                        *)
LEMMA QuietAgree ==
    ASSUME TypeOK, CalmInv, Quiet
    PROVE  Counted \subseteq joined /\ \A q, s \in Counted : s \in members[q]
<1>1. Counted \subseteq joined
  <2> SUFFICES ASSUME NEW s \in Counted, s \notin joined PROVE FALSE
    OBVIOUS
  <2>1. PICK p \in joined : s \in members[p]
    BY DEF Counted
  <2>2. PICK i \in Items(p, s) : i.kind = "invite"
    BY <2>1 DEF CalmInv, AllInvited
  <2>3. p \in Persons /\ s \in Persons
    BY DEF Counted, TypeOK
  <2>4. QED
    BY <2>2, <2>3, InvitationsIn
<1>2. PICK core \in SUBSET Persons, rank \in [Persons -> Nat] : Ranked(core, rank)
  BY DEF CalmInv, AddersRanked
<1>3. ASSUME NEW q \in Counted, NEW s \in Counted, s \notin members[q],
             \A r, t \in Counted : t \notin members[r] => rank[q] + rank[s] <= rank[r] + rank[t]
      PROVE  FALSE
  <2>1. q \in joined /\ s \in joined /\ q \in Persons /\ s \in Persons
    BY <1>1 DEF Counted
  <2>2. s \in members[s] /\ q \in members[q] /\ s # q
    BY <1>3, <2>1 DEF CalmInv, FirstKeys
  <2>3. core \subseteq members[q]
    BY <1>2, <2>1 DEF Ranked
  <2>4. PICK x \in joined : rank[x] < rank[s] /\ s \in members[x] /\ Tells(x, s)
    BY <1>2, <1>3, <2>1, <2>2, <2>3 DEF Ranked
  <2>5. x \in Persons /\ x \in members[x]
    BY <2>4 DEF TypeOK, CalmInv, FirstKeys
  <2>6. x \in Counted
    BY <2>4, <2>5 DEF Counted
  <2>7. rank[x] \in Nat /\ rank[s] \in Nat /\ rank[q] \in Nat
    BY <2>1, <2>5
  <2>8. x \in members[q] /\ q \in members[x]
    BY <1>3, <2>4, <2>6, <2>7
  <2>9. q # x
    BY <1>3, <2>4
  <2>10. PICK i \in Items(x, q) : i.kind = "invite" /\ s \in i.members
    BY <2>4, <2>8, <2>9 DEF Tells
  <2>11. i.members \subseteq members[q]
    BY <2>1, <2>5, <2>8, <2>10, InvitationsIn
  <2>12. QED
    BY <1>3, <2>10, <2>11
<1> DEFINE Sums == {n \in Nat : \E q, s \in Counted : s \notin members[q] /\ n = rank[q] + rank[s]}
<1>4. ASSUME NEW q \in Counted, NEW s \in Counted, s \notin members[q]
      PROVE  rank[q] + rank[s] \in Sums
  <2>1. q \in Persons /\ s \in Persons
    BY DEF Counted
  <2>2. rank[q] + rank[s] \in Nat
    BY <2>1
  <2>3. QED
    BY <1>4, <2>2
<1>5. Sums = {}
  <2> SUFFICES ASSUME Sums # {} PROVE FALSE
    OBVIOUS
  <2>1. Sums \in SUBSET Nat
    OBVIOUS
  <2>2. PICK m \in Sums : \A k \in Sums : m <= k
    <3> HIDE DEF Sums
    <3>1. QED
      BY <2>1, LeastNumber
  <2>3. PICK q \in Counted, s \in Counted : s \notin members[q] /\ m = rank[q] + rank[s]
    BY <2>2
  <2>4. \A r, t \in Counted : t \notin members[r] => rank[q] + rank[s] <= rank[r] + rank[t]
    <3> HIDE DEF Sums
    <3>1. QED
      BY <1>4, <2>2, <2>3
  <2>5. QED
    BY <1>3, <2>3, <2>4
<1>6. QED
  <2> HIDE DEF Sums
  <2>1. QED
    BY <1>1, <1>4, <1>5

-----------------------------------------------------------------------------
(* What a group's sender keys are good for, at any time: the keys and      *)
(* positions that were used, who is noted as holding the key in use.       *)
THEOREM GroupCorrect == Spec => []GroupInv
BY InitGroup, NextGroup, PTL DEF Spec

(* The state keeps its types (StoredGroup, SenderKey, ReceiverKey).        *)
THEOREM TypeCorrect == Spec => []TypeOK
<1>1. GroupInv => TypeOK
  BY DEF GroupInv
<1>2. QED
  BY <1>1, GroupCorrect, PTL

(* A position of a sender key encrypts one text, however often sends are   *)
(* cut short: group_send saves the advanced chain before a copy goes out.  *)
THEOREM PositionsUsedOnce == Spec => []PositionsOnce
<1>1. GroupInv => PositionsOnce
  <2> SUFFICES ASSUME GroupInv, NEW p \in Persons, NEW q \in Persons, NEW r \in Persons,
                      NEW s \in Sent(p, q, "text"), NEW t \in Sent(p, r, "text"),
                      s.gen = t.gen, s.iter = t.iter
               PROVE  s.id = t.id
    BY DEF PositionsOnce
  <2>1. s \in Items(p, q) /\ t \in Items(p, r) /\ s.kind = "text" /\ t.kind = "text"
    BY DEF Sent, Items
  <2>2. QED
    BY <2>1 DEF GroupInv, OnceInv
<1>2. QED
  BY <1>1, GroupCorrect, PTL

(* No text goes to a device that was not sent the key to read it with,     *)
(* unless that very send could not share the key (group_send,              *)
(* key_shared_with, note_key_share).                                       *)
THEOREM KeysBeforeTexts == Spec => []KeyBeforeText
<1>1. GroupInv => KeyBeforeText
  <2> SUFFICES ASSUME GroupInv, NEW p \in Persons, NEW q \in Persons,
                      NEW t \in Sent(p, q, "text"), MissOf(p, q, t) \notin missed
               PROVE  \E i \in Sent(p, q, "invite") :
                        i.todev = t.todev /\ i.gen = t.gen /\ i.iter <= t.iter
    BY DEF KeyBeforeText, MissOf
  <2>1. t \in Items(p, q) /\ t.kind = "text"
    BY DEF Sent, Items
  <2>2. PICK i \in Items(p, q) :
          i.kind = "invite" /\ i.todev = t.todev /\ i.gen = t.gen /\ i.iter <= t.iter
    BY <2>1 DEF GroupInv, KeyInv
  <2>3. i \in Sent(p, q, "invite")
    BY <2>2 DEF Sent, Items
  <2>4. QED
    BY <2>2, <2>3
<1>2. QED
  BY <1>1, GroupCorrect, PTL

(* Whoever is not a member was never sent the sender key in use            *)
(* (recv_group_leave takes a fresh one).                                   *)
THEOREM FormerMembersLockedOut == Spec => []FormerCannotRead
<1>1. GroupInv => FormerCannotRead
  <2> SUFFICES ASSUME GroupInv, NEW p \in joined, NEW q \in Persons, q # p, q \notin members[p],
                      NEW i \in Sent(p, q, "invite")
               PROVE  i.gen # gen[p]
    BY DEF FormerCannotRead
  <2>1. i \in Items(p, q) /\ i.kind = "invite"
    BY DEF Sent, Items
  <2>2. QED
    BY <2>1 DEF GroupInv, FormerInv
<1>2. QED
  BY <1>1, GroupCorrect, PTL

(* Members find each other when all are contacts: however additions and    *)
(* invitations cross, once the mail is in they agree on who is in the      *)
(* group, and have the keys in use (recv_group_invite passes our key on to *)
(* newcomers).                                                             *)
THEOREM MembersFindEachOther == Spec => []MembersAgree
<1> DEFINE Inv == GroupInv /\ (AllFriends /\ calm => CalmInv)
<1>1. Init => Inv
  BY InitGroup, InitCalm
<1>2. Inv /\ [Next]_vars => Inv'
  <2> SUFFICES ASSUME Inv, [Next]_vars PROVE Inv'
    OBVIOUS
  <2>1. GroupInv'
    BY NextGroup
  <2>2. AllFriends' <=> AllFriends
    BY DEF AllFriends
  <2>3. ASSUME AllFriends', calm' PROVE CalmInv'
    <3>1. AllFriends /\ calm
      BY <2>2, <2>3, CalmStays
    <3>2. GroupInv /\ CalmInv
      BY <3>1
    <3>3. TypeOK'
      BY <2>1 DEF GroupInv
    <3>4. QED
      BY <2>3, <3>2, <3>3, NextCalm
  <2>4. QED
    BY <2>1, <2>3
<1>3. Inv => MembersAgree
  <2> SUFFICES ASSUME Inv, AllFriends, Quiet, calm,
                      NEW p \in joined, NEW q \in members[p] \ {p}
               PROVE  /\ q \in joined /\ members[q] = members[p] /\ keys[q][p] # None
                      /\ keys[q][p].gen = gen[p] /\ keys[q][p].iter <= iter[p]
    BY DEF MembersAgree
  <2>1. TypeOK /\ CalmInv
    BY DEF GroupInv
  <2>2. p \in Persons /\ q \in Persons /\ p \in members[p] /\ gen[p] = 1
    BY <2>1 DEF TypeOK, CalmInv, FirstKeys
  <2>3. Counted \subseteq joined /\ \A r, s \in Counted : s \in members[r]
    BY <2>1, QuietAgree
  <2>4. p \in Counted /\ q \in Counted /\ q \in joined
    BY <2>2, <2>3 DEF Counted
  <2>5. members[p] \subseteq Counted /\ members[q] \subseteq Counted
    BY <2>1, <2>2, <2>4 DEF Counted, TypeOK
  <2>6. members[q] = members[p]
    BY <2>3, <2>4, <2>5
  <2>7. PICK i \in Items(p, q) : i.kind = "invite"
    BY <2>1 DEF CalmInv, AllInvited
  <2>8. keys[q][p] # None
    BY <2>1, <2>2, <2>6, <2>7, InvitationsIn
  <2>9. keys[q][p].gen = 1 /\ keys[q][p].iter <= iter[p]
    BY <2>1, <2>2, <2>8 DEF CalmInv, KeysCalm
  <2>10. QED
    BY <2>2, <2>4, <2>6, <2>8, <2>9
<1>4. QED
  BY <1>1, <1>2, <1>3, PTL DEF Spec
=============================================================================
