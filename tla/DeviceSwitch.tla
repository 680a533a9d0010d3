---------------------------- MODULE DeviceSwitch ----------------------------
(***************************************************************************)
(* One account and the devices on which its user logs in: the native       *)
(* mobile client (mycellium-mobile) and the desktop application            *)
(* (mycellium-linux).  A device recovers or creates the account's wallet,  *)
(* publishes itself as the one active device, and learns from the registry *)
(* that another one has taken its place.                                   *)
(*                                                                         *)
(* Every call to the registry is a step of its own, so that devices        *)
(* interleave between the calls of one login.  A login is numbered by its  *)
(* bearer token; the keys that a login makes bear its number too.  The     *)
(* registry's side of a call is the one of RegistryBlobs and RegistryLogin.*)
(***************************************************************************)
EXTENDS Naturals

CONSTANTS
    Mobiles, Desktops,   \* devices, by the application they run
    None,
    MaxLogins,           \* bound on logins
    MaxEdits,            \* bound on profile changes
    MaxOpens             \* bound on starts of an application

Devices == Mobiles \cup Desktops

ASSUME DeviceAssumption ==
    /\ Mobiles \cap Desktops = {}
    /\ None \notin Devices
    /\ MaxLogins \in Nat /\ MaxEdits \in Nat /\ MaxOpens \in Nat

VARIABLES
    wallet,      \* registry: number of the wallet kept for recovery, or 0
    record,      \* registry: the published record, or None
    bearer,      \* registry: the one session of the account, or 0
    expired,     \* the sessions up to this one are over
    logins,      \* number of logins so far
    edits, opens,
    secret,      \* the identity that a device keeps
    store,       \* a device's encrypted files
    app,         \* the memory of a running application
    task,        \* the login or publication that a device is busy with
    poll         \* the answer that a device's monitor has got, or None

registry == <<wallet, record, bearer>>
bounds == <<expired, logins, edits, opens>>
vars == <<bounds, registry, secret, store, app, task, poll>>

Tokens == 1 .. MaxLogins
(* A profile bears the number of the edit that made it, 0 at the setup of  *)
(* a desktop.                                                              *)
Names == 0 .. MaxEdits

(* An identity has the keys of a device and a wallet.  A record names a    *)
(* device key; born is the sequence number of its device part.             *)
Identity == [key : Tokens, wallet : Tokens]
Record == [seq : Nat \ {0}, born : Tokens, key : Tokens, wallet : Tokens, name : Names]

ASSUME NoneIsNothing == None \notin Identity /\ None \notin Record

(* key is the device key that the files are encrypted with, own the own    *)
(* record in the peer book.                                                *)
Store == [key : 0 .. MaxLogins, account : 0 .. MaxLogins, own : Record \cup {None}]
NoFiles == [key |-> 0, account |-> 0, own |-> None]

(* id is None as long as there is no session; recovery is what a desktop   *)
(* got at a login before it has an identity.                               *)
App == [id : Identity \cup {None}, account : 0 .. MaxLogins, recovery : 0 .. MaxLogins,
        current : BOOLEAN, monitor : BOOLEAN]
Closed == [id |-> None, account |-> 0, recovery |-> 0, current |-> FALSE, monitor |-> FALSE]

Pcs == {"idle", "recovery", "record", "adopt", "put_recovery", "open", "accept",
        "session", "save", "publish", "put", "set"}
Task == [pc : Pcs, token : 0 .. MaxLogins, recovery : 0 .. MaxLogins,
         remote : Record \cup {None}, id : Identity \cup {None},
         rec : Record \cup {None}, name : Names \cup {None}]
Idle == [pc |-> "idle", token |-> 0, recovery |-> 0, remote |-> None, id |-> None,
         rec |-> None, name |-> None]

TypeOK ==
    /\ wallet \in 0 .. MaxLogins
    /\ record \in Record \cup {None}
    /\ bearer \in 0 .. MaxLogins
    /\ expired \in 0 .. MaxLogins
    /\ logins \in 0 .. MaxLogins /\ edits \in 0 .. MaxEdits /\ opens \in 0 .. MaxOpens
    /\ secret \in [Devices -> Identity \cup {None}]
    /\ store \in [Devices -> Store]
    /\ app \in [Devices -> App]
    /\ task \in [Devices -> Task]
    /\ poll \in [Devices -> Record \cup {None}]

Init ==
    /\ wallet = 0 /\ record = None /\ bearer = 0
    /\ expired = 0 /\ logins = 0 /\ edits = 0 /\ opens = 0
    /\ secret = [d \in Devices |-> None]
    /\ store = [d \in Devices |-> NoFiles]
    /\ app = [d \in Devices |-> Closed]
    /\ task = [d \in Devices |-> Idle]
    /\ poll = [d \in Devices |-> None]

-----------------------------------------------------------------------------
Accepted(token) == token = bearer /\ token > expired

Continue(d, pc) == task' = [task EXCEPT ![d].pc = pc]
Done(d) == task' = [task EXCEPT ![d] = Idle]

Publishing(name) == [Idle EXCEPT !.pc = "publish", !.name = name]

(* A code from the mail is confirmed: the registry makes a session and     *)
(* revokes the one before (confirm_login).                                 *)
Login(d) ==
    /\ task[d].pc = "idle"
    /\ app[d].id # None \/ secret[d] = None
    /\ logins < MaxLogins
    /\ logins' = logins + 1
    /\ bearer' = logins'
    /\ task' = [task EXCEPT ![d] = [Idle EXCEPT !.pc = "recovery", !.token = logins']]
    /\ UNCHANGED <<expired, edits, opens, wallet, record, secret, store, app, poll>>

(* get_recovery needs the session, ...                                     *)
GetRecovery(d) ==
    /\ task[d].pc = "recovery"
    /\ Accepted(task[d].token)
    /\ task' = [task EXCEPT ![d].pc = "record", ![d].recovery = wallet]
    /\ UNCHANGED <<bounds, registry, secret, store, app, poll>>

(* ... get_record does not.                                                *)
GetRecord(d) ==
    /\ task[d].pc = "record"
    /\ task' = [task EXCEPT ![d].pc = "adopt", ![d].remote = record]
    /\ UNCHANGED <<bounds, registry, secret, store, app, poll>>

(* What the login found belongs to the identity on this device.            *)
Matches(t, id) ==
    /\ t.recovery \in {0, id.wallet}
    /\ t.remote # None => t.remote.wallet = id.wallet

(* Mutant of NewIdentity: the recovered wallet is not used.                *)
FreshIdentity(token, recovery) == [key |-> token, wallet |-> token]

(* adopt_identity recovers the wallet, create_identity makes a new one;    *)
(* both make new device keys.                                              *)
NewIdentity(token, recovery) ==
    [key |-> token, wallet |-> IF recovery = 0 THEN token ELSE recovery]

(* An identity record without recovery material cannot be adopted.         *)
Adoptable(t) == t.remote # None => t.recovery # 0

(* confirm_email_login_inner and accept_account of an unlocked device:     *)
(* which identity the login is for.                                        *)
Adopt(d) ==
    LET t == task[d]
        id == IF app[d].id # None THEN app[d].id ELSE NewIdentity(t.token, t.recovery)
    IN /\ t.pc = "adopt"
       /\ app[d].id # None \/ (d \in Mobiles /\ Adoptable(t))
       /\ Matches(t, id)
       /\ task' = [task EXCEPT ![d].id = id,
                               ![d].pc = IF t.recovery = 0 THEN "put_recovery" ELSE "open"]
       /\ UNCHANGED <<bounds, registry, secret, store, app, poll>>

(* accept_account of a desktop without identity keeps what it got.         *)
AcceptAccount(d) ==
    LET t == task[d]
    IN /\ t.pc = "adopt"
       /\ d \in Desktops /\ app[d].id = None
       /\ Adoptable(t)
       /\ app' = [app EXCEPT ![d].account = t.token, ![d].recovery = t.recovery]
       /\ Done(d)
       /\ UNCHANGED <<bounds, registry, secret, store, poll>>

(* create_identity of the desktop: the user sets up the device.            *)
CreateIdentity(d) ==
    LET a == app[d]
        id == NewIdentity(a.account, a.recovery)
    IN /\ d \in Desktops
       /\ task[d].pc = "idle"
       /\ a.id = None /\ secret[d] = None /\ a.account # 0
       /\ task' = [task EXCEPT ![d] =
             [Idle EXCEPT !.pc = IF a.recovery = 0 THEN "put_recovery" ELSE "open",
                          !.token = a.account, !.recovery = a.recovery,
                          !.id = id, !.name = 0]]
       /\ UNCHANGED <<bounds, registry, secret, store, app, poll>>

(* put_recovery: the registry keeps the first wallet it is given; one that *)
(* was only just made cannot be there yet.  A desktop without identity     *)
(* remembers what it has stored, for another attempt at its setup.         *)
PutRecovery(d) ==
    LET t == task[d]
        new == app[d].id = None
    IN /\ t.pc = "put_recovery"
       /\ Accepted(t.token)
       /\ wallet = 0 \/ (~ new /\ wallet = t.id.wallet)
       /\ wallet' = t.id.wallet
       /\ app' = IF new /\ d \in Desktops
                 THEN [app EXCEPT ![d].recovery = t.id.wallet] ELSE app
       /\ Continue(d, "open")
       /\ UNCHANGED <<bounds, record, bearer, secret, store, poll>>

Readable(d, key) == store[d].key \in {0, key}

(* check_and_pin of the own record: an older one, or another one with the  *)
(* same sequence number, is refused.                                       *)
Imports(own, remote) == own \notin {None, remote} => remote.seq > own.seq

(* The mobile client opens its store with the identity, saves the session, *)
(* imports the record, starts its workers and publishes this device if     *)
(* there is a profile.  A refused import is an error; the session is saved.*)
OpenMobile(d) ==
    LET t == task[d]
        own == IF t.remote = None THEN store[d].own ELSE t.remote
        refused == t.remote # None /\ ~ Imports(store[d].own, t.remote)
    IN /\ t.pc = "open"
       /\ d \in Mobiles
       /\ Readable(d, t.id.key)
       /\ store' = [store EXCEPT ![d] =
             [key |-> t.id.key, account |-> t.token,
              own |-> IF refused THEN @.own ELSE own]]
       /\ IF refused
          THEN Done(d) /\ UNCHANGED app
          ELSE /\ app' = [app EXCEPT ![d] =
                     [id |-> t.id, account |-> t.token, recovery |-> 0,
                      current |-> IF app[d].id = None THEN TRUE ELSE @.current,
                      monitor |-> TRUE]]
               /\ task' = [task EXCEPT ![d].pc = IF own = None THEN "set" ELSE "publish",
                                       ![d].rec = None,
                                       ![d].name = IF own = None THEN None ELSE own.name]
       /\ UNCHANGED <<bounds, registry, secret, poll>>

(* enforce_public_record_update: the order is that of (identity, device).  *)
Fresher(rec) ==
    record \notin {None, rec} =>
       rec.seq > record.seq \/ (rec.seq = record.seq /\ rec.born > record.born)

(* accept_account of an unlocked desktop: an account that had no record    *)
(* gets this device's, ...                                                 *)
Fills(d) == task[d].remote = None /\ store[d].own # None
FillRecord(d) ==
    LET own == store[d].own
    IN /\ task[d].pc = "open"
       /\ d \in Desktops /\ app[d].id # None
       /\ Fills(d)
       /\ Accepted(task[d].token) /\ wallet = own.wallet /\ Fresher(own)
       /\ record' = own
       /\ Continue(d, "accept")
       /\ UNCHANGED <<bounds, wallet, bearer, secret, store, app, poll>>

(* ... otherwise the flag follows the record; the session is saved and the *)
(* monitor started.                                                        *)
AcceptUnlocked(d) ==
    LET t == task[d]
    IN /\ t.pc = "accept" \/ (t.pc = "open" /\ ~ Fills(d))
       /\ d \in Desktops /\ app[d].id # None
       /\ store' = [store EXCEPT ![d].key = t.id.key, ![d].account = t.token]
       /\ app' = [app EXCEPT ![d].account = t.token, ![d].monitor = TRUE,
                             ![d].current = IF t.remote = None THEN @
                                            ELSE t.remote.key = t.id.key]
       /\ Done(d)
       /\ UNCHANGED <<bounds, registry, secret, poll>>

(* Mutant of SaveIdentity: the identity is left to be saved later.         *)
SaveIdentityLater(d) ==
    /\ task[d].pc = "open"
    /\ d \in Desktops /\ app[d].id = None
    /\ Continue(d, "session")
    /\ UNCHANGED <<bounds, registry, secret, store, app, poll>>

(* The rest of create_identity: the identity is saved, ...                 *)
SaveIdentity(d) ==
    /\ task[d].pc = "open"
    /\ d \in Desktops /\ app[d].id = None
    /\ secret' = [secret EXCEPT ![d] = task[d].id]
    /\ Continue(d, "session")
    /\ UNCHANGED <<bounds, registry, store, app, poll>>

(* ... open_session opens the store with it, where an account may have     *)
(* been saved earlier, ...                                                 *)
Opened(d, id) ==
    [app[d] EXCEPT !.id = id, !.current = TRUE, !.monitor = FALSE,
                   !.account = IF store[d].account = 0 THEN @ ELSE store[d].account]
OpenSession(d) ==
    /\ task[d].pc = "session"
    /\ Readable(d, task[d].id.key)
    /\ app' = [app EXCEPT ![d] = Opened(d, task[d].id)]
    /\ Continue(d, "save")
    /\ UNCHANGED <<bounds, registry, secret, store, poll>>

(* ... and the session goes into the store; then the profile is published. *)
SaveSession(d) ==
    /\ task[d].pc = "save"
    /\ store' = [store EXCEPT ![d].key = task[d].id.key, ![d].account = task[d].token]
    /\ app' = [app EXCEPT ![d].recovery = 0]
    /\ Continue(d, "publish")
    /\ UNCHANGED <<bounds, registry, secret, poll>>

-----------------------------------------------------------------------------
(* now(): a login waits for a mail, so that its second is later than that  *)
(* of the login before; all else may happen in the same second.            *)
clock == logins

(* with_device: the next sequence number of the own record.                *)
NextSeq(own) ==
    LET next == IF own = None THEN 1 ELSE own.seq + 1
    IN IF clock > next THEN clock ELSE next

(* publish_active_device_record: a record of this device with this name is *)
(* used again as it is.                                                    *)
OwnRecord(d, name) ==
    LET own == store[d].own
        id == app[d].id
    IN IF own # None /\ own.key = id.key /\ own.name = name THEN own
       ELSE [seq |-> NextSeq(own),
             born |-> IF own # None /\ own.key = id.key THEN own.born ELSE clock,
             key |-> id.key, wallet |-> id.wallet, name |-> name]

(* The user saves a new profile, or activates the device with the one it   *)
(* has.                                                                    *)
SaveProfile(d, new) ==
    /\ task[d].pc = "idle"
    /\ app[d].id # None
    /\ edits < MaxEdits
    /\ edits' = edits + 1
    /\ ~ new => store[d].own # None
    /\ task' = [task EXCEPT ![d] = Publishing(IF new THEN edits' ELSE store[d].own.name)]
    /\ UNCHANGED <<expired, logins, opens, registry, secret, store, app, poll>>

(* publish_profile_values, publish_profile: first the local record, ...    *)
PublishLocal(d) ==
    LET rec == OwnRecord(d, task[d].name)
    IN /\ task[d].pc = "publish"
       /\ store' = [store EXCEPT ![d].own = rec, ![d].key = app[d].id.key]
       /\ task' = [task EXCEPT ![d].rec = rec,
                               ![d].pc = IF app[d].account = 0 THEN "set" ELSE "put"]
       /\ UNCHANGED <<bounds, registry, secret, app, poll>>

(* ... then the registry, which takes only a fresher record of the wallet  *)
(* it keeps, ...                                                           *)
PutRecord(d) ==
    LET rec == task[d].rec
    IN /\ task[d].pc = "put"
       /\ app[d].account > expired
       /\ Accepted(app[d].account)
       /\ wallet = rec.wallet
       /\ Fresher(rec)
       /\ record' = rec
       /\ Continue(d, "set")
       /\ UNCHANGED <<bounds, wallet, bearer, secret, store, app, poll>>

(* ... or, when the session is over, must have the record already.         *)
CompareRecord(d) ==
    /\ task[d].pc = "put"
    /\ app[d].account <= expired
    /\ record = task[d].rec
    /\ Continue(d, "set")
    /\ UNCHANGED <<bounds, registry, secret, store, app, poll>>

(* The device is current.  A mobile login that made its identity (whose    *)
(* keys then bear the number of the login) returns it to the shell, which  *)
(* keeps it; a desktop starts its monitor.                                 *)
SetCurrent(d) ==
    LET t == task[d]
        a == app[d]
    IN /\ t.pc = "set"
       /\ app' = [app EXCEPT
             ![d].current = IF t.rec # None /\ (d \in Mobiles \/ a.account # 0)
                            THEN TRUE ELSE @,
             ![d].monitor = @ \/ (d \in Desktops /\ t.token # 0 /\ a.account # 0)]
       /\ secret' = IF d \in Mobiles /\ t.token # 0 /\ t.id.key = t.token
                    THEN [secret EXCEPT ![d] = t.id] ELSE secret
       /\ Done(d)
       /\ UNCHANGED <<bounds, registry, store, poll>>

(* A call fails, is refused, or its answer is lost: the operation ends.    *)
Fail(d) ==
    /\ task[d].pc \in Pcs \ {"idle", "publish"}
    /\ task[d].pc = "set" => task[d].rec # None /\ app[d].account # 0
    /\ Done(d)
    /\ UNCHANGED <<bounds, registry, secret, store, app, poll>>

-----------------------------------------------------------------------------
(* Mutant of StartMobile: workers start after a publication that succeeds. *)
StartMobileLate(d) ==
    LET own == store[d].own
    IN /\ d \in Mobiles
       /\ app' = [app EXCEPT ![d] =
             [id |-> secret[d], account |-> store[d].account, recovery |-> 0,
              current |-> TRUE, monitor |-> FALSE]]
       /\ task' = IF own = None THEN task ELSE [task EXCEPT ![d] = Publishing(own.name)]

(* MobileClient::open: the workers start, then the profile is published.   *)
StartMobile(d) ==
    LET own == store[d].own
    IN /\ d \in Mobiles
       /\ app' = [app EXCEPT ![d] =
             [id |-> secret[d], account |-> store[d].account, recovery |-> 0,
              current |-> TRUE, monitor |-> store[d].account # 0]]
       /\ task' = IF own = None THEN task ELSE [task EXCEPT ![d] = Publishing(own.name)]

(* unlock and restore_profile: the monitor starts at once only if there is *)
(* nothing to publish; otherwise after the publication, if it succeeds.    *)
StartDesktop(d) ==
    LET own == store[d].own
        publishes == own # None /\ own.key = secret[d].key
        opened == Opened(d, secret[d])
    IN /\ d \in Desktops
       /\ app' = [app EXCEPT ![d] =
             [opened EXCEPT !.monitor = ~ publishes /\ opened.account # 0]]
       /\ task' = IF publishes
                  THEN [task EXCEPT ![d] = [Publishing(own.name) EXCEPT !.token = opened.account]]
                  ELSE task

Start(d) ==
    /\ task[d].pc = "idle"
    /\ app[d].id = None /\ secret[d] # None
    /\ Readable(d, secret[d].key)
    /\ opens < MaxOpens
    /\ opens' = opens + 1
    /\ StartMobile(d) \/ StartDesktop(d)
    /\ UNCHANGED <<expired, logins, edits, registry, secret, store, poll>>

(* The application ends, at any point of what it does.                     *)
Quit(d) ==
    /\ app[d] # Closed \/ task[d] # Idle
    /\ app' = [app EXCEPT ![d] = Closed]
    /\ task' = [task EXCEPT ![d] = Idle]
    /\ poll' = [poll EXCEPT ![d] = None]
    /\ UNCHANGED <<bounds, registry, secret, store>>

(* The monitor asks the registry for the record, ...                       *)
PollGet(d) ==
    /\ app[d].monitor
    /\ poll[d] = None
    /\ record # None
    /\ poll' = [poll EXCEPT ![d] = record]
    /\ UNCHANGED <<bounds, registry, secret, store, app, task>>

(* ... and then stores what it says, whatever has happened since.          *)
PollSet(d) ==
    /\ poll[d] # None
    /\ app' = [app EXCEPT ![d].current =
          poll[d].wallet = app[d].id.wallet /\ poll[d].key = app[d].id.key]
    /\ poll' = [poll EXCEPT ![d] = None]
    /\ UNCHANGED <<bounds, registry, secret, store, task>>

(* RegistrySession::is_expired: a session is over, here and there.  All    *)
(* sessions last equally long, so they end in the order of their logins.   *)
Expire ==
    /\ expired < logins
    /\ expired' = expired + 1
    /\ UNCHANGED <<logins, edits, opens, registry, secret, store, app, task, poll>>

LoginStep(d) ==
    \/ GetRecovery(d) \/ GetRecord(d) \/ Adopt(d) \/ AcceptAccount(d) \/ PutRecovery(d)
    \/ OpenMobile(d) \/ FillRecord(d) \/ AcceptUnlocked(d)
    \/ SaveIdentity(d) \/ OpenSession(d) \/ SaveSession(d)

PublishStep(d) == PublishLocal(d) \/ PutRecord(d) \/ CompareRecord(d) \/ SetCurrent(d)

Next ==
    \/ \E d \in Devices :
          \/ Login(d) \/ LoginStep(d) \/ PublishStep(d) \/ Fail(d)
          \/ CreateIdentity(d) \/ \E new \in BOOLEAN : SaveProfile(d, new)
          \/ Start(d) \/ Quit(d) \/ PollGet(d) \/ PollSet(d)
    \/ Expire

Spec == Init /\ [][Next]_vars

(* The monitor thread keeps asking and some of its requests are answered;  *)
(* a login or publication goes on until it ends.                           *)
FairSpec ==
    /\ Spec
    /\ \A d \in Devices :
          /\ WF_vars(PollGet(d)) /\ WF_vars(PollSet(d))
          /\ WF_vars(LoginStep(d) \/ PublishStep(d) \/ Fail(d))

-----------------------------------------------------------------------------
(* Every identity that a device keeps can be recovered at the next login:  *)
(* the registry keeps its wallet, though devices may set up the account at *)
(* the same time (put_recovery before the identity is saved).              *)
Recoverable == \A d \in Devices : secret[d] # None => wallet = secret[d].wallet

(* The files of a desktop can be read with the identity on its disk,       *)
(* wherever a setup is cut short, fails or is tried again and whatever     *)
(* other devices do (create_identity, open_session, save_account_session). *)
KeptFor(d) == secret[d] # None /\ secret[d].key = store[d].key
DesktopFilesReadable == \A d \in Desktops : store[d].key # 0 => KeptFor(d)

(* The same of the mobile client when it is closed; its login promises to  *)
(* "atomically adopt or create the account identity" (confirm_email_login).*)
MobileFilesReadable == \A d \in Mobiles :
    store[d].key # 0 /\ app[d].id = None => KeptFor(d)

(* The flag of a running device that has an account follows the registry   *)
(* in the end: one that was replaced stops, also after a restart, and the  *)
(* active one works (start_workers, start_account_monitor).                *)
NamedActive(d) == record # None /\ app[d].id # None /\ record.key = app[d].id.key
Learns(d) ==
    (app[d].id # None /\ app[d].account # 0 /\ record # None /\ app[d].current # NamedActive(d))
       ~> (app[d].id = None \/ app[d].current = NamedActive(d))
MobilesLearn == \A d \in Mobiles : Learns(d)
DesktopsLearn == \A d \in Desktops : Learns(d)
=============================================================================
