------------------------- MODULE DeviceSwitch_proof -------------------------
(***************************************************************************)
(* Proofs about DeviceSwitch, for any devices and any bounds.              *)
(*                                                                         *)
(* Recoverable is not inductive: a login that is about to keep an identity *)
(* must already have its wallet in the registry.  WalletInv says so of     *)
(* every step from put_recovery on, and that what a login or an            *)
(* application remembers of the registry's wallet is still true, since the *)
(* registry never replaces it.                                             *)
(***************************************************************************)
EXTENDS DeviceSwitch, TLAPS

(* What a login or publication has at each of its steps.                   *)
TaskInv == \A d \in Devices :
    LET t == task[d]
        setup == \/ t.pc \in {"put_recovery", "open"} /\ d \in Desktops /\ app[d].id = None
                 \/ t.pc \in {"session", "save"}
    IN
    /\ t.pc \notin {"idle", "publish", "put", "set"} => t.token \in Tokens
    /\ t.pc \in {"put_recovery", "open", "accept", "session", "save"} => t.id \in Identity
    /\ t.pc \in {"accept", "session", "save"} => d \in Desktops
    /\ t.pc \in {"accept", "save", "publish", "put", "set"} => app[d].id # None
    /\ t.pc = "publish" \/ setup => t.name \in Names
    /\ t.pc = "put" => t.rec \in Record

(* Nothing happens before the first login.                                 *)
LoginFirst == logins = 0 => \A d \in Devices :
    /\ task[d].pc = "idle"
    /\ secret[d] = None
    /\ app[d].id = None /\ app[d].account = 0

(* Whoever keeps an identity, or is past the point where its wallet must   *)
(* be in the registry, has the registry's wallet; what was learned of it   *)
(* earlier is still so.                                                    *)
WalletInv == \A d \in Devices :
    LET t == task[d] IN
    /\ secret[d] # None => wallet = secret[d].wallet
    /\ app[d].recovery \in {0, wallet}
    /\ t.recovery \in {0, wallet}
    /\ t.pc = "open" => wallet = t.id.wallet
    /\ d \in Mobiles /\ t.pc \in {"publish", "put", "set"} /\ t.token # 0 =>
         t.id # None /\ wallet = t.id.wallet

(* A desktop runs with the identity it keeps and encrypts its files with   *)
(* it.  A setup finds no identity, so that it cannot replace one that      *)
(* files depend on, and goes on with the one it has saved.                 *)
DesktopInv == \A d \in Desktops :
    LET t == task[d] IN
    /\ app[d].id # None => secret[d] = app[d].id
    /\ store[d].key # 0 => secret[d] # None /\ secret[d].key = store[d].key
    /\ t.pc \in {"put_recovery", "open", "accept"} /\ app[d].id # None => t.id = app[d].id
    /\ t.pc \in {"put_recovery", "open"} /\ app[d].id = None => secret[d] = None
    /\ t.pc \in {"session", "save"} => secret[d] = t.id

BaseInv == TypeOK /\ LoginFirst /\ TaskInv
SwitchInv == BaseInv /\ WalletInv /\ DesktopInv
-----------------------------------------------------------------------------
(* The records that the operations begin with.                             *)
LEMMA Beginnings ==
    /\ Idle \in Task /\ Closed \in App /\ NoFiles \in Store
    /\ 0 \in 0 .. MaxLogins /\ 0 \in Names /\ Tokens \subseteq 0 .. MaxLogins
    /\ \A n \in Names \cup {None} : Publishing(n) \in Task
    /\ \A k \in Tokens, w \in 0 .. MaxLogins : NewIdentity(k, w) \in Identity
<1>1. 0 \in 0 .. MaxLogins /\ 0 \in Names /\ Tokens \subseteq 0 .. MaxLogins
  BY DeviceAssumption DEF Names, Tokens
<1>2. Idle \in Task
  BY <1>1 DEF Idle, Task, Pcs
<1>3. Closed \in App
  BY <1>1 DEF Closed, App
<1>4. NoFiles \in Store
  BY <1>1 DEF NoFiles, Store
<1>5. ASSUME NEW n \in Names \cup {None} PROVE Publishing(n) \in Task
  BY <1>1 DEF Publishing, Idle, Task, Pcs
<1>6. ASSUME NEW k \in Tokens, NEW w \in 0 .. MaxLogins PROVE NewIdentity(k, w) \in Identity
  BY DeviceAssumption DEF NewIdentity, Identity, Tokens
<1>7. QED
  BY <1>1, <1>2, <1>3, <1>4, <1>5, <1>6

(* A device's own record is a record (publish_active_device_record).       *)
LEMMA OwnRecordTyped ==
    ASSUME BaseInv, NEW d \in Devices, app[d].id # None, NEW name \in Names
    PROVE  OwnRecord(d, name) \in Record
<1>1. app[d].id \in Identity /\ store[d].own \in Record \cup {None}
  BY DEF BaseInv, TypeOK, App, Store
<1>2. logins \in Tokens
  BY DeviceAssumption DEF BaseInv, TypeOK, LoginFirst, Tokens
<1>3. NextSeq(store[d].own) \in Nat \ {0}
  BY <1>1, <1>2, DeviceAssumption DEF NextSeq, clock, Record, Tokens
<1>4. QED
  BY <1>1, <1>2, <1>3 DEF OwnRecord, Record, Identity, clock

(* A session that is opened is one of an application.                      *)
LEMMA OpenedTyped ==
    ASSUME NEW d, app[d] \in App, store[d] \in Store, NEW id \in Identity
    PROVE  /\ Opened(d, id) \in App
           /\ Opened(d, id).id = id /\ Opened(d, id).recovery = app[d].recovery
BY DEF Opened, App, Store

(* Types hold after every step.                                            *)
LEMMA TypeStep ==
    ASSUME BaseInv, [Next]_vars
    PROVE  TypeOK'
<1> USE DEF registry, bounds
<1>0. TypeOK /\ TaskInv /\ LoginFirst
  BY DEF BaseInv
<1>t. \A d \in Devices : task[d] \in Task /\ app[d] \in App /\ store[d] \in Store
                         /\ secret[d] \in Identity \cup {None}
  BY <1>0 DEF TypeOK
<1>1. ASSUME NEW d \in Devices, Login(d) PROVE TypeOK'
  <2>1. logins' \in 0 .. MaxLogins
    BY <1>0, <1>1, DeviceAssumption DEF Login, TypeOK
  <2>2. [Idle EXCEPT !.pc = "recovery", !.token = logins'] \in Task
    BY <2>1, Beginnings DEF Idle, Task, Pcs
  <2>3. QED
    BY <1>0, <1>1, <2>1, <2>2 DEF Login, TypeOK
<1>2. ASSUME NEW d \in Devices, GetRecovery(d) PROVE TypeOK'
  <2>1. [task[d] EXCEPT !.pc = "record", !.recovery = wallet] \in Task
    BY <1>0, <1>t DEF Task, Pcs, TypeOK
  <2>2. QED
    BY <1>0, <1>2, <2>1 DEF GetRecovery, TypeOK
<1>3. ASSUME NEW d \in Devices, GetRecord(d) PROVE TypeOK'
  <2>1. [task[d] EXCEPT !.pc = "adopt", !.remote = record] \in Task
    BY <1>0, <1>t DEF Task, Pcs, TypeOK
  <2>2. QED
    BY <1>0, <1>3, <2>1 DEF GetRecord, TypeOK
<1>4. ASSUME NEW d \in Devices, Adopt(d) PROVE TypeOK'
  <2> DEFINE t == task[d]
             id == IF app[d].id # None THEN app[d].id ELSE NewIdentity(t.token, t.recovery)
             pc == IF t.recovery = 0 THEN "put_recovery" ELSE "open"
  <2>1. id \in Identity
    BY <1>0, <1>4, <1>t, Beginnings DEF Adopt, TaskInv, Task, App
  <2>2. [task[d] EXCEPT !.id = id, !.pc = pc] \in Task
    BY <1>t, <2>1 DEF Task, Pcs
  <2>3. task' = [task EXCEPT ![d] = [task[d] EXCEPT !.id = id, !.pc = pc]]
    BY <1>4 DEF Adopt
  <2> HIDE DEF t, id, pc
  <2>4. QED
    BY <1>0, <1>4, <2>2, <2>3 DEF Adopt, TypeOK
<1>5. ASSUME NEW d \in Devices, AcceptAccount(d) PROVE TypeOK'
  <2>1. [app[d] EXCEPT !.account = task[d].token, !.recovery = task[d].recovery] \in App
    BY <1>t DEF App, Task
  <2>2. QED
    BY <1>0, <1>5, <2>1, Beginnings DEF AcceptAccount, Done, TypeOK
<1>6. ASSUME NEW d \in Devices, CreateIdentity(d) PROVE TypeOK'
  <2> DEFINE a == app[d]
             id == NewIdentity(a.account, a.recovery)
             pc == IF a.recovery = 0 THEN "put_recovery" ELSE "open"
             new == [Idle EXCEPT !.pc = pc, !.token = a.account, !.recovery = a.recovery,
                                 !.id = id, !.name = 0]
  <2>1. a.account \in Tokens
    BY <1>6, <1>t, DeviceAssumption DEF CreateIdentity, App, Tokens
  <2>2. id \in Identity
    BY <1>t, <2>1, Beginnings DEF App
  <2>3. new \in Task
    BY <1>t, <2>2, Beginnings DEF App, Task, Pcs, Idle
  <2>4. task' = [task EXCEPT ![d] = new]
    BY <1>6 DEF CreateIdentity
  <2> HIDE DEF a, id, pc, new
  <2>5. QED
    BY <1>0, <1>6, <2>3, <2>4 DEF CreateIdentity, TypeOK
<1>c. ASSUME NEW d \in Devices, NEW pc \in Pcs, Continue(d, pc)
      PROVE  task' \in [Devices -> Task]
  <2>1. [task[d] EXCEPT !.pc = pc] \in Task
    BY <1>t DEF Task
  <2>2. QED
    BY <1>0, <1>c, <2>1 DEF Continue, TypeOK
<1>7. ASSUME NEW d \in Devices, PutRecovery(d) PROVE TypeOK'
  <2>1. task' \in [Devices -> Task]
    BY <1>7, <1>c DEF PutRecovery, Pcs
  <2>2. task[d].id.wallet \in 0 .. MaxLogins
    BY <1>0, <1>7, Beginnings DEF PutRecovery, TaskInv, Identity
  <2>3. [app[d] EXCEPT !.recovery = task[d].id.wallet] \in App
    BY <1>t, <2>2 DEF App
  <2>4. app' \in [Devices -> App]
    BY <1>0, <1>7, <2>3 DEF PutRecovery, TypeOK
  <2>5. QED
    BY <1>0, <1>7, <2>1, <2>2, <2>4 DEF PutRecovery, TypeOK
<1>8. ASSUME NEW d \in Devices, OpenMobile(d) PROVE TypeOK'
  <2> DEFINE t == task[d]
             own == IF t.remote = None THEN store[d].own ELSE t.remote
             refused == t.remote # None /\ ~ Imports(store[d].own, t.remote)
             files == [key |-> t.id.key, account |-> t.token,
                       own |-> IF refused THEN store[d].own ELSE own]
             running == [id |-> t.id, account |-> t.token, recovery |-> 0,
                         current |-> IF app[d].id = None THEN TRUE ELSE app[d].current,
                         monitor |-> TRUE]
             pc == IF own = None THEN "set" ELSE "publish"
             name == IF own = None THEN None ELSE own.name
             next == [t EXCEPT !.pc = pc, !.rec = None, !.name = name]
  <2>1. t.id \in Identity /\ t.token \in 0 .. MaxLogins
    BY <1>0, <1>8, <1>t DEF OpenMobile, TaskInv, Task
  <2>2. own \in Record \cup {None}
    BY <1>t DEF Task, Store
  <2>3. files \in Store
    BY <1>t, <2>1, <2>2, Beginnings DEF Store, Identity
  <2>4. running \in App
    BY <1>t, <2>1, Beginnings DEF App
  <2>5. name \in Names \cup {None}
    BY <2>2 DEF Record
  <2>6. next \in Task
    BY <1>t, <2>5 DEF Task, Pcs
  <2>7. store' = [store EXCEPT ![d] = files]
    BY <1>8 DEF OpenMobile
  <2>8. app' = app \/ app' = [app EXCEPT ![d] = running]
    BY <1>8 DEF OpenMobile
  <2>9. task' = [task EXCEPT ![d] = Idle] \/ task' = [task EXCEPT ![d] = next]
    BY <1>8 DEF OpenMobile, Done
  <2> HIDE DEF t, own, refused, files, running, pc, name, next
  <2>10. QED
    BY <1>0, <1>8, <2>3, <2>4, <2>6, <2>7, <2>8, <2>9, Beginnings DEF OpenMobile, TypeOK
<1>9. ASSUME NEW d \in Devices, AcceptUnlocked(d) PROVE TypeOK'
  <2>1. task[d].id \in Identity /\ task[d].token \in 0 .. MaxLogins
    BY <1>0, <1>9, <1>t DEF AcceptUnlocked, TaskInv, Task
  <2>3. [store[d] EXCEPT !.key = task[d].id.key, !.account = task[d].token] \in Store
    BY <1>t, <2>1, Beginnings DEF Store, Identity
  <2>4. ASSUME NEW c \in BOOLEAN
        PROVE  [app[d] EXCEPT !.account = task[d].token, !.monitor = TRUE, !.current = c] \in App
    BY <1>t, <2>1 DEF App
  <2>5. PICK c \in BOOLEAN :
          app' = [app EXCEPT ![d] =
                   [app[d] EXCEPT !.account = task[d].token, !.monitor = TRUE, !.current = c]]
    <3>1. app[d].current \in BOOLEAN
      BY <1>t DEF App
    <3>2. QED
      BY <1>9, <3>1 DEF AcceptUnlocked
  <2>6. app' \in [Devices -> App]
    BY <1>0, <2>4, <2>5 DEF TypeOK
  <2>7. store' \in [Devices -> Store]
    BY <1>0, <1>9, <2>3 DEF AcceptUnlocked, TypeOK
  <2>8. task' \in [Devices -> Task]
    BY <1>0, <1>9, Beginnings DEF AcceptUnlocked, Done, TypeOK
  <2>9. UNCHANGED <<bounds, registry, secret, poll>>
    BY <1>9 DEF AcceptUnlocked
  <2>10. QED
    BY <1>0, <2>6, <2>7, <2>8, <2>9 DEF TypeOK
<1>10. ASSUME NEW d \in Devices, SaveIdentity(d) PROVE TypeOK'
  <2>1. task[d].id \in Identity
    BY <1>0, <1>10 DEF SaveIdentity, TaskInv
  <2>2. task' \in [Devices -> Task]
    BY <1>10, <1>c DEF SaveIdentity, Pcs
  <2>3. QED
    BY <1>0, <1>10, <2>1, <2>2 DEF SaveIdentity, TypeOK
<1>10a. ASSUME NEW d \in Devices, OpenSession(d) PROVE TypeOK'
  <2>1. task[d].id \in Identity
    BY <1>0, <1>10a DEF OpenSession, TaskInv
  <2>2. Opened(d, task[d].id) \in App
    BY <1>t, <2>1, OpenedTyped
  <2>3. task' \in [Devices -> Task]
    BY <1>10a, <1>c DEF OpenSession, Pcs
  <2>4. QED
    BY <1>0, <1>10a, <2>2, <2>3 DEF OpenSession, TypeOK
<1>10b. ASSUME NEW d \in Devices, SaveSession(d) PROVE TypeOK'
  <2>1. task[d].id \in Identity /\ task[d].token \in 0 .. MaxLogins
    BY <1>0, <1>10b, <1>t DEF SaveSession, TaskInv, Task
  <2>2. [store[d] EXCEPT !.key = task[d].id.key, !.account = task[d].token] \in Store
    BY <1>t, <2>1, Beginnings DEF Store, Identity
  <2>3. [app[d] EXCEPT !.recovery = 0] \in App
    BY <1>t, Beginnings DEF App
  <2>4. task' \in [Devices -> Task]
    BY <1>10b, <1>c DEF SaveSession, Pcs
  <2>5. QED
    BY <1>0, <1>10b, <2>2, <2>3, <2>4 DEF SaveSession, TypeOK
<1>10c. ASSUME NEW d \in Devices, FillRecord(d) PROVE TypeOK'
  <2>1. record' \in Record
    BY <1>10c, <1>t DEF FillRecord, Fills, Store
  <2>2. task' \in [Devices -> Task]
    BY <1>10c, <1>c DEF FillRecord, Pcs
  <2>3. QED
    BY <1>0, <1>10c, <2>1, <2>2 DEF FillRecord, TypeOK
<1>11. ASSUME NEW d \in Devices, PublishLocal(d) PROVE TypeOK'
  <2> DEFINE rec == OwnRecord(d, task[d].name)
             pc == IF app[d].account = 0 THEN "set" ELSE "put"
  <2>1. rec \in Record /\ app[d].id \in Identity
    BY <1>0, <1>11, <1>t, OwnRecordTyped DEF PublishLocal, TaskInv, App
  <2>2. [store[d] EXCEPT !.own = rec, !.key = app[d].id.key] \in Store
    BY <1>t, <2>1, Beginnings DEF Store, Identity
  <2>3. [task[d] EXCEPT !.rec = rec, !.pc = pc] \in Task
    BY <1>t, <2>1 DEF Task, Pcs
  <2>4. /\ store' = [store EXCEPT ![d] = [store[d] EXCEPT !.own = rec, !.key = app[d].id.key]]
        /\ task' = [task EXCEPT ![d] = [task[d] EXCEPT !.rec = rec, !.pc = pc]]
    BY <1>11 DEF PublishLocal
  <2>5. UNCHANGED <<bounds, registry, secret, app, poll>>
    BY <1>11 DEF PublishLocal
  <2> HIDE DEF rec, pc
  <2>6. QED
    BY <1>0, <2>2, <2>3, <2>4, <2>5 DEF TypeOK
<1>12. ASSUME NEW d \in Devices, PutRecord(d) PROVE TypeOK'
  <2>1. task' \in [Devices -> Task]
    BY <1>12, <1>c DEF PutRecord, Pcs
  <2>2. record' \in Record
    BY <1>0, <1>12 DEF PutRecord, TaskInv
  <2>3. QED
    BY <1>0, <1>12, <2>1, <2>2 DEF PutRecord, TypeOK
<1>13. ASSUME NEW d \in Devices, CompareRecord(d) PROVE TypeOK'
  <2>1. task' \in [Devices -> Task]
    BY <1>13, <1>c DEF CompareRecord, Pcs
  <2>2. QED
    BY <1>0, <1>13, <2>1 DEF CompareRecord, TypeOK
<1>14. ASSUME NEW d \in Devices, SetCurrent(d) PROVE TypeOK'
  <2>1. app[d].current \in BOOLEAN /\ app[d].monitor \in BOOLEAN
    BY <1>t DEF App
  <2>2. PICK c \in BOOLEAN, m \in BOOLEAN :
          app' = [app EXCEPT ![d] = [app[d] EXCEPT !.current = c, !.monitor = m]]
    BY <1>14, <2>1 DEF SetCurrent
  <2>3. [app[d] EXCEPT !.current = c, !.monitor = m] \in App
    BY <1>t DEF App
  <2>4. secret' \in [Devices -> Identity \cup {None}]
    BY <1>0, <1>14, <1>t DEF SetCurrent, TypeOK, Task
  <2>5. QED
    BY <1>0, <1>14, <2>2, <2>3, <2>4, Beginnings DEF SetCurrent, Done, TypeOK
<1>15. ASSUME NEW d \in Devices, Fail(d) PROVE TypeOK'
  BY <1>0, <1>15, Beginnings DEF Fail, Done, TypeOK
<1>16. ASSUME NEW d \in Devices, NEW new \in BOOLEAN, SaveProfile(d, new) PROVE TypeOK'
  <2>1. edits' \in Names /\ edits' \in 0 .. MaxEdits
    BY <1>0, <1>16, DeviceAssumption DEF SaveProfile, TypeOK, Names
  <2>2. ~ new => store[d].own.name \in Names
    BY <1>16, <1>t DEF SaveProfile, Store, Record
  <2>3. PICK n \in Names : task' = [task EXCEPT ![d] = Publishing(n)]
    BY <1>16, <2>1, <2>2 DEF SaveProfile
  <2>4. QED
    BY <1>0, <1>16, <2>1, <2>3, Beginnings DEF SaveProfile, TypeOK
<1>17. ASSUME NEW d \in Devices, Start(d) PROVE TypeOK'
  <2>1. opens' \in 0 .. MaxOpens
    BY <1>0, <1>17, DeviceAssumption DEF Start, TypeOK
  <2>2. ASSUME NEW m \in BOOLEAN
        PROVE  [id |-> secret[d], account |-> store[d].account, recovery |-> 0,
                current |-> TRUE, monitor |-> m] \in App
    BY <1>t, Beginnings DEF App, Store
  <2>3. Opened(d, secret[d]) \in App
    BY <1>17, <1>t, OpenedTyped DEF Start
  <2>4. ASSUME NEW m \in BOOLEAN PROVE [Opened(d, secret[d]) EXCEPT !.monitor = m] \in App
    BY <2>3 DEF App
  <2>5. app' \in [Devices -> App]
    BY <1>0, <1>17, <2>2, <2>4 DEF Start, StartMobile, StartDesktop, TypeOK
  <2>6. store[d].own # None => Publishing(store[d].own.name) \in Task
    BY <1>t, Beginnings DEF Store, Record
  <2>7. store[d].own # None =>
          [Publishing(store[d].own.name) EXCEPT !.token = Opened(d, secret[d]).account] \in Task
    BY <2>3, <2>6 DEF App, Task
  <2>8. task' \in [Devices -> Task]
    BY <1>0, <1>17, <2>6, <2>7 DEF Start, StartMobile, StartDesktop, TypeOK
  <2>9. QED
    BY <1>0, <1>17, <2>1, <2>5, <2>8 DEF Start, TypeOK
<1>18. ASSUME NEW d \in Devices, Quit(d) PROVE TypeOK'
  BY <1>0, <1>18, Beginnings DEF Quit, TypeOK
<1>19. ASSUME NEW d \in Devices, PollGet(d) PROVE TypeOK'
  BY <1>0, <1>19 DEF PollGet, TypeOK
<1>20. ASSUME NEW d \in Devices, PollSet(d) PROVE TypeOK'
  <2>1. PICK c \in BOOLEAN : app' = [app EXCEPT ![d] = [app[d] EXCEPT !.current = c]]
    BY <1>20 DEF PollSet
  <2>2. [app[d] EXCEPT !.current = c] \in App
    BY <1>t DEF App
  <2>3. QED
    BY <1>0, <1>20, <2>1, <2>2 DEF PollSet, TypeOK
<1>21. CASE Expire
  BY <1>0, <1>21, DeviceAssumption DEF Expire, TypeOK
<1>22. CASE UNCHANGED vars
  BY <1>0, <1>22 DEF vars, TypeOK
<1>23. QED
  BY <1>1, <1>2, <1>3, <1>4, <1>5, <1>6, <1>7, <1>8, <1>9, <1>10, <1>10a, <1>10b,
     <1>10c, <1>11, <1>12, <1>13,
     <1>14, <1>15, <1>16, <1>17, <1>18, <1>19, <1>20, <1>21, <1>22
     DEF Next, LoginStep, PublishStep

(* What OpenMobile does to the device and its task.                        *)
LEMMA OpenMobileEffect ==
    ASSUME TypeOK, NEW d \in Devices, OpenMobile(d)
    PROVE  /\ \A e \in Devices \ {d} : task'[e] = task[e] /\ app'[e] = app[e]
           /\ app'[d] = app[d] \/ app'[d].recovery = 0
           /\ \/ task'[d] = Idle
              \/ /\ app'[d].id = task[d].id
                 /\ task'[d].id = task[d].id /\ task'[d].recovery = task[d].recovery
                 /\ \/ task'[d].pc = "set"
                    \/ task'[d].pc = "publish" /\ \E r \in Record : task'[d].name = r.name
<1> DEFINE t == task[d]
           own == IF t.remote = None THEN store[d].own ELSE t.remote
           running == [id |-> t.id, account |-> t.token, recovery |-> 0,
                       current |-> IF app[d].id = None THEN TRUE ELSE app[d].current,
                       monitor |-> TRUE]
           pc == IF own = None THEN "set" ELSE "publish"
           name == IF own = None THEN None ELSE own.name
<1>1. \/ task' = [task EXCEPT ![d] = Idle] /\ app' = app
      \/ /\ task' = [task EXCEPT ![d].pc = pc, ![d].rec = None, ![d].name = name]
         /\ app' = [app EXCEPT ![d] = running]
  BY DEF OpenMobile, Done
<1>2. \/ pc = "set"
      \/ pc = "publish" /\ \E r \in Record : name = r.name
  <2>1. own \in Record \cup {None}
    BY DEF TypeOK, Task, Store
  <2>2. QED
    BY <2>1
<1>3. running.id = task[d].id /\ running.recovery = 0
  OBVIOUS
<1> HIDE DEF own, running, pc, name
<1>4. QED
  BY <1>1, <1>2, <1>3 DEF TypeOK, Task

(* What starting an application does to the device and its task.           *)
LEMMA StartEffect ==
    ASSUME TypeOK, NEW d \in Devices, Start(d)
    PROVE  /\ \A e \in Devices \ {d} : task'[e] = task[e] /\ app'[e] = app[e]
           /\ app'[d].id = secret[d] /\ app'[d].recovery \in {0, app[d].recovery}
           /\ \/ task'[d] = task[d] /\ task[d].pc = "idle"
              \/ /\ task'[d].pc = "publish" /\ task'[d].recovery = 0
                 /\ store[d].own # None /\ task'[d].name = store[d].own.name
                 /\ d \in Mobiles => task'[d].token = 0
<1> DEFINE n == store[d].own.name
<1>1. /\ Publishing(n).pc = "publish" /\ Publishing(n).recovery = 0 /\ Publishing(n).token = 0
      /\ Publishing(n).name = n
  BY DEF Publishing, Idle
<1>2. \A k : LET p == [Publishing(n) EXCEPT !.token = k]
             IN p.pc = "publish" /\ p.recovery = 0 /\ p.name = n
  BY DEF Publishing, Idle
<1>3. \/ task' = task
      \/ store[d].own # None /\ task' = [task EXCEPT ![d] = Publishing(n)]
      \/ /\ store[d].own # None /\ d \notin Mobiles
         /\ \E k : task' = [task EXCEPT ![d] = [Publishing(n) EXCEPT !.token = k]]
  BY DeviceAssumption DEF Start, StartMobile, StartDesktop
<1>4. /\ \A e \in Devices \ {d} : app'[e] = app[e]
      /\ app'[d].id = secret[d] /\ app'[d].recovery \in {0, app[d].recovery}
      /\ task[d].pc = "idle"
  <2>0. /\ app \in [Devices -> App] /\ app[d] \in App /\ store[d] \in Store
        /\ secret[d] \in Identity /\ task[d].pc = "idle"
    BY DEF Start, TypeOK
  <2>1. CASE StartMobile(d)
    BY <2>0, <2>1 DEF StartMobile
  <2>2. CASE StartDesktop(d)
    <3>1. PICK o : /\ o = Opened(d, secret[d]) /\ o \in App
                   /\ o.id = secret[d] /\ o.recovery = app[d].recovery
      BY <2>0, OpenedTyped
    <3>2. \A m : LET a == [o EXCEPT !.monitor = m]
                 IN  a.id = secret[d] /\ a.recovery = app[d].recovery
      BY <3>1 DEF App
    <3>3. \E m : app' = [app EXCEPT ![d] = [o EXCEPT !.monitor = m]]
      BY <2>2, <3>1 DEF StartDesktop
    <3>4. QED
      BY <2>0, <3>2, <3>3
  <2>3. QED
    BY <2>1, <2>2 DEF Start
<1> HIDE DEF n
<1>5. CASE task' = task
  BY <1>4, <1>5
<1>6. CASE store[d].own # None /\ task' = [task EXCEPT ![d] = Publishing(n)]
  BY <1>1, <1>4, <1>6 DEF n, TypeOK
<1>7. ASSUME NEW k, store[d].own # None, d \notin Mobiles,
             task' = [task EXCEPT ![d] = [Publishing(n) EXCEPT !.token = k]]
      PROVE  /\ \A e \in Devices \ {d} : task'[e] = task[e]
             /\ task'[d].pc = "publish" /\ task'[d].recovery = 0
             /\ task'[d].name = store[d].own.name
  BY <1>2, <1>7 DEF n, TypeOK
<1>8. QED
  BY <1>3, <1>4, <1>5, <1>6, <1>7

(* A login comes first.                                                    *)
LEMMA FirstStep ==
    ASSUME BaseInv, [Next]_vars
    PROVE  LoginFirst'
<1> USE DEF registry, bounds
<1>0. TypeOK /\ LoginFirst
  BY DEF SwitchInv, BaseInv
<1>1. ASSUME NEW d \in Devices, Login(d) PROVE LoginFirst'
  BY <1>0, <1>1, DeviceAssumption, NoneIsNothing
     DEF Login, TypeOK, LoginFirst, Task, App, Idle, Closed
<1>2. ASSUME NEW d \in Devices, GetRecovery(d) PROVE LoginFirst'
  BY <1>0, <1>2, DeviceAssumption, NoneIsNothing
     DEF GetRecovery, Accepted, TypeOK, LoginFirst, Task, App, Idle, Closed
<1>3. ASSUME NEW d \in Devices, GetRecord(d) PROVE LoginFirst'
  BY <1>0, <1>3, DeviceAssumption, NoneIsNothing
     DEF GetRecord, TypeOK, LoginFirst, Task, App, Idle, Closed
<1>4. ASSUME NEW d \in Devices, Adopt(d) PROVE LoginFirst'
  BY <1>0, <1>4, DeviceAssumption, NoneIsNothing
     DEF Adopt, NewIdentity, Matches, TypeOK, LoginFirst, Task, App, Idle, Closed
<1>5. ASSUME NEW d \in Devices, AcceptAccount(d) PROVE LoginFirst'
  BY <1>0, <1>5, DeviceAssumption, NoneIsNothing
     DEF AcceptAccount, Done, TypeOK, LoginFirst, Task, App, Idle, Closed
<1>6. ASSUME NEW d \in Devices, CreateIdentity(d) PROVE LoginFirst'
  BY <1>0, <1>6, DeviceAssumption, NoneIsNothing
     DEF CreateIdentity, NewIdentity, TypeOK, LoginFirst, Task, App, Idle, Closed
<1>7. ASSUME NEW d \in Devices, PutRecovery(d) PROVE LoginFirst'
  BY <1>0, <1>7, DeviceAssumption, NoneIsNothing
     DEF PutRecovery, Continue, Accepted, TypeOK, LoginFirst, Task, App, Idle, Closed
<1>8. ASSUME NEW d \in Devices, OpenMobile(d) PROVE LoginFirst'
  BY <1>0, <1>8, DeviceAssumption, NoneIsNothing
     DEF OpenMobile, Done, TypeOK, LoginFirst, Task, App, Idle, Closed
<1>9. ASSUME NEW d \in Devices, AcceptUnlocked(d) PROVE LoginFirst'
  BY <1>0, <1>9, DeviceAssumption, NoneIsNothing
     DEF AcceptUnlocked, Done, TypeOK, LoginFirst, Task, App, Idle, Closed
<1>10. ASSUME NEW d \in Devices, SaveIdentity(d) PROVE LoginFirst'
  BY <1>0, <1>10, DeviceAssumption, NoneIsNothing
     DEF SaveIdentity, Continue, TypeOK, LoginFirst, Task, App, Idle, Closed
<1>10a. ASSUME NEW d \in Devices, OpenSession(d) PROVE LoginFirst'
  BY <1>0, <1>10a, DeviceAssumption, NoneIsNothing
     DEF OpenSession, Continue, Opened, TypeOK, LoginFirst, Task, App, Idle, Closed
<1>10b. ASSUME NEW d \in Devices, SaveSession(d) PROVE LoginFirst'
  BY <1>0, <1>10b, DeviceAssumption, NoneIsNothing
     DEF SaveSession, Continue, TypeOK, LoginFirst, Task, App, Idle, Closed
<1>10c. ASSUME NEW d \in Devices, FillRecord(d) PROVE LoginFirst'
  BY <1>0, <1>10c, DeviceAssumption, NoneIsNothing
     DEF FillRecord, Continue, TypeOK, LoginFirst, Task, App, Idle, Closed
<1>11. ASSUME NEW d \in Devices, PublishLocal(d) PROVE LoginFirst'
  BY <1>0, <1>11, DeviceAssumption, NoneIsNothing
     DEF PublishLocal, TypeOK, LoginFirst, Task, App, Idle, Closed
<1>12. ASSUME NEW d \in Devices, PutRecord(d) PROVE LoginFirst'
  BY <1>0, <1>12, DeviceAssumption, NoneIsNothing
     DEF PutRecord, Continue, TypeOK, LoginFirst, Task, App, Idle, Closed
<1>13. ASSUME NEW d \in Devices, CompareRecord(d) PROVE LoginFirst'
  BY <1>0, <1>13, DeviceAssumption, NoneIsNothing
     DEF CompareRecord, Continue, TypeOK, LoginFirst, Task, App, Idle, Closed
<1>14. ASSUME NEW d \in Devices, SetCurrent(d) PROVE LoginFirst'
  BY <1>0, <1>14, DeviceAssumption, NoneIsNothing
     DEF SetCurrent, Done, TypeOK, LoginFirst, Task, App, Idle, Closed
<1>15. ASSUME NEW d \in Devices, Fail(d) PROVE LoginFirst'
  BY <1>0, <1>15, DeviceAssumption, NoneIsNothing
     DEF Fail, Done, TypeOK, LoginFirst, Task, App, Idle, Closed
<1>16. ASSUME NEW d \in Devices, NEW new \in BOOLEAN, SaveProfile(d, new) PROVE LoginFirst'
  BY <1>0, <1>16, DeviceAssumption, NoneIsNothing
     DEF SaveProfile, Publishing, TypeOK, LoginFirst, Task, App, Idle, Closed
<1>17. ASSUME NEW d \in Devices, Start(d) PROVE LoginFirst'
  BY <1>0, <1>17, DeviceAssumption, NoneIsNothing
     DEF Start, StartMobile, StartDesktop, Opened, Publishing, TypeOK, LoginFirst, Task, App, Idle, Closed
<1>18. ASSUME NEW d \in Devices, Quit(d) PROVE LoginFirst'
  BY <1>0, <1>18, DeviceAssumption, NoneIsNothing
     DEF Quit, TypeOK, LoginFirst, Task, App, Idle, Closed
<1>19. ASSUME NEW d \in Devices, PollGet(d) PROVE LoginFirst'
  BY <1>0, <1>19, DeviceAssumption, NoneIsNothing
     DEF PollGet, TypeOK, LoginFirst, Task, App, Idle, Closed
<1>20. ASSUME NEW d \in Devices, PollSet(d) PROVE LoginFirst'
  BY <1>0, <1>20, DeviceAssumption, NoneIsNothing
     DEF PollSet, TypeOK, LoginFirst, Task, App, Idle, Closed
<1>21. CASE Expire
  BY <1>0, <1>21, DeviceAssumption DEF Expire, TypeOK, LoginFirst, Task, App, Idle, Closed
<1>22. CASE UNCHANGED vars
  BY <1>0, <1>22 DEF vars, TypeOK, LoginFirst, Task, App, Idle, Closed
<1>23. QED
  BY <1>1, <1>2, <1>3, <1>4, <1>5, <1>6, <1>7, <1>8, <1>9, <1>10, <1>10a, <1>10b,
     <1>10c, <1>11, <1>12, <1>13,
     <1>14, <1>15, <1>16, <1>17, <1>18, <1>19, <1>20, <1>21, <1>22
     DEF Next, LoginStep, PublishStep

(* Each step finds what the steps before it have left.                     *)
LEMMA TaskStep ==
    ASSUME BaseInv, [Next]_vars
    PROVE  TaskInv'
<1> USE DEF registry, bounds, Task, Idle, App, Store, Closed, Record, Identity, Tokens, Names
<1>0. TypeOK /\ TaskInv /\ LoginFirst
  BY DEF SwitchInv, BaseInv
<1>1. ASSUME NEW d \in Devices, Login(d) PROVE TaskInv'
  BY <1>0, <1>1, DeviceAssumption, NoneIsNothing
     DEF Login, TypeOK, TaskInv, LoginFirst
<1>2. ASSUME NEW d \in Devices, GetRecovery(d) PROVE TaskInv'
  BY <1>0, <1>2, DeviceAssumption, NoneIsNothing
     DEF GetRecovery, Accepted, TypeOK, TaskInv, LoginFirst
<1>3. ASSUME NEW d \in Devices, GetRecord(d) PROVE TaskInv'
  BY <1>0, <1>3, DeviceAssumption, NoneIsNothing
     DEF GetRecord, TypeOK, TaskInv, LoginFirst
<1>4. ASSUME NEW d \in Devices, Adopt(d) PROVE TaskInv'
  <2> DEFINE t == task[d]
             id == IF app[d].id # None THEN app[d].id ELSE NewIdentity(t.token, t.recovery)
             pc == IF t.recovery = 0 THEN "put_recovery" ELSE "open"
  <2>1. id \in Identity
    BY <1>0, <1>4, Beginnings DEF Adopt, TaskInv, Task, App, TypeOK
  <2>2. task' = [task EXCEPT ![d].id = id, ![d].pc = pc] /\ app' = app
        /\ ~ (d \in Desktops /\ app[d].id = None)
    BY <1>4, DeviceAssumption DEF Adopt
  <2>3. t.token \in Tokens /\ pc \in {"put_recovery", "open"}
    BY <1>0, <1>4 DEF Adopt, TaskInv
  <2> HIDE DEF id, pc
  <2>4. QED
    BY <1>0, <2>1, <2>2, <2>3 DEF TaskInv, TypeOK, Task
<1>5. ASSUME NEW d \in Devices, AcceptAccount(d) PROVE TaskInv'
  BY <1>0, <1>5, DeviceAssumption, NoneIsNothing
     DEF AcceptAccount, Done, TypeOK, TaskInv, LoginFirst
<1>6. ASSUME NEW d \in Devices, CreateIdentity(d) PROVE TaskInv'
  BY <1>0, <1>6, DeviceAssumption, NoneIsNothing
     DEF CreateIdentity, NewIdentity, TypeOK, TaskInv, LoginFirst
<1>7. ASSUME NEW d \in Devices, PutRecovery(d) PROVE TaskInv'
  BY <1>0, <1>7, DeviceAssumption, NoneIsNothing
     DEF PutRecovery, Continue, Accepted, TypeOK, TaskInv, LoginFirst
<1>8. ASSUME NEW d \in Devices, OpenMobile(d) PROVE TaskInv'
  <2>1. task[d].id \in Identity /\ task[d].token \in Tokens
    BY <1>0, <1>8 DEF OpenMobile, TaskInv
  <2>2. QED
    BY <1>0, <1>8, <2>1, OpenMobileEffect, NoneIsNothing DEF TaskInv, Record, Idle
<1>9. ASSUME NEW d \in Devices, AcceptUnlocked(d) PROVE TaskInv'
  BY <1>0, <1>9, DeviceAssumption, NoneIsNothing
     DEF AcceptUnlocked, Done, TypeOK, TaskInv, LoginFirst
<1>10. ASSUME NEW d \in Devices, SaveIdentity(d) PROVE TaskInv'
  BY <1>0, <1>10, DeviceAssumption, NoneIsNothing
     DEF SaveIdentity, Continue, TypeOK, TaskInv, LoginFirst
<1>10a. ASSUME NEW d \in Devices, OpenSession(d) PROVE TaskInv'
  BY <1>0, <1>10a, DeviceAssumption, NoneIsNothing
     DEF OpenSession, Continue, Opened, TypeOK, TaskInv, LoginFirst
<1>10b. ASSUME NEW d \in Devices, SaveSession(d) PROVE TaskInv'
  BY <1>0, <1>10b, DeviceAssumption, NoneIsNothing
     DEF SaveSession, Continue, TypeOK, TaskInv, LoginFirst
<1>10c. ASSUME NEW d \in Devices, FillRecord(d) PROVE TaskInv'
  BY <1>0, <1>10c, DeviceAssumption, NoneIsNothing
     DEF FillRecord, Continue, TypeOK, TaskInv, LoginFirst
<1>11. ASSUME NEW d \in Devices, PublishLocal(d) PROVE TaskInv'
  BY <1>0, <1>11, DeviceAssumption, NoneIsNothing
     DEF PublishLocal, TypeOK, TaskInv, LoginFirst
<1>12. ASSUME NEW d \in Devices, PutRecord(d) PROVE TaskInv'
  BY <1>0, <1>12, DeviceAssumption, NoneIsNothing
     DEF PutRecord, Continue, TypeOK, TaskInv, LoginFirst
<1>13. ASSUME NEW d \in Devices, CompareRecord(d) PROVE TaskInv'
  BY <1>0, <1>13, DeviceAssumption, NoneIsNothing
     DEF CompareRecord, Continue, TypeOK, TaskInv, LoginFirst
<1>14. ASSUME NEW d \in Devices, SetCurrent(d) PROVE TaskInv'
  BY <1>0, <1>14, DeviceAssumption, NoneIsNothing
     DEF SetCurrent, Done, TypeOK, TaskInv, LoginFirst
<1>15. ASSUME NEW d \in Devices, Fail(d) PROVE TaskInv'
  BY <1>0, <1>15, DeviceAssumption, NoneIsNothing
     DEF Fail, Done, TypeOK, TaskInv, LoginFirst
<1>16. ASSUME NEW d \in Devices, NEW new \in BOOLEAN, SaveProfile(d, new) PROVE TaskInv'
  BY <1>0, <1>16, DeviceAssumption, NoneIsNothing
     DEF SaveProfile, Publishing, TypeOK, TaskInv, LoginFirst
<1>17. ASSUME NEW d \in Devices, Start(d) PROVE TaskInv'
  <2>1. secret[d] # None /\ store[d].own \in Record \cup {None}
    BY <1>0, <1>17 DEF Start, TypeOK, Store
  <2>2. QED
    BY <1>0, <1>17, <2>1, StartEffect DEF TaskInv, Record
<1>18. ASSUME NEW d \in Devices, Quit(d) PROVE TaskInv'
  BY <1>0, <1>18, DeviceAssumption, NoneIsNothing
     DEF Quit, TypeOK, TaskInv, LoginFirst
<1>19. ASSUME NEW d \in Devices, PollGet(d) PROVE TaskInv'
  BY <1>0, <1>19, DeviceAssumption, NoneIsNothing
     DEF PollGet, TypeOK, TaskInv, LoginFirst
<1>20. ASSUME NEW d \in Devices, PollSet(d) PROVE TaskInv'
  BY <1>0, <1>20, DeviceAssumption, NoneIsNothing
     DEF PollSet, TypeOK, TaskInv, LoginFirst
<1>21. CASE Expire
  BY <1>0, <1>21, DeviceAssumption DEF Expire, TypeOK, TaskInv, LoginFirst
<1>22. CASE UNCHANGED vars
  BY <1>0, <1>22 DEF vars, TypeOK, TaskInv, LoginFirst
<1>23. QED
  BY <1>1, <1>2, <1>3, <1>4, <1>5, <1>6, <1>7, <1>8, <1>9, <1>10, <1>10a, <1>10b,
     <1>10c, <1>11, <1>12, <1>13,
     <1>14, <1>15, <1>16, <1>17, <1>18, <1>19, <1>20, <1>21, <1>22
     DEF Next, LoginStep, PublishStep

(* The registry's wallet never changes once it is there, and an identity   *)
(* is kept only after its wallet is.                                       *)
LEMMA WalletStep ==
    ASSUME SwitchInv, [Next]_vars
    PROVE  WalletInv'
<1> USE DEF registry, bounds, Task, Idle, App, Closed, Identity, Tokens
<1>0. TypeOK /\ TaskInv /\ WalletInv
  BY DEF SwitchInv, BaseInv
<1>1. ASSUME NEW d \in Devices, Login(d) PROVE WalletInv'
  BY <1>0, <1>1, DeviceAssumption, NoneIsNothing
     DEF Login, TypeOK, TaskInv, WalletInv
<1>2. ASSUME NEW d \in Devices, GetRecovery(d) PROVE WalletInv'
  BY <1>0, <1>2, DeviceAssumption, NoneIsNothing
     DEF GetRecovery, Accepted, TypeOK, TaskInv, WalletInv
<1>3. ASSUME NEW d \in Devices, GetRecord(d) PROVE WalletInv'
  BY <1>0, <1>3, DeviceAssumption, NoneIsNothing
     DEF GetRecord, TypeOK, TaskInv, WalletInv
<1>4. ASSUME NEW d \in Devices, Adopt(d) PROVE WalletInv'
  <2> DEFINE t == task[d]
             id == IF app[d].id # None THEN app[d].id ELSE NewIdentity(t.token, t.recovery)
             pc == IF t.recovery = 0 THEN "put_recovery" ELSE "open"
  <2>1. task' = [task EXCEPT ![d].id = id, ![d].pc = pc] /\ Matches(t, id)
        /\ UNCHANGED <<wallet, secret, app>>
    BY <1>4 DEF Adopt
  <2>2. pc = "open" => id.wallet = wallet
    BY <1>0, <2>1 DEF Matches, WalletInv
  <2>3. pc \in {"put_recovery", "open"}
    OBVIOUS
  <2> HIDE DEF id, pc
  <2>4. QED
    BY <1>0, <2>1, <2>2, <2>3 DEF WalletInv, TypeOK, Task
<1>5. ASSUME NEW d \in Devices, AcceptAccount(d) PROVE WalletInv'
  BY <1>0, <1>5, DeviceAssumption, NoneIsNothing
     DEF AcceptAccount, Done, TypeOK, TaskInv, WalletInv
<1>6. ASSUME NEW d \in Devices, CreateIdentity(d) PROVE WalletInv'
  BY <1>0, <1>6, DeviceAssumption, NoneIsNothing
     DEF CreateIdentity, NewIdentity, TypeOK, TaskInv, WalletInv
<1>7. ASSUME NEW d \in Devices, PutRecovery(d) PROVE WalletInv'
  BY <1>0, <1>7, DeviceAssumption, NoneIsNothing
     DEF PutRecovery, Continue, Accepted, TypeOK, TaskInv, WalletInv
<1>8. ASSUME NEW d \in Devices, OpenMobile(d) PROVE WalletInv'
  <2>1. /\ wallet' = wallet /\ secret' = secret
        /\ task[d].id \in Identity /\ wallet = task[d].id.wallet /\ task[d].recovery \in {0, wallet}
    BY <1>0, <1>8 DEF OpenMobile, TaskInv, WalletInv
  <2>2. QED
    BY <1>0, <1>8, <2>1, OpenMobileEffect, NoneIsNothing DEF WalletInv, Idle
<1>9. ASSUME NEW d \in Devices, AcceptUnlocked(d) PROVE WalletInv'
  BY <1>0, <1>9, DeviceAssumption, NoneIsNothing
     DEF AcceptUnlocked, Done, TypeOK, TaskInv, WalletInv
<1>10. ASSUME NEW d \in Devices, SaveIdentity(d) PROVE WalletInv'
  BY <1>0, <1>10, DeviceAssumption, NoneIsNothing
     DEF SaveIdentity, Continue, TypeOK, TaskInv, WalletInv
<1>10a. ASSUME NEW d \in Devices, OpenSession(d) PROVE WalletInv'
  BY <1>0, <1>10a, DeviceAssumption, NoneIsNothing
     DEF OpenSession, Continue, Opened, TypeOK, TaskInv, WalletInv
<1>10b. ASSUME NEW d \in Devices, SaveSession(d) PROVE WalletInv'
  BY <1>0, <1>10b, DeviceAssumption, NoneIsNothing
     DEF SaveSession, Continue, TypeOK, TaskInv, WalletInv
<1>10c. ASSUME NEW d \in Devices, FillRecord(d) PROVE WalletInv'
  BY <1>0, <1>10c, DeviceAssumption, NoneIsNothing
     DEF FillRecord, Continue, TypeOK, TaskInv, WalletInv
<1>11. ASSUME NEW d \in Devices, PublishLocal(d) PROVE WalletInv'
  BY <1>0, <1>11, DeviceAssumption, NoneIsNothing
     DEF PublishLocal, TypeOK, TaskInv, WalletInv
<1>12. ASSUME NEW d \in Devices, PutRecord(d) PROVE WalletInv'
  BY <1>0, <1>12, DeviceAssumption, NoneIsNothing
     DEF PutRecord, Continue, TypeOK, TaskInv, WalletInv
<1>13. ASSUME NEW d \in Devices, CompareRecord(d) PROVE WalletInv'
  BY <1>0, <1>13, DeviceAssumption, NoneIsNothing
     DEF CompareRecord, Continue, TypeOK, TaskInv, WalletInv
<1>14. ASSUME NEW d \in Devices, SetCurrent(d) PROVE WalletInv'
  BY <1>0, <1>14, DeviceAssumption, NoneIsNothing
     DEF SetCurrent, Done, TypeOK, TaskInv, WalletInv
<1>15. ASSUME NEW d \in Devices, Fail(d) PROVE WalletInv'
  BY <1>0, <1>15, DeviceAssumption, NoneIsNothing
     DEF Fail, Done, TypeOK, TaskInv, WalletInv
<1>16. ASSUME NEW d \in Devices, NEW new \in BOOLEAN, SaveProfile(d, new) PROVE WalletInv'
  BY <1>0, <1>16, DeviceAssumption, NoneIsNothing
     DEF SaveProfile, Publishing, TypeOK, TaskInv, WalletInv
<1>17. ASSUME NEW d \in Devices, Start(d) PROVE WalletInv'
  <2>1. wallet' = wallet /\ secret' = secret
    BY <1>17 DEF Start
  <2>2. QED
    BY <1>0, <1>17, <2>1, StartEffect DEF WalletInv
<1>18. ASSUME NEW d \in Devices, Quit(d) PROVE WalletInv'
  BY <1>0, <1>18, DeviceAssumption, NoneIsNothing
     DEF Quit, TypeOK, TaskInv, WalletInv
<1>19. ASSUME NEW d \in Devices, PollGet(d) PROVE WalletInv'
  BY <1>0, <1>19, DeviceAssumption, NoneIsNothing
     DEF PollGet, TypeOK, TaskInv, WalletInv
<1>20. ASSUME NEW d \in Devices, PollSet(d) PROVE WalletInv'
  BY <1>0, <1>20, DeviceAssumption, NoneIsNothing
     DEF PollSet, TypeOK, TaskInv, WalletInv
<1>21. CASE Expire
  BY <1>0, <1>21, DeviceAssumption DEF Expire, TypeOK, TaskInv, WalletInv
<1>22. CASE UNCHANGED vars
  BY <1>0, <1>22 DEF vars, TypeOK, TaskInv, WalletInv
<1>23. QED
  BY <1>1, <1>2, <1>3, <1>4, <1>5, <1>6, <1>7, <1>8, <1>9, <1>10, <1>10a, <1>10b,
     <1>10c, <1>11, <1>12, <1>13,
     <1>14, <1>15, <1>16, <1>17, <1>18, <1>19, <1>20, <1>21, <1>22
     DEF Next, LoginStep, PublishStep

(* A desktop keeps its identity before it writes files.                    *)
LEMMA DesktopStep ==
    ASSUME SwitchInv, [Next]_vars
    PROVE  DesktopInv'
<1> USE DEF registry, bounds, Devices, Task, Idle, App, Closed, Store, Identity, Tokens
<1>0. TypeOK /\ TaskInv /\ DesktopInv
  BY DEF SwitchInv, BaseInv
<1>1. ASSUME NEW d \in Devices, Login(d) PROVE DesktopInv'
  BY <1>0, <1>1, DeviceAssumption, NoneIsNothing
     DEF Login, TypeOK, TaskInv, DesktopInv
<1>2. ASSUME NEW d \in Devices, GetRecovery(d) PROVE DesktopInv'
  BY <1>0, <1>2, DeviceAssumption, NoneIsNothing
     DEF GetRecovery, Accepted, TypeOK, TaskInv, DesktopInv
<1>3. ASSUME NEW d \in Devices, GetRecord(d) PROVE DesktopInv'
  BY <1>0, <1>3, DeviceAssumption, NoneIsNothing
     DEF GetRecord, TypeOK, TaskInv, DesktopInv
<1>4. ASSUME NEW d \in Devices, Adopt(d) PROVE DesktopInv'
  BY <1>0, <1>4, DeviceAssumption, NoneIsNothing
     DEF Adopt, NewIdentity, Matches, TypeOK, TaskInv, DesktopInv
<1>5. ASSUME NEW d \in Devices, AcceptAccount(d) PROVE DesktopInv'
  BY <1>0, <1>5, DeviceAssumption, NoneIsNothing
     DEF AcceptAccount, Done, TypeOK, TaskInv, DesktopInv
<1>6. ASSUME NEW d \in Devices, CreateIdentity(d) PROVE DesktopInv'
  BY <1>0, <1>6, DeviceAssumption, NoneIsNothing
     DEF CreateIdentity, NewIdentity, TypeOK, TaskInv, DesktopInv
<1>7. ASSUME NEW d \in Devices, PutRecovery(d) PROVE DesktopInv'
  BY <1>0, <1>7, DeviceAssumption, NoneIsNothing
     DEF PutRecovery, Continue, Accepted, TypeOK, TaskInv, DesktopInv
<1>8. ASSUME NEW d \in Devices, OpenMobile(d) PROVE DesktopInv'
  <2>1. d \notin Desktops /\ secret' = secret
    BY <1>8, DeviceAssumption DEF OpenMobile
  <2>2. ASSUME NEW e \in Desktops PROVE store'[e] = store[e]
    BY <1>0, <1>8, <2>1, <2>2 DEF OpenMobile, TypeOK, Devices
  <2>3. QED
    BY <1>0, <1>8, <2>1, <2>2, OpenMobileEffect DEF DesktopInv, Devices
<1>9. ASSUME NEW d \in Devices, AcceptUnlocked(d) PROVE DesktopInv'
  BY <1>0, <1>9, DeviceAssumption, NoneIsNothing
     DEF AcceptUnlocked, Done, TypeOK, TaskInv, DesktopInv
<1>10. ASSUME NEW d \in Devices, SaveIdentity(d) PROVE DesktopInv'
  BY <1>0, <1>10, DeviceAssumption, NoneIsNothing
     DEF SaveIdentity, Continue, TypeOK, TaskInv, DesktopInv
<1>10a. ASSUME NEW d \in Devices, OpenSession(d) PROVE DesktopInv'
  BY <1>0, <1>10a, DeviceAssumption, NoneIsNothing
     DEF OpenSession, Continue, Opened, TypeOK, TaskInv, DesktopInv
<1>10b. ASSUME NEW d \in Devices, SaveSession(d) PROVE DesktopInv'
  BY <1>0, <1>10b, DeviceAssumption, NoneIsNothing
     DEF SaveSession, Continue, TypeOK, TaskInv, DesktopInv
<1>10c. ASSUME NEW d \in Devices, FillRecord(d) PROVE DesktopInv'
  BY <1>0, <1>10c, DeviceAssumption, NoneIsNothing
     DEF FillRecord, Continue, TypeOK, TaskInv, DesktopInv
<1>11. ASSUME NEW d \in Devices, PublishLocal(d) PROVE DesktopInv'
  BY <1>0, <1>11, DeviceAssumption, NoneIsNothing
     DEF PublishLocal, TypeOK, TaskInv, DesktopInv
<1>12. ASSUME NEW d \in Devices, PutRecord(d) PROVE DesktopInv'
  BY <1>0, <1>12, DeviceAssumption, NoneIsNothing
     DEF PutRecord, Continue, TypeOK, TaskInv, DesktopInv
<1>13. ASSUME NEW d \in Devices, CompareRecord(d) PROVE DesktopInv'
  BY <1>0, <1>13, DeviceAssumption, NoneIsNothing
     DEF CompareRecord, Continue, TypeOK, TaskInv, DesktopInv
<1>14. ASSUME NEW d \in Devices, SetCurrent(d) PROVE DesktopInv'
  BY <1>0, <1>14, DeviceAssumption, NoneIsNothing
     DEF SetCurrent, Done, TypeOK, TaskInv, DesktopInv
<1>15. ASSUME NEW d \in Devices, Fail(d) PROVE DesktopInv'
  BY <1>0, <1>15, DeviceAssumption, NoneIsNothing
     DEF Fail, Done, TypeOK, TaskInv, DesktopInv
<1>16. ASSUME NEW d \in Devices, NEW new \in BOOLEAN, SaveProfile(d, new) PROVE DesktopInv'
  BY <1>0, <1>16, DeviceAssumption, NoneIsNothing
     DEF SaveProfile, Publishing, TypeOK, TaskInv, DesktopInv
<1>17. ASSUME NEW d \in Devices, Start(d) PROVE DesktopInv'
  <2>1. secret' = secret /\ store' = store
    BY <1>17 DEF Start
  <2>2. QED
    BY <1>0, <1>17, <2>1, StartEffect DEF DesktopInv, Devices
<1>18. ASSUME NEW d \in Devices, Quit(d) PROVE DesktopInv'
  BY <1>0, <1>18, DeviceAssumption, NoneIsNothing
     DEF Quit, TypeOK, TaskInv, DesktopInv
<1>19. ASSUME NEW d \in Devices, PollGet(d) PROVE DesktopInv'
  BY <1>0, <1>19, DeviceAssumption, NoneIsNothing
     DEF PollGet, TypeOK, TaskInv, DesktopInv
<1>20. ASSUME NEW d \in Devices, PollSet(d) PROVE DesktopInv'
  BY <1>0, <1>20, DeviceAssumption, NoneIsNothing
     DEF PollSet, TypeOK, TaskInv, DesktopInv
<1>21. CASE Expire
  BY <1>0, <1>21, DeviceAssumption DEF Expire, TypeOK, TaskInv, DesktopInv
<1>22. CASE UNCHANGED vars
  BY <1>0, <1>22 DEF vars, TypeOK, TaskInv, DesktopInv
<1>23. QED
  BY <1>1, <1>2, <1>3, <1>4, <1>5, <1>6, <1>7, <1>8, <1>9, <1>10, <1>10a, <1>10b,
     <1>10c, <1>11, <1>12, <1>13,
     <1>14, <1>15, <1>16, <1>17, <1>18, <1>19, <1>20, <1>21, <1>22
     DEF Next, LoginStep, PublishStep
-----------------------------------------------------------------------------
LEMMA InitSwitch == Init => SwitchInv
<1> SUFFICES ASSUME Init PROVE SwitchInv
  OBVIOUS
<1>1. TypeOK
  BY DeviceAssumption, Beginnings DEF Init, TypeOK
<1>2. LoginFirst /\ TaskInv
  BY DEF Init, LoginFirst, TaskInv, Idle, Closed
<1>3. WalletInv /\ DesktopInv
  BY DEF Init, WalletInv, DesktopInv, Idle, Closed, NoFiles, Devices
<1>4. QED
  BY <1>1, <1>2, <1>3 DEF SwitchInv, BaseInv

(* What logins, publications, devices and the registry know of each other  *)
(* at every step (confirm_email_login_inner, accept_account,               *)
(* create_identity, publish_profile).                                      *)
THEOREM SwitchCorrect == Spec => []SwitchInv
<1>1. SwitchInv /\ [Next]_vars => SwitchInv'
  BY TypeStep, FirstStep, TaskStep, WalletStep, DesktopStep DEF SwitchInv, BaseInv
<1>2. QED
  BY InitSwitch, <1>1, PTL DEF Spec

(* Types hold.                                                             *)
THEOREM TypeCorrect == Spec => []TypeOK
BY SwitchCorrect, PTL DEF SwitchInv, BaseInv

(* Every identity that a device keeps is the one that the registry lets    *)
(* the next device recover, though several devices set up the account at   *)
(* the same time and any call may fail (put_recovery).                     *)
THEOREM IdentitiesRecoverable == Spec => []Recoverable
<1>1. SwitchInv => Recoverable
  BY DEF SwitchInv, WalletInv, Recoverable
<1>2. QED
  BY SwitchCorrect, <1>1, PTL

(* The files of a desktop can always be read with the identity on its      *)
(* disk: between any two of the steps that save the identity, open the     *)
(* store and write the session into it, whichever of them fails and        *)
(* however often the setup is begun again (create_identity).               *)
THEOREM DesktopsReadTheirFiles == Spec => []DesktopFilesReadable
<1>1. SwitchInv => DesktopFilesReadable
  BY DEF SwitchInv, DesktopInv, DesktopFilesReadable, KeptFor
<1>2. QED
  BY SwitchCorrect, <1>1, PTL
=============================================================================
