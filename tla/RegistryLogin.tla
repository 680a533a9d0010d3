--------------------------- MODULE RegistryLogin ---------------------------
(***************************************************************************)
(* Login at the registry (mycellium-registry): one-time tokens sent by     *)
(* mail, the account of a mail address, the one session of an account,     *)
(* rate-limit buckets, and the cleanup that walks the expiry indexes.      *)
(*                                                                         *)
(* A handler runs in the blocking pool and reads the clock once, when it   *)
(* starts; each redb transaction it makes is one step.  A mail address     *)
(* stands for its hash, a token for its hash.  Random tokens and account   *)
(* ids never repeat.                                                       *)
(***************************************************************************)
EXTENDS Naturals, FiniteSets

CONSTANTS
    Emails,          \* login identities (normalised and hashed)
    Accounts,        \* account ids that may be generated
    LoginTokens,     \* login tokens that may be generated
    SessionTokens,   \* bearer tokens that may be generated
    Requests,        \* requests that the server handles at once
    None,
    LoginTtl,        \* LOGIN_TTL_SECS, also the window of a bucket
    SessionTtl,      \* SESSION_TTL_SECS
    Limit,           \* hits that a bucket allows, by kind of bucket
    Batch,           \* rows that one pass of the cleanup removes
    MaxRequests,     \* bound on the requests of a behaviour
    MaxTime          \* bound on the clock

ASSUME LoginAssumption ==
    /\ None \notin Emails \cup Accounts \cup LoginTokens \cup SessionTokens
    /\ LoginTtl \in Nat \ {0}
    /\ SessionTtl \in Nat \ {0}
    /\ Limit \in [{"source", "email", "confirm"} -> Nat]
    /\ Batch \in Nat \ {0}
    /\ MaxTime \in Nat
    /\ MaxRequests \in Nat

(* Buckets: one per mail address; the requests come from one source.       *)
RateKeys == {<<"source", None>>, <<"confirm", None>>} \cup ({"email"} \X Emails)

VARIABLES
    clock,
    tokens,          \* LOGIN_TOKENS
    tokenExpiry,     \* LOGIN_TOKEN_EXPIRY: (expiry, token)
    loginIndex,      \* LOGIN_INDEX: the account of a mail address
    sessions,        \* ACCOUNT_SESSIONS: the session of an account
    sessionIndex,    \* SESSION_INDEX: the account of a bearer token
    sessionExpiry,   \* SESSION_EXPIRY: (expiry, account) with its token
    rates,           \* RATES
    rateExpiry,      \* RATE_EXPIRY: (expiry, bucket)
    req,             \* the handlers' local state
    started,         \* requests so far
    purgeAt,         \* the time at which the running cleanup started, or None
    mailed,          \* login tokens that reached a mailbox
    generated,       \* random ids drawn so far
    logins,          \* history: how often a login token gave a session
    owner,           \* history: the address that a bearer token was given to
    newest           \* history: the last bearer token made for an account

tables == <<tokens, tokenExpiry, loginIndex, sessions, sessionIndex, sessionExpiry>>
buckets == <<rates, rateExpiry>>
history == <<logins, owner, newest>>
vars == <<clock, tables, buckets, req, started, purgeAt, mailed, generated, history>>

Time == 0 .. (MaxTime + LoginTtl + SessionTtl)

Token == [email : Emails, acct : Accounts \cup {None}, expires : Time]
Session == [token : SessionTokens, expires : Time]
Bucket == [count : Nat, expires : Time]

(* A row that is not there is no row.                                      *)
ASSUME NoneAssumption == None \notin Token /\ None \notin Session /\ None \notin Bucket

(* A handler.  token is the login token it makes or takes, login the row   *)
(* it took, acct the account it found.                                     *)
Pcs == {"idle", "source", "email", "find", "put_token", "send",
        "confirm", "take", "account", "session"}
Idle == [pc |-> "idle", time |-> 0, email |-> None, token |-> None, acct |-> None]
Request == [pc : Pcs, time : 0 .. MaxTime, email : Emails \cup {None},
            token : LoginTokens \cup {None}, acct : Accounts \cup {None}]

TypeOK ==
    /\ clock \in 0 .. MaxTime
    /\ tokens \in [LoginTokens -> Token \cup {None}]
    /\ tokenExpiry \subseteq Time \X LoginTokens
    /\ loginIndex \in [Emails -> Accounts \cup {None}]
    /\ sessions \in [Accounts -> Session \cup {None}]
    /\ sessionIndex \in [SessionTokens -> Accounts \cup {None}]
    /\ sessionExpiry \subseteq Time \X Accounts \X SessionTokens
    /\ rates \in [RateKeys -> Bucket \cup {None}]
    /\ rateExpiry \subseteq Time \X RateKeys
    /\ req \in [Requests -> Request]
    /\ started \in 0 .. MaxRequests
    /\ purgeAt \in (0 .. MaxTime) \cup {None}
    /\ mailed \subseteq LoginTokens
    /\ generated \subseteq Accounts \cup LoginTokens \cup SessionTokens
    /\ logins \in [LoginTokens -> Nat]
    /\ owner \in [SessionTokens -> Emails \cup {None}]
    /\ newest \in [Accounts -> SessionTokens \cup {None}]

Init ==
    /\ clock = 0
    /\ tokens = [t \in LoginTokens |-> None] /\ tokenExpiry = {}
    /\ loginIndex = [e \in Emails |-> None]
    /\ sessions = [a \in Accounts |-> None]
    /\ sessionIndex = [s \in SessionTokens |-> None] /\ sessionExpiry = {}
    /\ rates = [k \in RateKeys |-> None] /\ rateExpiry = {}
    /\ req = [p \in Requests |-> Idle]
    /\ started = 0
    /\ purgeAt = None
    /\ mailed = {} /\ generated = {}
    /\ logins = [t \in LoginTokens |-> 0]
    /\ owner = [s \in SessionTokens |-> None]
    /\ newest = [a \in Accounts |-> None]

-----------------------------------------------------------------------------
Goto(p, pc) == req' = [req EXCEPT ![p].pc = pc]
Finish(p) == req' = [req EXCEPT ![p] = Idle]

(* now(), read once when the handler starts.                               *)
StartRequestLogin(p, e) ==
    /\ req[p].pc = "idle"
    /\ started < MaxRequests
    /\ started' = started + 1
    /\ req' = [req EXCEPT ![p] = [Idle EXCEPT !.pc = "source", !.time = clock, !.email = e]]
    /\ UNCHANGED <<clock, tables, buckets, purgeAt, mailed, generated, history>>

(* A link may be opened more than once.                                    *)
StartConfirmLogin(p, t) ==
    /\ req[p].pc = "idle"
    /\ started < MaxRequests
    /\ started' = started + 1
    /\ t \in mailed
    /\ req' = [req EXCEPT ![p] = [Idle EXCEPT !.pc = "confirm", !.time = clock, !.token = t]]
    /\ UNCHANGED <<clock, tables, buckets, purgeAt, mailed, generated, history>>

(* bump_rate_limit: the bucket after one more hit at time now.             *)
Bumped(k, now) ==
    IF rates[k] # None /\ rates[k].expires > now
    THEN [rates[k] EXCEPT !.count = @ + 1]
    ELSE [count |-> 1, expires |-> now + LoginTtl]

(* check_rate_limit: the hit counts even when it is refused.               *)
CheckRateLimit(p, k, next) ==
    LET bucket == Bumped(k, req[p].time)
        old == IF rates[k] = None THEN {} ELSE {<<rates[k].expires, k>>}
    IN /\ rates' = [rates EXCEPT ![k] = bucket]
       /\ rateExpiry' = (rateExpiry \ old) \cup {<<bucket.expires, k>>}
       /\ IF bucket.count > Limit[k[1]] THEN Finish(p) ELSE Goto(p, next)
       /\ UNCHANGED <<clock, tables, started, purgeAt, mailed, generated, history>>

LimitSource(p) == req[p].pc = "source" /\ CheckRateLimit(p, <<"source", None>>, "email")
LimitEmail(p) == req[p].pc = "email" /\ CheckRateLimit(p, <<"email", req[p].email>>, "find")
LimitConfirm(p) == req[p].pc = "confirm" /\ CheckRateLimit(p, <<"confirm", None>>, "take")

(* request_email_login: account_id_by_login, ...                           *)
FindAccount(p, t) ==
    /\ req[p].pc = "find"
    /\ t \notin generated
    /\ generated' = generated \cup {t}
    /\ req' = [req EXCEPT ![p].pc = "put_token", ![p].token = t,
                          ![p].acct = loginIndex[req[p].email]]
    /\ UNCHANGED <<clock, tables, buckets, started, purgeAt, mailed, history>>

(* ... put_login_token, ...                                                *)
PutLoginToken(p) ==
    LET expires == req[p].time + LoginTtl
    IN /\ req[p].pc = "put_token"
       /\ tokens' = [tokens EXCEPT ![req[p].token] =
             [email |-> req[p].email, acct |-> req[p].acct, expires |-> expires]]
       /\ tokenExpiry' = tokenExpiry \cup {<<expires, req[p].token>>}
       /\ Goto(p, "send")
       /\ UNCHANGED <<clock, loginIndex, sessions, sessionIndex, sessionExpiry,
                      buckets, started, purgeAt, mailed, generated, history>>

(* ... and send_login_token, which may fail.                               *)
SendLoginToken(p) ==
    /\ req[p].pc = "send"
    /\ mailed' \in {mailed, mailed \cup {req[p].token}}
    /\ Finish(p)
    /\ UNCHANGED <<clock, tables, buckets, started, purgeAt, generated, history>>

-----------------------------------------------------------------------------
(* Mutant of TakeLoginToken: an expired token stays, and so does one that  *)
(* is taken.                                                               *)
TakeLoginTokenKept(p) ==
    LET row == tokens[req[p].token]
    IN /\ req[p].pc = "take"
       /\ IF row = None \/ row.expires <= req[p].time
          THEN Finish(p)
          ELSE req' = [req EXCEPT ![p].pc = IF row.acct = None THEN "account" ELSE "session",
                                  ![p].email = row.email, ![p].acct = row.acct]
       /\ UNCHANGED <<clock, tables, buckets, started, purgeAt, mailed, generated, history>>

(* confirm_login: take_login_token removes the row, expired or not; the    *)
(* row may already name the account.                                       *)
TakeLoginToken(p) ==
    LET row == tokens[req[p].token]
    IN /\ req[p].pc = "take"
       /\ tokens' = [tokens EXCEPT ![req[p].token] = None]
       /\ tokenExpiry' = IF row = None THEN tokenExpiry
                         ELSE tokenExpiry \ {<<row.expires, req[p].token>>}
       /\ IF row = None \/ row.expires <= req[p].time
          THEN Finish(p)
          ELSE req' = [req EXCEPT ![p].pc = IF row.acct = None THEN "account" ELSE "session",
                                  ![p].email = row.email, ![p].acct = row.acct]
       /\ UNCHANGED <<clock, loginIndex, sessions, sessionIndex, sessionExpiry,
                      buckets, started, purgeAt, mailed, generated, history>>

(* Mutant of GetOrCreateAccount: the index is not read again.              *)
CreateAccountAnyway(p, a) ==
    /\ req[p].pc = "account"
    /\ a \notin generated
    /\ generated' = generated \cup {a}
    /\ loginIndex' = [loginIndex EXCEPT ![req[p].email] = a]
    /\ req' = [req EXCEPT ![p].pc = "session", ![p].acct = a]
    /\ UNCHANGED <<clock, tokens, tokenExpiry, sessions, sessionIndex, sessionExpiry,
                   buckets, started, purgeAt, mailed, history>>

(* get_or_create_account_for_login: another confirmation may have created  *)
(* the account since the token was made.                                   *)
GetOrCreateAccount(p, a) ==
    LET e == req[p].email
    IN /\ req[p].pc = "account"
       /\ a \notin generated
       /\ generated' = generated \cup {a}
       /\ loginIndex' = IF loginIndex[e] = None THEN [loginIndex EXCEPT ![e] = a]
                        ELSE loginIndex
       /\ req' = [req EXCEPT ![p].pc = "session", ![p].acct = loginIndex'[e]]
       /\ UNCHANGED <<clock, tokens, tokenExpiry, sessions, sessionIndex, sessionExpiry,
                      buckets, started, purgeAt, mailed, history>>

(* Mutant of ExpiryReplaced: the new row is written before the old one is  *)
(* removed, which loses it when both expire at the same second.            *)
ExpiryReplacedLate(a, old, new) ==
    LET added == {x \in sessionExpiry : <<x[1], x[2]>> # <<new.expires, a>>}
                    \cup {<<new.expires, a, new.token>>}
    IN IF old = None THEN added
       ELSE {x \in added : <<x[1], x[2]>> # <<old.expires, a>>}

(* The rows of SESSION_EXPIRY after the session of account a changes from  *)
(* old to new: the key is (expiry, account).                               *)
ExpiryReplaced(a, old, new) ==
    LET kept == IF old = None THEN sessionExpiry
                ELSE {x \in sessionExpiry : <<x[1], x[2]>> # <<old.expires, a>>}
    IN {x \in kept : <<x[1], x[2]>> # <<new.expires, a>>}
          \cup {<<new.expires, a, new.token>>}

(* Mutant of ReplaceSession: a session that lasts longer is kept.          *)
ReplaceSessionIfLonger(p, s) ==
    LET a == req[p].acct
        old == sessions[a]
        new == [token |-> s, expires |-> req[p].time + SessionTtl]
        longer == old = None \/ old.expires < new.expires
    IN /\ req[p].pc = "session"
       /\ s \notin generated
       /\ generated' = generated \cup {s}
       /\ sessions' = IF longer THEN [sessions EXCEPT ![a] = new] ELSE sessions
       /\ sessionIndex' = [sessionIndex EXCEPT ![s] = a]
       /\ sessionExpiry' = IF longer THEN ExpiryReplaced(a, old, new) ELSE sessionExpiry
       /\ logins' = [logins EXCEPT ![req[p].token] = @ + 1]
       /\ owner' = [owner EXCEPT ![s] = req[p].email]
       /\ newest' = [newest EXCEPT ![a] = s]
       /\ Finish(p)
       /\ UNCHANGED <<clock, tokens, tokenExpiry, loginIndex, buckets, started, purgeAt, mailed>>

(* create_session and replace_session: the account's previous session is   *)
(* revoked in the same transaction; then the client is answered.           *)
ReplaceSession(p, s) ==
    LET a == req[p].acct
        old == sessions[a]
        new == [token |-> s, expires |-> req[p].time + SessionTtl]
        revoked == IF old = None THEN sessionIndex
                   ELSE [sessionIndex EXCEPT ![old.token] = None]
    IN /\ req[p].pc = "session"
       /\ s \notin generated
       /\ generated' = generated \cup {s}
       /\ sessions' = [sessions EXCEPT ![a] = new]
       /\ sessionIndex' = [revoked EXCEPT ![s] = a]
       /\ sessionExpiry' = ExpiryReplaced(a, old, new)
       /\ logins' = [logins EXCEPT ![req[p].token] = @ + 1]
       /\ owner' = [owner EXCEPT ![s] = req[p].email]
       /\ newest' = [newest EXCEPT ![a] = s]
       /\ Finish(p)
       /\ UNCHANGED <<clock, tokens, tokenExpiry, loginIndex, buckets, started, purgeAt, mailed>>

(* A store call fails, its transaction does not commit and the client gets *)
(* an error; what earlier transactions did stays.                          *)
Fail(p) ==
    /\ req[p].pc # "idle"
    /\ Finish(p)
    /\ UNCHANGED <<clock, tables, buckets, started, purgeAt, mailed, generated, history>>

-----------------------------------------------------------------------------
(* The maintenance task: reads the clock, then runs passes until one       *)
(* removes less than a batch.                                              *)
StartPurge ==
    /\ purgeAt = None
    /\ purgeAt' = clock
    /\ UNCHANGED <<clock, tables, buckets, req, started, mailed, generated, history>>

(* Mutant of Due: rows that are about to expire are due.                   *)
DueSoon(index) == {x \in index : x[1] <= purgeAt + 1}

(* Mutant of Due: a row is due only after the second in which it expires.  *)
DueLate(index) == {x \in index : x[1] < purgeAt}

Due(index) == {x \in index : x[1] <= purgeAt}

(* The first n rows of an index in the order of their expiry.              *)
Earliest(index, n) ==
    {d \in SUBSET index :
        /\ Cardinality(d) = IF Cardinality(index) <= n THEN Cardinality(index) ELSE n
        /\ \A x \in d, y \in index \ d : x[1] <= y[1]}

(* One pass of purge_expired: tokens, then sessions, then buckets, up to   *)
(* the batch.  A row goes with its index entry only if it is the one that  *)
(* the entry was made for.                                                 *)
PurgeRows(ts, ss, rs) ==
    /\ tokens' = [t \in LoginTokens |-> IF \E x \in ts : x[2] = t THEN None ELSE tokens[t]]
    /\ tokenExpiry' = tokenExpiry \ ts
    /\ LET gone == {x \in ss : sessions[x[2]] = [token |-> x[3], expires |-> x[1]]}
       IN /\ sessions' = [a \in Accounts |->
                IF \E x \in gone : x[2] = a THEN None ELSE sessions[a]]
          /\ sessionIndex' = [s \in SessionTokens |->
                IF \E x \in gone : x[3] = s THEN None ELSE sessionIndex[s]]
    /\ sessionExpiry' = sessionExpiry \ ss
    /\ rates' = [k \in RateKeys |->
          IF rates[k] # None /\ <<rates[k].expires, k>> \in rs THEN None ELSE rates[k]]
    /\ rateExpiry' = rateExpiry \ rs

(* The passes end with the first one that is not full.                     *)
PurgePass ==
    \E ts \in Earliest(Due(tokenExpiry), Batch) :
      \E ss \in Earliest(Due(sessionExpiry), Batch - Cardinality(ts)) :
        \E rs \in Earliest(Due(rateExpiry), Batch - Cardinality(ts) - Cardinality(ss)) :
          /\ PurgeRows(ts, ss, rs)
          /\ purgeAt' = IF Cardinality(ts) + Cardinality(ss) + Cardinality(rs) < Batch
                        THEN None ELSE purgeAt

Purge ==
    /\ purgeAt # None
    /\ PurgePass
    /\ UNCHANGED <<clock, loginIndex, req, started, mailed, generated, history>>

(* The server stops and starts again; the tables are durable.              *)
Crash ==
    /\ req' = [p \in Requests |-> Idle]
    /\ purgeAt' = None
    /\ UNCHANGED <<clock, tables, buckets, started, mailed, generated, history>>

Tick ==
    /\ clock < MaxTime
    /\ clock' = clock + 1
    /\ UNCHANGED <<tables, buckets, req, started, purgeAt, mailed, generated, history>>

Step(p) ==
    \/ LimitSource(p) \/ LimitEmail(p) \/ LimitConfirm(p)
    \/ \E t \in LoginTokens : FindAccount(p, t)
    \/ PutLoginToken(p) \/ SendLoginToken(p) \/ TakeLoginToken(p)
    \/ \E a \in Accounts : GetOrCreateAccount(p, a)
    \/ \E s \in SessionTokens : ReplaceSession(p, s)

Next ==
    \/ \E p \in Requests :
          \/ \E e \in Emails : StartRequestLogin(p, e)
          \/ \E t \in LoginTokens : StartConfirmLogin(p, t)
          \/ Step(p)
          \/ Fail(p)
    \/ StartPurge \/ Purge \/ Crash \/ Tick

Spec == Init /\ [][Next]_vars

(* The maintenance task keeps running; a server that stops for ever and    *)
(* again still completes passes now and then.                              *)
FairSpec == Spec /\ WF_vars(StartPurge) /\ SF_vars(Purge)

-----------------------------------------------------------------------------
(* account_for_session: what a bearer token opens now, over both tables.   *)
AccountForSession(s) ==
    LET a == sessionIndex[s]
    IN IF a = None THEN None
       ELSE IF sessions[a] = None THEN None
       ELSE IF sessions[a].token # s \/ sessions[a].expires <= clock THEN None
       ELSE a

(* A login link logs in at most once, however often and however much at    *)
(* the same time it is opened (take_login_token).                          *)
TokenOnce == \A t \in LoginTokens : logins[t] <= 1

(* A bearer token opens only the account of the address that its link was  *)
(* mailed to, though the link may be older than the account and several    *)
(* confirmations may race to create it (get_or_create_account_for_login).  *)
OwnAccountOnly == \A s \in SessionTokens :
    AccountForSession(s) # None => loginIndex[owner[s]] = AccountForSession(s)

(* Only the newest session of an account is accepted; older ones stay      *)
(* revoked, also while the cleanup runs (replace_session, purge_expired).  *)
NewestOnly == \A s \in SessionTokens :
    AccountForSession(s) # None => newest[AccountForSession(s)] = s

(* Every row can be found by the cleanup: the index has exactly the        *)
(* entries of the rows there are (expiry_key in replace_session and        *)
(* bump_rate_limit).                                                       *)
TokensIndexed == \A x \in Time, t \in LoginTokens :
    <<x, t>> \in tokenExpiry <=> tokens[t] # None /\ tokens[t].expires = x
SessionsIndexed == \A x \in Time, a \in Accounts, s \in SessionTokens :
    <<x, a, s>> \in sessionExpiry <=>
        sessions[a] # None /\ sessions[a].token = s /\ sessions[a].expires = x
RatesIndexed == \A x \in Time, k \in RateKeys :
    <<x, k>> \in rateExpiry <=> rates[k] # None /\ rates[k].expires = x
ExpiryIndexed == TokensIndexed /\ SessionsIndexed /\ RatesIndexed

(* Nothing that has not expired is lost to the cleanup: a token goes only  *)
(* when it is confirmed, a session only when it is replaced.               *)
PurgesExpiredOnly == [][Purge =>
    /\ \A t \in LoginTokens : tokens[t] # None /\ tokens'[t] = None =>
          tokens[t].expires <= clock
    /\ \A a \in Accounts : sessions[a] # None /\ sessions'[a] = None =>
          sessions[a].expires <= clock
    /\ \A k \in RateKeys : rates[k] # None /\ rates'[k] = None =>
          rates[k].expires <= clock]_vars

(* An expired login token is removed in the end, and so is an expired      *)
(* session, unless a new one replaces it (the maintenance task).           *)
ExpiredGo ==
    /\ \A t \in LoginTokens :
          (tokens[t] # None /\ tokens[t].expires <= clock) ~> tokens[t] = None
    /\ \A a \in Accounts :
          (sessions[a] # None /\ sessions[a].expires <= clock)
             ~> (sessions[a] = None \/ sessions[a].expires > clock)

-----------------------------------------------------------------------------
(* The inductive invariant of the proofs (RegistryLogin_proof).            *)

(* What a handler has at hand at each of its steps.                        *)
HandlerInv == \A p \in Requests :
    /\ req[p].pc \in {"source", "email", "find", "put_token", "account", "session"} =>
          req[p].email # None
    /\ req[p].pc \in {"put_token", "send", "take", "confirm", "account", "session"} =>
          req[p].token # None
    /\ req[p].pc = "session" => req[p].acct # None

(* Handlers that have made token t and not yet stored it, or have taken it *)
(* and not yet made its session.                                           *)
Holders(t) == {p \in Requests : /\ req[p].pc \in {"put_token", "account", "session"}
                                /\ req[p].token = t}

(* A token is with at most one handler, or in the table, or used.          *)
TokenInv == \A t \in LoginTokens :
    /\ \A p, q \in Holders(t) : p = q
    /\ Holders(t) # {} => tokens[t] = None /\ logins[t] = 0
    /\ tokens[t] # None => logins[t] = 0
    /\ logins[t] <= 1
    /\ t \notin generated => Holders(t) = {} /\ tokens[t] = None /\ logins[t] = 0

(* Whoever names an account has it from the index of the mail address.     *)
OwnerInv ==
    /\ \A t \in LoginTokens : tokens[t] # None /\ tokens[t].acct # None =>
          loginIndex[tokens[t].email] = tokens[t].acct
    /\ \A p \in Requests : req[p].pc \in {"put_token", "session"} /\ req[p].acct # None =>
          loginIndex[req[p].email] = req[p].acct
    /\ \A s \in SessionTokens : sessionIndex[s] # None =>
          owner[s] # None /\ loginIndex[owner[s]] = sessionIndex[s]

NewestInv == \A a \in Accounts : sessions[a] # None => newest[a] = sessions[a].token

PurgeInv == purgeAt # None => purgeAt <= clock

LoginInv ==
    /\ TypeOK /\ HandlerInv /\ TokenInv /\ OwnerInv /\ NewestInv /\ ExpiryIndexed /\ PurgeInv
=============================================================================
