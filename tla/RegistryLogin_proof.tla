------------------------ MODULE RegistryLogin_proof ------------------------
(***************************************************************************)
(* Proofs about RegistryLogin for any numbers of addresses, accounts,      *)
(* tokens and concurrent handlers, any lifetimes, rate limits and batch    *)
(* size, and any bounds on time and requests.                              *)
(*                                                                         *)
(* Everything follows from one inductive invariant, LoginInv.  The core of *)
(* it is TokenInv: a login token is with one handler, or in the table, or  *)
(* used, never two of these; OwnerInv: whoever names an account has it     *)
(* from the index of the address; and ExpiryIndexed itself.                *)
(***************************************************************************)
EXTENDS RegistryLogin, TLAPS

USE LoginAssumption

-----------------------------------------------------------------------------
(* Facts about the types.                                                  *)

(* A time a handler read plus a lifetime is a time.                        *)
LEMMA Lifetimes ==
  ASSUME NEW x \in 0 .. MaxTime
  PROVE  x + LoginTtl \in Time /\ x + SessionTtl \in Time
  BY DEF Time

LEMMA IdleType == Idle \in Request /\ Idle.pc = "idle"
  BY DEF Idle, Request, Pcs

(* A handler that goes on, or ends, changes nothing else.                  *)
LEMMA GotoReq ==
  ASSUME req \in [Requests -> Request], NEW p \in Requests, NEW pc \in Pcs, Goto(p, pc)
  PROVE  /\ req' \in [Requests -> Request]
         /\ req'[p].pc = pc /\ req'[p].time = req[p].time /\ req'[p].email = req[p].email
         /\ req'[p].token = req[p].token /\ req'[p].acct = req[p].acct
         /\ \A q \in Requests \ {p} : req'[q] = req[q]
<1>1. req[p] \in Request
  OBVIOUS
<1>2. req' = [req EXCEPT ![p] = [req[p] EXCEPT !.pc = pc]]
  BY DEF Goto
<1>3. [req[p] EXCEPT !.pc = pc] \in Request
  BY <1>1 DEF Request
<1>4. req'[p] = [req[p] EXCEPT !.pc = pc]
  BY <1>2
<1> QED
  BY <1>1, <1>2, <1>3, <1>4 DEF Request

LEMMA FinishReq ==
  ASSUME req \in [Requests -> Request], NEW p \in Requests, Finish(p)
  PROVE  /\ req' \in [Requests -> Request]
         /\ req'[p].pc = "idle"
         /\ \A q \in Requests \ {p} : req'[q] = req[q]
  BY IdleType DEF Finish

(* Bumped is a bucket, whatever was there before.                          *)
LEMMA BumpedType ==
  ASSUME TypeOK, NEW k \in RateKeys, NEW now \in 0 .. MaxTime
  PROVE  Bumped(k, now) \in Bucket
<1>1. now + LoginTtl \in Time
  BY Lifetimes
<1>2. CASE rates[k] # None /\ rates[k].expires > now
  <2>1. rates[k] \in Bucket
    BY <1>2 DEF TypeOK
  <2> QED
    BY <1>2, <2>1 DEF Bumped, Bucket
<1>3. CASE ~(rates[k] # None /\ rates[k].expires > now)
  BY <1>1, <1>3 DEF Bumped, Bucket
<1> QED
  BY <1>2, <1>3

(* What the other steps of a handler make of its local state.              *)
LEMMA StartRequestReq ==
  ASSUME TypeOK, NEW p \in Requests, NEW e \in Emails, StartRequestLogin(p, e)
  PROVE  /\ req' \in [Requests -> Request]
         /\ req'[p].pc = "source" /\ req'[p].email = e
         /\ \A q \in Requests \ {p} : req'[q] = req[q]
<1>1. [Idle EXCEPT !.pc = "source", !.time = clock, !.email = e] \in Request
  BY DEF TypeOK, Idle, Request, Pcs
<1> QED
  BY <1>1 DEF TypeOK, StartRequestLogin, Idle

LEMMA StartConfirmReq ==
  ASSUME TypeOK, NEW p \in Requests, NEW t \in LoginTokens, StartConfirmLogin(p, t)
  PROVE  /\ req' \in [Requests -> Request]
         /\ req'[p].pc = "confirm" /\ req'[p].token = t
         /\ \A q \in Requests \ {p} : req'[q] = req[q]
<1>1. [Idle EXCEPT !.pc = "confirm", !.time = clock, !.token = t] \in Request
  BY DEF TypeOK, Idle, Request, Pcs
<1> QED
  BY <1>1 DEF TypeOK, StartConfirmLogin, Idle

LEMMA FindReq ==
  ASSUME TypeOK, HandlerInv, NEW p \in Requests, NEW t \in LoginTokens, FindAccount(p, t)
  PROVE  /\ req' \in [Requests -> Request]
         /\ req'[p].pc = "put_token" /\ req'[p].token = t /\ req'[p].email = req[p].email
         /\ req'[p].acct = loginIndex[req[p].email] /\ req[p].email \in Emails
         /\ \A q \in Requests \ {p} : req'[q] = req[q]
<1>1. req[p] \in Request /\ req[p].email \in Emails
  BY DEF TypeOK, HandlerInv, FindAccount, Request
<1> DEFINE r == [req[p] EXCEPT !.pc = "put_token", !.token = t,
                               !.acct = loginIndex[req[p].email]]
<1>2. r \in Request
  BY <1>1 DEF TypeOK, Request, Pcs
<1>3. req' = [req EXCEPT ![p] = r]
  BY DEF FindAccount, TypeOK
<1>4. req'[p] = r
  BY <1>3 DEF TypeOK
<1> QED
  BY <1>1, <1>2, <1>3, <1>4 DEF TypeOK, Request

(* take_login_token ends the handler, or gives it the row of the token.    *)
LEMMA TakeReq ==
  ASSUME TypeOK, HandlerInv, NEW p \in Requests, TakeLoginToken(p)
  PROVE  /\ req' \in [Requests -> Request]
         /\ req[p].token \in LoginTokens
         /\ \/ req'[p].pc = "idle"
            \/ /\ tokens[req[p].token] # None /\ tokens[req[p].token] \in Token
               /\ req'[p].pc \in {"account", "session"}
               /\ req'[p].token = req[p].token
               /\ req'[p].email = tokens[req[p].token].email
               /\ req'[p].acct = tokens[req[p].token].acct
               /\ req'[p].pc = "session" => req'[p].acct # None
         /\ \A q \in Requests \ {p} : req'[q] = req[q]
<1>1. req[p] \in Request /\ req[p].token \in LoginTokens
  BY DEF TypeOK, HandlerInv, TakeLoginToken, Request
<1> DEFINE row == tokens[req[p].token]
<1>2. CASE row = None \/ row.expires <= req[p].time
  <2>1. Finish(p)
    BY <1>2 DEF TakeLoginToken
  <2> QED
    BY <1>1, <2>1, FinishReq DEF TypeOK
<1>3. CASE ~(row = None \/ row.expires <= req[p].time)
  <2>1. row \in Token
    BY <1>1, <1>3 DEF TypeOK
  <2> DEFINE pc == IF row.acct = None THEN "account" ELSE "session"
             r == [req[p] EXCEPT !.pc = pc, !.email = row.email, !.acct = row.acct]
  <2>2. pc \in {"account", "session"} /\ pc \in Pcs
    BY DEF Pcs
  <2>3. row.email \in Emails /\ row.acct \in Accounts \cup {None}
    BY <2>1 DEF Token
  <2>4. req' = [req EXCEPT ![p].pc = pc, ![p].email = row.email, ![p].acct = row.acct]
    BY <1>3 DEF TakeLoginToken
  <2>5. pc = "session" => row.acct # None
    OBVIOUS
  <2> HIDE DEF pc
  <2>6. r \in Request
    BY <1>1, <2>2, <2>3 DEF Request
  <2>7. req' = [req EXCEPT ![p] = r]
    BY <2>4 DEF TypeOK
  <2>8. req'[p] = r
    BY <2>7 DEF TypeOK
  <2> QED
    BY <1>1, <1>3, <2>1, <2>2, <2>3, <2>5, <2>6, <2>7, <2>8 DEF TypeOK, Request
<1> QED
  BY <1>2, <1>3

LEMMA AccountReq ==
  ASSUME TypeOK, HandlerInv, NEW p \in Requests, NEW a \in Accounts, GetOrCreateAccount(p, a)
  PROVE  /\ loginIndex' \in [Emails -> Accounts \cup {None}]
         /\ req' \in [Requests -> Request]
         /\ req[p].email \in Emails
         /\ req'[p].pc = "session" /\ req'[p].token = req[p].token
         /\ req'[p].email = req[p].email
         /\ req'[p].acct = loginIndex'[req[p].email] /\ req'[p].acct # None
         /\ \A e \in Emails : loginIndex[e] # None => loginIndex'[e] = loginIndex[e]
         /\ \A q \in Requests \ {p} : req'[q] = req[q]
<1>1. req[p] \in Request /\ req[p].email \in Emails
  BY DEF TypeOK, HandlerInv, GetOrCreateAccount, Request
<1>2. /\ loginIndex' \in [Emails -> Accounts \cup {None}]
      /\ loginIndex'[req[p].email] \in Accounts
      /\ \A e \in Emails : loginIndex[e] # None => loginIndex'[e] = loginIndex[e]
  BY <1>1 DEF TypeOK, GetOrCreateAccount
<1>3. PICK b \in Accounts : b = loginIndex'[req[p].email]
  BY <1>2
<1> DEFINE r == [req[p] EXCEPT !.pc = "session", !.acct = b]
<1>4. r \in Request
  BY <1>1 DEF Request, Pcs
<1>5. req' = [req EXCEPT ![p].pc = "session", ![p].acct = b]
  BY <1>3 DEF GetOrCreateAccount
<1>6. req' = [req EXCEPT ![p] = r]
  BY <1>5 DEF TypeOK
<1>7. req'[p] = r
  BY <1>6 DEF TypeOK
<1> QED
  BY <1>1, <1>2, <1>3, <1>4, <1>6, <1>7 DEF TypeOK, Request

-----------------------------------------------------------------------------
(* The initial states.                                                     *)

LEMMA InitInv == Init => LoginInv
<1> SUFFICES ASSUME Init PROVE LoginInv
  OBVIOUS
<1>1. TypeOK
  BY IdleType DEF Init, TypeOK
<1>2. HandlerInv
  BY IdleType DEF Init, HandlerInv
<1>3. TokenInv
  BY IdleType DEF Init, TokenInv, Holders
<1>4. OwnerInv /\ NewestInv /\ PurgeInv
  BY IdleType DEF Init, OwnerInv, NewestInv, PurgeInv
<1>5. ExpiryIndexed
  BY DEF Init, ExpiryIndexed, TokensIndexed, SessionsIndexed, RatesIndexed
<1> QED
  BY <1>1, <1>2, <1>3, <1>4, <1>5 DEF LoginInv

-----------------------------------------------------------------------------
(* Handlers keep their types and have at hand what they need.              *)

LEMMA CheckRateLimitType ==
  ASSUME TypeOK, HandlerInv, NEW p \in Requests, NEW k \in RateKeys, NEW next \in Pcs,
         req[p].pc # "idle",
         next \in {"email", "find"} => req[p].email # None,
         next \in {"take"} => req[p].token # None,
         next \in {"email", "find", "take"},
         CheckRateLimit(p, k, next)
  PROVE  TypeOK' /\ HandlerInv'
<1>1. req[p] \in Request /\ req[p].time \in 0 .. MaxTime
  BY DEF TypeOK, Request
<1>2. Bumped(k, req[p].time) \in Bucket
  BY <1>1, BumpedType
<1>3. rates' \in [RateKeys -> Bucket \cup {None}]
  BY <1>2 DEF CheckRateLimit, TypeOK
<1>4. rateExpiry' \subseteq Time \X RateKeys
  BY <1>2 DEF CheckRateLimit, TypeOK, Bucket
<1>5. /\ req' \in [Requests -> Request]
      /\ \/ req'[p].pc = "idle"
         \/ req'[p].pc = next /\ req'[p].email = req[p].email /\ req'[p].token = req[p].token
      /\ \A q \in Requests \ {p} : req'[q] = req[q]
  BY FinishReq, GotoReq DEF CheckRateLimit, TypeOK
<1>7. HandlerInv'
  BY <1>5 DEF HandlerInv
<1>8. TypeOK'
  BY <1>3, <1>4, <1>5 DEF CheckRateLimit, TypeOK, tables, history
<1> QED
  BY <1>7, <1>8

(* A pass of the cleanup removes due rows only.                            *)
LEMMA PurgeRowsDue ==
  ASSUME Purge
  PROVE  /\ \E ts \in SUBSET Due(tokenExpiry), ss \in SUBSET Due(sessionExpiry),
               rs \in SUBSET Due(rateExpiry) : PurgeRows(ts, ss, rs)
         /\ purgeAt' \in {None, purgeAt}
         /\ UNCHANGED <<clock, loginIndex, req, started, mailed, generated, history>>
  BY DEF Purge, PurgePass, Earliest

LEMMA PurgeType ==
  ASSUME TypeOK, Purge
  PROVE  TypeOK'
<1>1. PICK ts \in SUBSET Due(tokenExpiry), ss \in SUBSET Due(sessionExpiry),
           rs \in SUBSET Due(rateExpiry) : PurgeRows(ts, ss, rs)
  BY PurgeRowsDue
<1>2. /\ tokens' \in [LoginTokens -> Token \cup {None}]
      /\ tokenExpiry' \subseteq Time \X LoginTokens
  BY <1>1 DEF TypeOK, PurgeRows
<1>3. /\ sessions' \in [Accounts -> Session \cup {None}]
      /\ sessionIndex' \in [SessionTokens -> Accounts \cup {None}]
      /\ sessionExpiry' \subseteq Time \X Accounts \X SessionTokens
  BY <1>1 DEF TypeOK, PurgeRows
<1>4. /\ rates' \in [RateKeys -> Bucket \cup {None}]
      /\ rateExpiry' \subseteq Time \X RateKeys
  BY <1>1 DEF TypeOK, PurgeRows
<1> QED
  BY <1>2, <1>3, <1>4, PurgeRowsDue DEF TypeOK, history

LEMMA PutLoginTokenType ==
  ASSUME TypeOK, HandlerInv, NEW p \in Requests, PutLoginToken(p)
  PROVE  TypeOK' /\ HandlerInv'
<1>1. /\ req[p].time \in 0 .. MaxTime /\ req[p].acct \in Accounts \cup {None}
      /\ req[p].email \in Emails /\ req[p].token \in LoginTokens
  BY DEF TypeOK, HandlerInv, PutLoginToken, Request
<1>2. req[p].time + LoginTtl \in Time
  BY <1>1, Lifetimes
<1>3. Goto(p, "send") /\ "send" \in Pcs
  BY DEF PutLoginToken, Pcs
<1>4. /\ req' \in [Requests -> Request]
      /\ req'[p].pc = "send" /\ req'[p].token = req[p].token
      /\ \A q \in Requests \ {p} : req'[q] = req[q]
  BY <1>3, GotoReq DEF TypeOK
<1>5. /\ tokens' \in [LoginTokens -> Token \cup {None}]
      /\ tokenExpiry' \subseteq Time \X LoginTokens
  BY <1>1, <1>2 DEF TypeOK, PutLoginToken, Token
<1>6. TypeOK'
  BY <1>4, <1>5 DEF TypeOK, PutLoginToken, buckets, history
<1>7. HandlerInv'
  BY <1>1, <1>4 DEF HandlerInv
<1> QED
  BY <1>6, <1>7

(* replace_session: the rows it writes are well formed.                    *)
LEMMA ReplaceSessionType ==
  ASSUME TypeOK, HandlerInv, NEW p \in Requests, NEW s \in SessionTokens, ReplaceSession(p, s)
  PROVE  /\ TypeOK' /\ HandlerInv'
         /\ req[p].acct \in Accounts /\ req[p].email \in Emails
         /\ req[p].token \in LoginTokens
         /\ req[p].time + SessionTtl \in Time
<1>1. /\ req[p].time \in 0 .. MaxTime /\ req[p].acct \in Accounts
      /\ req[p].email \in Emails /\ req[p].token \in LoginTokens
  BY DEF TypeOK, HandlerInv, ReplaceSession, Request
<1>2. req[p].time + SessionTtl \in Time
  BY <1>1, Lifetimes
<1> DEFINE new == [token |-> s, expires |-> req[p].time + SessionTtl]
<1>3. new \in Session
  BY <1>2 DEF Session
<1>4. /\ req' \in [Requests -> Request]
      /\ req'[p].pc = "idle"
      /\ \A q \in Requests \ {p} : req'[q] = req[q]
  BY FinishReq DEF ReplaceSession, TypeOK
<1>5. sessions' \in [Accounts -> Session \cup {None}]
  BY <1>1, <1>3 DEF TypeOK, ReplaceSession
<1>6. sessionIndex' \in [SessionTokens -> Accounts \cup {None}]
  BY <1>1 DEF TypeOK, ReplaceSession
<1>7. sessionExpiry' \subseteq Time \X Accounts \X SessionTokens
  BY <1>1, <1>2 DEF TypeOK, ReplaceSession, ExpiryReplaced
<1>8. /\ logins' \in [LoginTokens -> Nat]
      /\ owner' \in [SessionTokens -> Emails \cup {None}]
      /\ newest' \in [Accounts -> SessionTokens \cup {None}]
      /\ generated' \subseteq Accounts \cup LoginTokens \cup SessionTokens
  BY <1>1 DEF TypeOK, ReplaceSession
<1>9. TypeOK'
  BY <1>4, <1>5, <1>6, <1>7, <1>8 DEF TypeOK, ReplaceSession, buckets
<1>10. HandlerInv'
  BY <1>4 DEF HandlerInv
<1> QED
  BY <1>1, <1>2, <1>9, <1>10

(* The bucket of the handler's address is there.                           *)
LEMMA EmailKey ==
  ASSUME TypeOK, HandlerInv, NEW p \in Requests, req[p].pc = "email"
  PROVE  <<"email", req[p].email>> \in RateKeys
  BY DEF TypeOK, HandlerInv, Request, RateKeys

LEMMA TypeStep ==
  ASSUME TypeOK, HandlerInv, [Next]_vars
  PROVE  TypeOK' /\ HandlerInv'
<1> USE DEF tables, buckets, history
<1>1. ASSUME NEW p \in Requests, NEW e \in Emails, StartRequestLogin(p, e)
      PROVE  TypeOK' /\ HandlerInv'
  <2>1. started' \in 0 .. MaxRequests
    BY <1>1 DEF TypeOK, StartRequestLogin
  <2>2. TypeOK'
    BY <1>1, <2>1, StartRequestReq DEF TypeOK, StartRequestLogin
  <2>3. HandlerInv'
    BY <1>1, StartRequestReq DEF HandlerInv
  <2> QED
    BY <2>2, <2>3
<1>2. ASSUME NEW p \in Requests, NEW t \in LoginTokens, StartConfirmLogin(p, t)
      PROVE  TypeOK' /\ HandlerInv'
  <2>1. started' \in 0 .. MaxRequests
    BY <1>2 DEF TypeOK, StartConfirmLogin
  <2>2. TypeOK'
    BY <1>2, <2>1, StartConfirmReq DEF TypeOK, StartConfirmLogin
  <2>3. HandlerInv'
    BY <1>2, StartConfirmReq DEF HandlerInv
  <2> QED
    BY <2>2, <2>3
<1>3. ASSUME NEW p \in Requests, LimitSource(p) \/ LimitEmail(p) \/ LimitConfirm(p)
      PROVE  TypeOK' /\ HandlerInv'
  <2>1. CASE LimitSource(p)
    BY <2>1, CheckRateLimitType DEF LimitSource, RateKeys, Pcs, HandlerInv
  <2>2. CASE LimitEmail(p)
    BY <2>2, EmailKey, CheckRateLimitType DEF LimitEmail, Pcs, HandlerInv
  <2>3. CASE LimitConfirm(p)
    BY <2>3, CheckRateLimitType DEF LimitConfirm, RateKeys, Pcs, HandlerInv
  <2> QED
    BY <1>3, <2>1, <2>2, <2>3
<1>4. ASSUME NEW p \in Requests, NEW t \in LoginTokens, FindAccount(p, t)
      PROVE  TypeOK' /\ HandlerInv'
  <2>1. TypeOK'
    BY <1>4, FindReq DEF TypeOK, FindAccount
  <2>2. HandlerInv'
    BY <1>4, FindReq DEF HandlerInv
  <2> QED
    BY <2>1, <2>2
<1>5. ASSUME NEW p \in Requests, SendLoginToken(p)
      PROVE  TypeOK' /\ HandlerInv'
  <2>1. mailed' \subseteq LoginTokens
    BY <1>5 DEF TypeOK, HandlerInv, SendLoginToken, Request
  <2>2. TypeOK'
    BY <1>5, <2>1, FinishReq DEF TypeOK, SendLoginToken
  <2>3. HandlerInv'
    BY <1>5, FinishReq DEF HandlerInv, SendLoginToken, TypeOK
  <2> QED
    BY <2>2, <2>3
<1>6. ASSUME NEW p \in Requests, TakeLoginToken(p)
      PROVE  TypeOK' /\ HandlerInv'
  <2>1. tokens' \in [LoginTokens -> Token \cup {None}] /\ tokenExpiry' \subseteq Time \X LoginTokens
    BY <1>6 DEF TypeOK, TakeLoginToken
  <2>2. TypeOK'
    BY <1>6, <2>1, TakeReq DEF TypeOK, TakeLoginToken
  <2>3. HandlerInv'
    BY <1>6, TakeReq DEF HandlerInv, Token
  <2> QED
    BY <2>2, <2>3
<1>7. ASSUME NEW p \in Requests, NEW a \in Accounts, GetOrCreateAccount(p, a)
      PROVE  TypeOK' /\ HandlerInv'
  <2>1. TypeOK'
    BY <1>7, AccountReq DEF TypeOK, GetOrCreateAccount
  <2>2. req[p].pc = "account" /\ req[p].token # None
    BY <1>7 DEF HandlerInv, GetOrCreateAccount
  <2>3. HandlerInv'
    BY <1>7, <2>2, AccountReq DEF HandlerInv
  <2> QED
    BY <2>1, <2>3
<1>8. ASSUME NEW p \in Requests, Fail(p)
      PROVE  TypeOK' /\ HandlerInv'
  <2>1. TypeOK'
    BY <1>8, FinishReq DEF TypeOK, Fail
  <2>2. HandlerInv'
    BY <1>8, FinishReq DEF HandlerInv, Fail, TypeOK
  <2> QED
    BY <2>1, <2>2
<1>9. CASE StartPurge
  BY <1>9 DEF StartPurge, TypeOK, HandlerInv
<1>10. CASE Purge
  BY <1>10, PurgeType, PurgeRowsDue DEF HandlerInv
<1>11. CASE Crash
  <2>1. TypeOK'
    BY <1>11, IdleType DEF Crash, TypeOK
  <2>2. HandlerInv'
    BY <1>11, IdleType DEF Crash, HandlerInv
  <2> QED
    BY <2>1, <2>2
<1>12. CASE Tick
  BY <1>12 DEF Tick, TypeOK, HandlerInv
<1>13. CASE UNCHANGED vars
  BY <1>13 DEF vars, TypeOK, HandlerInv
<1> QED
  BY <1>1, <1>2, <1>3, <1>4, <1>5, <1>6, <1>7, <1>8, <1>9, <1>10, <1>11, <1>12, <1>13,
     PutLoginTokenType, ReplaceSessionType DEF Next, Step

-----------------------------------------------------------------------------
(* TokenInv: a login token has one place.                                  *)

(* A step that gives no handler a token, adds no row and makes no session. *)
LEMMA TokensShrink ==
  ASSUME TokenInv,
         \A t \in LoginTokens : Holders(t)' \subseteq Holders(t),
         \A t \in LoginTokens : tokens'[t] \in {tokens[t], None},
         logins' = logins, generated \subseteq generated'
  PROVE  TokenInv'
  BY DEF TokenInv

(* A step of handler p after which it holds no token.                      *)
LEMMA HoldersLeave ==
  ASSUME NEW p \in Requests, req'[p].pc \notin {"put_token", "account", "session"},
         \A q \in Requests \ {p} : req'[q] = req[q], NEW t
  PROVE  Holders(t)' = Holders(t) \ {p}
  BY DEF Holders

(* A step of handler p after which it holds the token t.                   *)
LEMMA HoldersEnter ==
  ASSUME NEW p \in Requests, NEW t, req'[p].pc \in {"put_token", "account", "session"},
         req'[p].token = t,
         \A q \in Requests \ {p} : req'[q] = req[q], NEW u
  PROVE  Holders(u)' = IF u = t THEN Holders(u) \cup {p} ELSE Holders(u) \ {p}
  BY DEF Holders

LEMMA CheckRateLimitReq ==
  ASSUME TypeOK, NEW p \in Requests, NEW k \in RateKeys, NEW next \in {"email", "find", "take"},
         CheckRateLimit(p, k, next)
  PROVE  /\ req'[p].pc \notin {"put_token", "account", "session"}
         /\ \A q \in Requests \ {p} : req'[q] = req[q]
         /\ UNCHANGED <<clock, tables, started, purgeAt, mailed, generated, history>>
  BY FinishReq, GotoReq DEF CheckRateLimit, TypeOK, Pcs

(* The steps before a login token is made.                                 *)
LEMMA LimitReq ==
  ASSUME TypeOK, HandlerInv, NEW p \in Requests,
         LimitSource(p) \/ LimitEmail(p) \/ LimitConfirm(p)
  PROVE  /\ req'[p].pc \notin {"put_token", "account", "session"}
         /\ \A q \in Requests \ {p} : req'[q] = req[q]
         /\ UNCHANGED <<clock, tables, started, purgeAt, mailed, generated, history>>
<1>1. CASE LimitSource(p)
  BY <1>1, CheckRateLimitReq DEF LimitSource, RateKeys
<1>2. CASE LimitEmail(p)
  BY <1>2, EmailKey, CheckRateLimitReq DEF LimitEmail
<1>3. CASE LimitConfirm(p)
  BY <1>3, CheckRateLimitReq DEF LimitConfirm, RateKeys
<1> QED
  BY <1>1, <1>2, <1>3

LEMMA TokenStep ==
  ASSUME TypeOK, HandlerInv, TokenInv, [Next]_vars
  PROVE  TokenInv'
<1> USE DEF tables, history
<1>1. ASSUME NEW p \in Requests, req'[p].pc \notin {"put_token", "account", "session"},
             \A q \in Requests \ {p} : req'[q] = req[q],
             tokens' = tokens, logins' = logins, generated' = generated
      PROVE  TokenInv'
  <2>1. \A t \in LoginTokens : Holders(t)' \subseteq Holders(t)
    BY <1>1, HoldersLeave
  <2> QED
    BY <1>1, <2>1, TokensShrink
<1>2. ASSUME NEW p \in Requests, NEW e \in Emails, StartRequestLogin(p, e)
      PROVE  TokenInv'
  BY <1>1, <1>2, StartRequestReq DEF StartRequestLogin
<1>3. ASSUME NEW p \in Requests, NEW t \in LoginTokens, StartConfirmLogin(p, t)
      PROVE  TokenInv'
  BY <1>1, <1>3, StartConfirmReq DEF StartConfirmLogin
<1>4. ASSUME NEW p \in Requests, LimitSource(p) \/ LimitEmail(p) \/ LimitConfirm(p)
      PROVE  TokenInv'
  BY <1>1, <1>4, LimitReq
<1>5. ASSUME NEW p \in Requests, SendLoginToken(p) \/ Fail(p)
      PROVE  TokenInv'
  <2>1. Finish(p) /\ UNCHANGED <<tokens, logins, generated>>
    BY <1>5 DEF SendLoginToken, Fail
  <2> QED
    BY <1>1, <2>1, FinishReq DEF TypeOK
<1>6. ASSUME NEW p \in Requests, NEW t \in LoginTokens, FindAccount(p, t)
      PROVE  TokenInv'
  <2>1. /\ t \notin generated /\ generated' = generated \cup {t}
        /\ tokens' = tokens /\ logins' = logins
    BY <1>6 DEF FindAccount
  <2>2. \A u \in LoginTokens :
           Holders(u)' = IF u = t THEN Holders(u) \cup {p} ELSE Holders(u) \ {p}
    BY <1>6, FindReq, HoldersEnter
  <2> QED
    BY <2>1, <2>2 DEF TokenInv
<1>7. ASSUME NEW p \in Requests, PutLoginToken(p)
      PROVE  TokenInv'
  <2>1. req[p].token \in LoginTokens /\ p \in Holders(req[p].token)
    BY <1>7 DEF TypeOK, HandlerInv, PutLoginToken, Request, Holders
  <2>2. Goto(p, "send") /\ "send" \in Pcs
    BY <1>7 DEF PutLoginToken, Pcs
  <2>3. \A u \in LoginTokens : Holders(u)' = Holders(u) \ {p}
    BY <2>2, GotoReq, HoldersLeave DEF TypeOK
  <2>4. /\ \A u \in LoginTokens \ {req[p].token} : tokens'[u] = tokens[u]
        /\ logins' = logins /\ generated' = generated
    BY <1>7, <2>1 DEF PutLoginToken, TypeOK
  <2> QED
    BY <2>1, <2>3, <2>4 DEF TokenInv
<1>8. ASSUME NEW p \in Requests, TakeLoginToken(p)
      PROVE  TokenInv'
  <2>1. /\ req[p].token \in LoginTokens
        /\ tokens'[req[p].token] = None
        /\ \A u \in LoginTokens \ {req[p].token} : tokens'[u] = tokens[u]
        /\ logins' = logins /\ generated' = generated
    BY <1>8, TakeReq DEF TakeLoginToken, TypeOK
  <2>2. CASE req'[p].pc = "idle"
    <3>1. \A u \in LoginTokens : Holders(u)' \subseteq Holders(u)
      BY <1>8, <2>2, TakeReq, HoldersLeave
    <3> QED
      BY <2>1, <3>1, TokensShrink
  <2>3. CASE req'[p].pc # "idle"
    <3>1. tokens[req[p].token] # None
      BY <1>8, <2>3, TakeReq
    <3>2. \A u \in LoginTokens : Holders(u)' = IF u = req[p].token THEN Holders(u) \cup {p}
                                                                 ELSE Holders(u) \ {p}
      BY <1>8, <2>3, TakeReq, HoldersEnter
    <3> QED
      BY <2>1, <3>1, <3>2 DEF TokenInv
  <2> QED
    BY <2>2, <2>3
<1>9. ASSUME NEW p \in Requests, NEW a \in Accounts, GetOrCreateAccount(p, a)
      PROVE  TokenInv'
  <2>1. /\ req[p].pc = "account" /\ tokens' = tokens /\ logins' = logins
        /\ generated \subseteq generated'
    BY <1>9 DEF GetOrCreateAccount
  <2>2. \A u \in LoginTokens : Holders(u)' \subseteq Holders(u)
    BY <1>9, <2>1, AccountReq DEF Holders
  <2> QED
    BY <2>1, <2>2, TokensShrink
<1>10. ASSUME NEW p \in Requests, NEW s \in SessionTokens, ReplaceSession(p, s)
       PROVE  TokenInv'
  <2>1. req[p].token \in LoginTokens /\ p \in Holders(req[p].token)
    BY <1>10, ReplaceSessionType DEF ReplaceSession, Holders
  <2>2. \A u \in LoginTokens : Holders(u)' = Holders(u) \ {p}
    BY <1>10, FinishReq, HoldersLeave DEF ReplaceSession, TypeOK
  <2>3. /\ tokens' = tokens /\ generated \subseteq generated'
        /\ logins'[req[p].token] = logins[req[p].token] + 1
        /\ \A u \in LoginTokens \ {req[p].token} : logins'[u] = logins[u]
    BY <1>10, <2>1 DEF ReplaceSession, TypeOK
  <2> QED
    BY <2>1, <2>2, <2>3 DEF TokenInv
<1>11. CASE Purge
  <2>1. req' = req /\ logins' = logins /\ generated' = generated
    BY <1>11, PurgeRowsDue
  <2>2. \A t \in LoginTokens : tokens'[t] \in {tokens[t], None}
    BY <1>11, PurgeRowsDue DEF PurgeRows
  <2>3. \A t \in LoginTokens : Holders(t)' \subseteq Holders(t)
    BY <2>1 DEF Holders
  <2> QED
    BY <2>1, <2>2, <2>3, TokensShrink
<1>12. CASE Crash
  <2>1. \A t \in LoginTokens : Holders(t)' \subseteq Holders(t)
    BY <1>12, IdleType DEF Crash, Holders
  <2> QED
    BY <1>12, <2>1, TokensShrink DEF Crash
<1>13. CASE StartPurge \/ Tick \/ UNCHANGED vars
  <2>1. UNCHANGED <<req, tokens, logins, generated>>
    BY <1>13 DEF StartPurge, Tick, vars
  <2> QED
    BY <2>1 DEF TokenInv, Holders
<1> QED
  BY <1>2, <1>3, <1>4, <1>5, <1>6, <1>7, <1>8, <1>9, <1>10, <1>11, <1>12, <1>13
     DEF Next, Step

-----------------------------------------------------------------------------
(* OwnerInv: accounts come from the index of the mail address.             *)

(* A step that changes neither the index nor what names an account, except *)
(* that rows, handlers and sessions may go.                                *)
LEMMA OwnersShrink ==
  ASSUME OwnerInv, loginIndex' = loginIndex, owner' = owner,
         \A t \in LoginTokens : tokens'[t] \in {tokens[t], None},
         \A s \in SessionTokens : sessionIndex'[s] \in {sessionIndex[s], None},
         \A p \in Requests : req'[p] = req[p] \/ req'[p].pc \notin {"put_token", "session"}
  PROVE  OwnerInv'
  BY DEF OwnerInv

LEMMA OwnerStep ==
  ASSUME TypeOK, HandlerInv, OwnerInv, [Next]_vars
  PROVE  OwnerInv'
<1> USE DEF tables, history
<1>1. ASSUME NEW p \in Requests, NEW e \in Emails, StartRequestLogin(p, e)
      PROVE  OwnerInv'
  BY <1>1, StartRequestReq, OwnersShrink DEF StartRequestLogin
<1>2. ASSUME NEW p \in Requests, NEW t \in LoginTokens, StartConfirmLogin(p, t)
      PROVE  OwnerInv'
  BY <1>2, StartConfirmReq, OwnersShrink DEF StartConfirmLogin
<1>3. ASSUME NEW p \in Requests, LimitSource(p) \/ LimitEmail(p) \/ LimitConfirm(p)
      PROVE  OwnerInv'
  BY <1>3, LimitReq, OwnersShrink
<1>4. ASSUME NEW p \in Requests, SendLoginToken(p) \/ Fail(p)
      PROVE  OwnerInv'
  <2>1. Finish(p) /\ UNCHANGED <<tables, owner>>
    BY <1>4 DEF SendLoginToken, Fail
  <2> QED
    BY <2>1, FinishReq, OwnersShrink DEF TypeOK
<1>5. ASSUME NEW p \in Requests, NEW t \in LoginTokens, FindAccount(p, t)
      PROVE  OwnerInv'
  <2>1. UNCHANGED <<loginIndex, tokens, sessionIndex, owner>>
    BY <1>5 DEF FindAccount
  <2> QED
    BY <1>5, <2>1, FindReq DEF OwnerInv
<1>6. ASSUME NEW p \in Requests, PutLoginToken(p)
      PROVE  OwnerInv'
  <2>1. /\ req[p].pc = "put_token" /\ req[p].token \in LoginTokens
        /\ UNCHANGED <<loginIndex, sessionIndex, owner>>
    BY <1>6 DEF TypeOK, HandlerInv, PutLoginToken, Request
  <2>2. Goto(p, "send") /\ "send" \in Pcs
    BY <1>6 DEF PutLoginToken, Pcs
  <2>3. req'[p].pc = "send" /\ \A q \in Requests \ {p} : req'[q] = req[q]
    BY <2>2, GotoReq DEF TypeOK
  <2>4. /\ tokens'[req[p].token].email = req[p].email
        /\ tokens'[req[p].token].acct = req[p].acct
        /\ \A u \in LoginTokens \ {req[p].token} : tokens'[u] = tokens[u]
    BY <1>6, <2>1 DEF PutLoginToken, TypeOK
  <2> QED
    BY <2>1, <2>3, <2>4 DEF OwnerInv
<1>7. ASSUME NEW p \in Requests, TakeLoginToken(p)
      PROVE  OwnerInv'
  <2>1. /\ UNCHANGED <<loginIndex, sessionIndex, owner>>
        /\ \A u \in LoginTokens : tokens'[u] \in {tokens[u], None}
    BY <1>7, TakeReq DEF TakeLoginToken, TypeOK
  <2> QED
    BY <1>7, <2>1, TakeReq DEF OwnerInv
<1>8. ASSUME NEW p \in Requests, NEW a \in Accounts, GetOrCreateAccount(p, a)
      PROVE  OwnerInv'
  <2>1. UNCHANGED <<tokens, sessionIndex, owner>>
    BY <1>8 DEF GetOrCreateAccount
  <2>2. \A e \in Emails, b \in Accounts : loginIndex[e] = b => loginIndex'[e] = b
    BY <1>8, AccountReq
  <2>3. ASSUME NEW t \in LoginTokens, tokens'[t] # None, tokens'[t].acct # None
        PROVE  loginIndex'[tokens'[t].email] = tokens'[t].acct
    <3>1. tokens[t] \in Token
      BY <2>1, <2>3 DEF TypeOK
    <3> QED
      BY <2>1, <2>2, <2>3, <3>1 DEF OwnerInv, Token
  <2>4. ASSUME NEW q \in Requests, req'[q].pc \in {"put_token", "session"}, req'[q].acct # None
        PROVE  loginIndex'[req'[q].email] = req'[q].acct
    <3>1. CASE q = p
      BY <1>8, <3>1, AccountReq
    <3>2. CASE q # p
      <4>1. req'[q] = req[q] /\ req[q] \in Request
        BY <1>8, <3>2, AccountReq DEF TypeOK
      <4>2. req[q].email \in Emails /\ req[q].acct \in Accounts
        BY <2>4, <4>1 DEF HandlerInv, Request
      <4> QED
        BY <2>2, <2>4, <4>1, <4>2 DEF OwnerInv
    <3> QED
      BY <3>1, <3>2
  <2>5. ASSUME NEW s \in SessionTokens, sessionIndex'[s] # None
        PROVE  owner'[s] # None /\ loginIndex'[owner'[s]] = sessionIndex'[s]
    <3>1. owner[s] \in Emails /\ sessionIndex[s] \in Accounts
      BY <2>1, <2>5 DEF OwnerInv, TypeOK
    <3> QED
      BY <2>1, <2>2, <2>5, <3>1 DEF OwnerInv
  <2> QED
    BY <2>3, <2>4, <2>5 DEF OwnerInv
<1>9. ASSUME NEW p \in Requests, NEW s \in SessionTokens, ReplaceSession(p, s)
      PROVE  OwnerInv'
  <2>1. UNCHANGED <<loginIndex, tokens>> /\ req[p].pc = "session"
    BY <1>9 DEF ReplaceSession
  <2>2. req'[p].pc = "idle" /\ \A q \in Requests \ {p} : req'[q] = req[q]
    BY <1>9, FinishReq DEF ReplaceSession, TypeOK
  <2>3. req[p].acct \in Accounts /\ req[p].email \in Emails
    BY <1>9, ReplaceSessionType
  <2>4. owner'[s] = req[p].email /\ sessionIndex'[s] = req[p].acct
    BY <1>9 DEF ReplaceSession, TypeOK
  <2>5. /\ owner'[s] = req[p].email /\ sessionIndex'[s] = req[p].acct
        /\ loginIndex[req[p].email] = req[p].acct /\ req[p].email # None
    BY <2>1, <2>3, <2>4 DEF OwnerInv
  <2>6. \A u \in SessionTokens \ {s} :
           owner'[u] = owner[u] /\ sessionIndex'[u] \in {sessionIndex[u], None}
    BY <1>9 DEF ReplaceSession, TypeOK
  <2> QED
    BY <2>1, <2>2, <2>5, <2>6 DEF OwnerInv
<1>10. CASE Purge
  <2>1. UNCHANGED <<loginIndex, owner, req>>
    BY <1>10, PurgeRowsDue
  <2>2. /\ \A t \in LoginTokens : tokens'[t] \in {tokens[t], None}
        /\ \A s \in SessionTokens : sessionIndex'[s] \in {sessionIndex[s], None}
    BY <1>10, PurgeRowsDue DEF PurgeRows
  <2> QED
    BY <2>1, <2>2, OwnersShrink
<1>11. CASE Crash
  BY <1>11, IdleType, OwnersShrink DEF Crash
<1>12. CASE StartPurge \/ Tick \/ UNCHANGED vars
  <2>1. UNCHANGED <<req, tokens, loginIndex, sessionIndex, owner>>
    BY <1>12 DEF StartPurge, Tick, vars
  <2> QED
    BY <2>1 DEF OwnerInv
<1> QED
  BY <1>1, <1>2, <1>3, <1>4, <1>5, <1>6, <1>7, <1>8, <1>9, <1>10, <1>11, <1>12
     DEF Next, Step

-----------------------------------------------------------------------------
(* NewestInv, PurgeInv and the expiry indexes.                             *)

LEMMA NewestStep ==
  ASSUME TypeOK, HandlerInv, NewestInv, [Next]_vars
  PROVE  NewestInv'
<1> USE DEF tables, history
<1>1. ASSUME NEW p \in Requests, NEW s \in SessionTokens, ReplaceSession(p, s)
      PROVE  NewestInv'
  <2>1. req[p].acct \in Accounts
    BY <1>1, ReplaceSessionType
  <2>2. /\ newest'[req[p].acct] = s /\ sessions'[req[p].acct].token = s
        /\ \A a \in Accounts \ {req[p].acct} :
              newest'[a] = newest[a] /\ sessions'[a] = sessions[a]
    BY <1>1, <2>1 DEF ReplaceSession, TypeOK
  <2> QED
    BY <2>2 DEF NewestInv
<1>2. CASE Purge
  <2>1. newest' = newest /\ \A a \in Accounts : sessions'[a] \in {sessions[a], None}
    BY <1>2, PurgeRowsDue DEF PurgeRows
  <2> QED
    BY <2>1 DEF NewestInv
<1>3. ASSUME NEW p \in Requests, LimitSource(p) \/ LimitEmail(p) \/ LimitConfirm(p)
      PROVE  NewestInv'
  BY <1>3, LimitReq DEF NewestInv
<1>4. CASE UNCHANGED <<sessions, newest>>
  BY <1>4 DEF NewestInv
<1> QED
  BY <1>1, <1>2, <1>3, <1>4
     DEF Next, Step, vars, StartRequestLogin, StartConfirmLogin, FindAccount, PutLoginToken,
         SendLoginToken, TakeLoginToken, GetOrCreateAccount, Fail, StartPurge, Crash, Tick

LEMMA PurgeStep ==
  ASSUME TypeOK, HandlerInv, PurgeInv, [Next]_vars
  PROVE  PurgeInv'
<1> USE DEF tables, history
<1>1. CASE Purge
  BY <1>1, PurgeRowsDue DEF PurgeInv
<1>2. CASE Tick
  <2>1. clock' = clock + 1 /\ purgeAt' = purgeAt
    BY <1>2 DEF Tick
  <2>2. clock \in Nat /\ (purgeAt # None => purgeAt \in Nat)
    BY DEF TypeOK
  <2> QED
    BY <2>1, <2>2 DEF PurgeInv
<1>3. CASE StartPurge \/ Crash
  BY <1>3 DEF StartPurge, Crash, PurgeInv, TypeOK
<1>4. ASSUME NEW p \in Requests, LimitSource(p) \/ LimitEmail(p) \/ LimitConfirm(p)
      PROVE  PurgeInv'
  BY <1>4, LimitReq DEF PurgeInv
<1>5. CASE UNCHANGED <<clock, purgeAt>>
  BY <1>5 DEF PurgeInv
<1> QED
  BY <1>1, <1>2, <1>3, <1>4, <1>5
     DEF Next, Step, vars, StartRequestLogin, StartConfirmLogin, FindAccount, PutLoginToken,
         SendLoginToken, TakeLoginToken, GetOrCreateAccount, ReplaceSession, Fail

(* put_login_token and take_login_token keep the index of the tokens.      *)
LEMMA TokensIndexedStep ==
  ASSUME TypeOK, HandlerInv, TokenInv, TokensIndexed, [Next]_vars
  PROVE  TokensIndexed'
<1> USE DEF tables, history
<1>1. ASSUME NEW p \in Requests, PutLoginToken(p)
      PROVE  TokensIndexed'
  <2> DEFINE u == req[p].token
             e == req[p].time + LoginTtl
             row == [email |-> req[p].email, acct |-> req[p].acct, expires |-> e]
  <2>1. u \in LoginTokens /\ p \in Holders(u) /\ e \in Time
    BY <1>1, Lifetimes DEF TypeOK, HandlerInv, PutLoginToken, Request, Holders
  <2>2. tokens[u] = None
    BY <2>1 DEF TokenInv
  <2>3. tokenExpiry' = tokenExpiry \cup {<<e, u>>}
    BY <1>1 DEF PutLoginToken
  <2>4. tokens' = [tokens EXCEPT ![u] = row]
    BY <1>1 DEF PutLoginToken
  <2>5. row \in Token
    BY <1>1, <2>1 DEF TypeOK, HandlerInv, PutLoginToken, Request, Token
  <2>6. row # None
    BY <2>5, NoneAssumption
  <2>7. /\ tokens'[u] # None /\ tokens'[u].expires = e
        /\ \A t \in LoginTokens \ {u} : tokens'[t] = tokens[t]
    BY <2>1, <2>4, <2>6 DEF TypeOK
  <2> HIDE DEF u, e, row
  <2>8. ASSUME NEW x \in Time, NEW t \in LoginTokens
        PROVE  <<x, t>> \in tokenExpiry' <=> tokens'[t] # None /\ tokens'[t].expires = x
    <3>1. CASE t = u
      BY <2>2, <2>3, <2>7, <3>1 DEF TokensIndexed
    <3>2. CASE t # u
      BY <2>3, <2>7, <3>2 DEF TokensIndexed
    <3> QED
      BY <3>1, <3>2
  <2> QED
    BY <2>8 DEF TokensIndexed
<1>2. ASSUME NEW p \in Requests, TakeLoginToken(p)
      PROVE  TokensIndexed'
  <2> DEFINE u == req[p].token
  <2>1. u \in LoginTokens
    BY <1>2, TakeReq
  <2>2. tokens'[u] = None /\ \A t \in LoginTokens \ {u} : tokens'[t] = tokens[t]
    BY <1>2, <2>1 DEF TakeLoginToken, TypeOK
  <2>3. tokenExpiry' = IF tokens[u] = None THEN tokenExpiry
                       ELSE tokenExpiry \ {<<tokens[u].expires, u>>}
    BY <1>2 DEF TakeLoginToken
  <2> HIDE DEF u
  <2>4. ASSUME NEW x \in Time, NEW t \in LoginTokens
        PROVE  <<x, t>> \in tokenExpiry' <=> tokens'[t] # None /\ tokens'[t].expires = x
    <3>1. CASE t = u
      BY <2>2, <2>3, <3>1 DEF TokensIndexed
    <3>2. CASE t # u
      BY <2>2, <2>3, <3>2 DEF TokensIndexed
    <3> QED
      BY <3>1, <3>2
  <2> QED
    BY <2>4 DEF TokensIndexed
<1>3. CASE Purge
  <2>1. PICK ts \in SUBSET Due(tokenExpiry), ss \in SUBSET Due(sessionExpiry),
             rs \in SUBSET Due(rateExpiry) : PurgeRows(ts, ss, rs)
    BY <1>3, PurgeRowsDue
  <2>2. ts \subseteq tokenExpiry /\ tokenExpiry' = tokenExpiry \ ts
    BY <2>1 DEF Due, PurgeRows
  <2>3. \A t \in LoginTokens :
           tokens'[t] = IF \E x \in ts : x[2] = t THEN None ELSE tokens[t]
    BY <2>1 DEF PurgeRows
  <2>4. ASSUME NEW x \in Time, NEW t \in LoginTokens
        PROVE  <<x, t>> \in tokenExpiry' <=> tokens'[t] # None /\ tokens'[t].expires = x
    <3>1. CASE \E y \in ts : y[2] = t
      <4>1. PICK y \in ts : y[2] = t
        BY <3>1
      <4>2. y[1] \in Time /\ y = <<y[1], t>> /\ y \in tokenExpiry
        BY <2>2, <4>1 DEF TypeOK
      <4>3. tokens[t] # None /\ tokens[t].expires = y[1]
        BY <4>2 DEF TokensIndexed
      <4>4. <<x, t>> \notin tokenExpiry'
        BY <2>2, <4>2, <4>3 DEF TokensIndexed
      <4> QED
        BY <2>3, <3>1, <4>4
    <3>2. CASE ~ \E y \in ts : y[2] = t
      BY <2>2, <2>3, <3>2 DEF TokensIndexed
    <3> QED
      BY <3>1, <3>2
  <2> QED
    BY <2>4 DEF TokensIndexed
<1>4. ASSUME NEW p \in Requests, LimitSource(p) \/ LimitEmail(p) \/ LimitConfirm(p)
      PROVE  TokensIndexed'
  BY <1>4, LimitReq DEF TokensIndexed
<1>5. CASE UNCHANGED <<tokens, tokenExpiry>>
  BY <1>5 DEF TokensIndexed
<1> QED
  BY <1>1, <1>2, <1>3, <1>4, <1>5
     DEF Next, Step, vars, StartRequestLogin, StartConfirmLogin, FindAccount, SendLoginToken,
         GetOrCreateAccount, ReplaceSession, Fail, StartPurge, Crash, Tick

(* replace_session keeps the index of the sessions, also when the old and  *)
(* the new session expire in the same second.                              *)
LEMMA SessionsIndexedStep ==
  ASSUME TypeOK, HandlerInv, SessionsIndexed, [Next]_vars
  PROVE  SessionsIndexed'
<1> USE DEF tables, history
<1>1. ASSUME NEW p \in Requests, NEW s \in SessionTokens, ReplaceSession(p, s)
      PROVE  SessionsIndexed'
  <2> DEFINE b == req[p].acct
             e == req[p].time + SessionTtl
             new == [token |-> s, expires |-> e]
  <2>1. b \in Accounts /\ e \in Time
    BY <1>1, ReplaceSessionType
  <2>2. new \in Session /\ new # None
    BY <2>1, NoneAssumption DEF Session
  <2>3. /\ sessions'[b] # None /\ sessions'[b].token = s /\ sessions'[b].expires = e
        /\ \A a \in Accounts \ {b} : sessions'[a] = sessions[a]
    BY <1>1, <2>1, <2>2 DEF ReplaceSession, TypeOK
  <2>4. sessionExpiry' = ExpiryReplaced(b, sessions[b], new)
    BY <1>1 DEF ReplaceSession
  <2>5. ASSUME NEW x \in Time, NEW a \in Accounts, NEW u \in SessionTokens
        PROVE  <<x, a, u>> \in sessionExpiry' <=>
                 \/ <<x, a, u>> = <<e, b, s>>
                 \/ /\ <<x, a, u>> \in sessionExpiry /\ <<x, a>> # <<e, b>>
                    /\ sessions[b] # None => <<x, a>> # <<sessions[b].expires, b>>
    BY <2>4 DEF ExpiryReplaced
  <2> HIDE DEF b, e, new
  <2>6. ASSUME NEW x \in Time, NEW a \in Accounts, NEW u \in SessionTokens
        PROVE  <<x, a, u>> \in sessionExpiry' <=>
                 sessions'[a] # None /\ sessions'[a].token = u /\ sessions'[a].expires = x
    <3>1. CASE a = b
      <4>1. <<x, a, u>> \in sessionExpiry =>
               sessions[b] # None /\ sessions[b].expires = x
        BY <3>1 DEF SessionsIndexed
      <4> QED
        BY <2>3, <2>5, <3>1, <4>1
    <3>2. CASE a # b
      BY <2>3, <2>5, <3>2 DEF SessionsIndexed
    <3> QED
      BY <3>1, <3>2
  <2> QED
    BY <2>6 DEF SessionsIndexed
<1>2. CASE Purge
  <2>1. PICK ts \in SUBSET Due(tokenExpiry), ss \in SUBSET Due(sessionExpiry),
             rs \in SUBSET Due(rateExpiry) : PurgeRows(ts, ss, rs)
    BY <1>2, PurgeRowsDue
  <2> DEFINE gone == {x \in ss : sessions[x[2]] = [token |-> x[3], expires |-> x[1]]}
  <2>2. ss \subseteq sessionExpiry /\ sessionExpiry' = sessionExpiry \ ss
    BY <2>1 DEF Due, PurgeRows
  <2>3. \A a \in Accounts :
           sessions'[a] = IF \E x \in gone : x[2] = a THEN None ELSE sessions[a]
    BY <2>1 DEF PurgeRows
  <2>4. ASSUME NEW x \in Time, NEW a \in Accounts, NEW u \in SessionTokens
        PROVE  <<x, a, u>> \in sessionExpiry' <=>
                 sessions'[a] # None /\ sessions'[a].token = u /\ sessions'[a].expires = x
    <3>1. CASE \E y \in ss : y[2] = a
      <4>1. PICK y \in ss : y[2] = a
        BY <3>1
      <4>2. y[1] \in Time /\ y[3] \in SessionTokens /\ y = <<y[1], a, y[3]>> /\ y \in sessionExpiry
        BY <2>2, <4>1 DEF TypeOK
      <4>3. sessions[a] # None /\ sessions[a].token = y[3] /\ sessions[a].expires = y[1]
        BY <4>2 DEF SessionsIndexed
      <4>4. sessions[a] = [token |-> y[3], expires |-> y[1]]
        BY <4>3 DEF TypeOK, Session
      <4>5. sessions'[a] = None
        BY <2>3, <4>1, <4>4
      <4>6. <<x, a, u>> \notin sessionExpiry'
        BY <2>2, <4>2, <4>3 DEF SessionsIndexed
      <4> QED
        BY <4>5, <4>6
    <3>2. CASE ~ \E y \in ss : y[2] = a
      <4>1. sessions'[a] = sessions[a]
        BY <2>3, <3>2
      <4>2. <<x, a, u>> \notin ss
        BY <3>2
      <4> QED
        BY <2>2, <4>1, <4>2 DEF SessionsIndexed
    <3> QED
      BY <3>1, <3>2
  <2> QED
    BY <2>4 DEF SessionsIndexed
<1>3. CASE UNCHANGED <<sessions, sessionExpiry>>
  <2>1. sessions' = sessions /\ sessionExpiry' = sessionExpiry
    BY <1>3
  <2>2. ASSUME NEW x \in Time, NEW a \in Accounts, NEW u \in SessionTokens
        PROVE  <<x, a, u>> \in sessionExpiry <=>
                 sessions[a] # None /\ sessions[a].token = u /\ sessions[a].expires = x
    BY DEF SessionsIndexed
  <2>3. ASSUME NEW x \in Time, NEW a \in Accounts, NEW u \in SessionTokens
        PROVE  <<x, a, u>> \in sessionExpiry' <=>
                 sessions'[a] # None /\ sessions'[a].token = u /\ sessions'[a].expires = x
    BY <2>1, <2>2
  <2> QED
    BY <2>3 DEF SessionsIndexed
<1>4. ASSUME NEW p \in Requests, LimitSource(p) \/ LimitEmail(p) \/ LimitConfirm(p)
      PROVE  UNCHANGED <<sessions, sessionExpiry>>
  BY <1>4, LimitReq
<1> QED
  BY <1>1, <1>2, <1>3, <1>4
     DEF Next, Step, vars, StartRequestLogin, StartConfirmLogin, FindAccount, PutLoginToken,
         SendLoginToken, TakeLoginToken, GetOrCreateAccount, Fail, StartPurge, Crash, Tick

(* bump_rate_limit keeps the index of the buckets.                         *)
LEMMA RatesBumped ==
  ASSUME TypeOK, RatesIndexed, NEW p \in Requests, NEW k \in RateKeys, NEW next,
         CheckRateLimit(p, k, next)
  PROVE  RatesIndexed'
<1> DEFINE bucket == Bumped(k, req[p].time)
<1>1. bucket \in Bucket
  BY BumpedType DEF TypeOK, Request
<1>2. bucket # None
  BY <1>1, NoneAssumption
<1>3. rates'[k] = bucket /\ \A j \in RateKeys \ {k} : rates'[j] = rates[j]
  BY DEF CheckRateLimit, TypeOK
<1>4. rateExpiry' = (rateExpiry \ (IF rates[k] = None THEN {} ELSE {<<rates[k].expires, k>>}))
                       \cup {<<bucket.expires, k>>}
  BY DEF CheckRateLimit
<1> HIDE DEF bucket
<1>5. ASSUME NEW x \in Time, NEW j \in RateKeys
      PROVE  <<x, j>> \in rateExpiry' <=> rates'[j] # None /\ rates'[j].expires = x
  <2>1. CASE j = k
    <3>1. <<x, k>> \in rateExpiry => rates[k] # None /\ rates[k].expires = x
      BY DEF RatesIndexed
    <3> QED
      BY <1>2, <1>3, <1>4, <2>1, <3>1
  <2>2. CASE j # k
    BY <1>3, <1>4, <2>2 DEF RatesIndexed
  <2> QED
    BY <2>1, <2>2
<1> QED
  BY <1>5 DEF RatesIndexed

LEMMA RatesIndexedStep ==
  ASSUME TypeOK, HandlerInv, RatesIndexed, [Next]_vars
  PROVE  RatesIndexed'
<1> USE DEF buckets
<1>1. ASSUME NEW p \in Requests, LimitSource(p) \/ LimitEmail(p) \/ LimitConfirm(p)
      PROVE  RatesIndexed'
  <2>1. CASE LimitSource(p)
    BY <2>1, RatesBumped DEF LimitSource, RateKeys
  <2>2. CASE LimitEmail(p)
    BY <2>2, EmailKey, RatesBumped DEF LimitEmail
  <2>3. CASE LimitConfirm(p)
    BY <2>3, RatesBumped DEF LimitConfirm, RateKeys
  <2> QED
    BY <1>1, <2>1, <2>2, <2>3
<1>2. CASE Purge
  <2>1. PICK ts \in SUBSET Due(tokenExpiry), ss \in SUBSET Due(sessionExpiry),
             rs \in SUBSET Due(rateExpiry) : PurgeRows(ts, ss, rs)
    BY <1>2, PurgeRowsDue
  <2>2. rs \subseteq rateExpiry /\ rateExpiry' = rateExpiry \ rs
    BY <2>1 DEF Due, PurgeRows
  <2>3. \A k \in RateKeys : rates'[k] =
           IF rates[k] # None /\ <<rates[k].expires, k>> \in rs THEN None ELSE rates[k]
    BY <2>1 DEF PurgeRows
  <2>4. ASSUME NEW x \in Time, NEW k \in RateKeys
        PROVE  <<x, k>> \in rateExpiry' <=> rates'[k] # None /\ rates'[k].expires = x
    <3>1. CASE <<x, k>> \in rs
      <4>1. rates[k] # None /\ rates[k].expires = x
        BY <2>2, <3>1 DEF RatesIndexed
      <4> QED
        BY <2>2, <2>3, <3>1, <4>1
    <3>2. CASE <<x, k>> \notin rs
      <4>1. rates'[k] \in {None, rates[k]}
        BY <2>3
      <4>2. rates[k] # None /\ rates[k].expires = x => rates'[k] = rates[k]
        BY <2>3, <3>2
      <4> QED
        BY <2>2, <3>2, <4>1, <4>2 DEF RatesIndexed
    <3> QED
      BY <3>1, <3>2
  <2> QED
    BY <2>4 DEF RatesIndexed
<1>3. CASE UNCHANGED buckets
  BY <1>3 DEF RatesIndexed
<1> QED
  BY <1>1, <1>2, <1>3
     DEF Next, Step, vars, StartRequestLogin, StartConfirmLogin, FindAccount, PutLoginToken,
         SendLoginToken, TakeLoginToken, GetOrCreateAccount, ReplaceSession, Fail, StartPurge,
         Crash, Tick

-----------------------------------------------------------------------------
(* The theorems.                                                           *)

LEMMA InvStep == LoginInv /\ [Next]_vars => LoginInv'
<1> SUFFICES ASSUME LoginInv, [Next]_vars PROVE LoginInv'
  OBVIOUS
<1>1. /\ TypeOK /\ HandlerInv /\ TokenInv /\ OwnerInv /\ NewestInv /\ PurgeInv
      /\ TokensIndexed /\ SessionsIndexed /\ RatesIndexed
  BY DEF LoginInv, ExpiryIndexed
<1>2. TypeOK' /\ HandlerInv'
  BY <1>1, TypeStep
<1>3. TokenInv' /\ OwnerInv' /\ NewestInv' /\ PurgeInv'
  BY <1>1, TokenStep, OwnerStep, NewestStep, PurgeStep
<1>4. ExpiryIndexed'
  BY <1>1, TokensIndexedStep, SessionsIndexedStep, RatesIndexedStep DEF ExpiryIndexed
<1> QED
  BY <1>2, <1>3, <1>4 DEF LoginInv

(* The invariant of the login handlers and the cleanup holds in every      *)
(* reachable state, whatever the numbers of requests, tokens and accounts. *)
THEOREM LoginCorrect == Spec => []LoginInv
  BY InitInv, InvStep, PTL DEF Spec

(* The tables and the handlers keep their types.                           *)
THEOREM LoginTypes == Spec => []TypeOK
<1>1. LoginInv => TypeOK
  BY DEF LoginInv
<1> QED
  BY <1>1, LoginCorrect, PTL

(* A login link logs in at most once (take_login_token).                   *)
THEOREM LinksWorkOnce == Spec => []TokenOnce
<1>1. LoginInv => TokenOnce
  BY DEF LoginInv, TokenInv, TokenOnce
<1> QED
  BY <1>1, LoginCorrect, PTL

(* A bearer token opens only the account of the address it was given to    *)
(* (get_or_create_account_for_login, replace_session).                     *)
THEOREM SessionsOpenOwnAccount == Spec => []OwnAccountOnly
<1>1. LoginInv => OwnAccountOnly
  <2> SUFFICES ASSUME LoginInv, NEW s \in SessionTokens, AccountForSession(s) # None
               PROVE  loginIndex[owner[s]] = AccountForSession(s)
    BY DEF OwnAccountOnly
  <2>1. sessionIndex[s] # None /\ AccountForSession(s) = sessionIndex[s]
    BY DEF AccountForSession
  <2> QED
    BY <2>1 DEF LoginInv, OwnerInv
<1> QED
  BY <1>1, LoginCorrect, PTL

(* Only the newest session of an account is accepted (replace_session).    *)
THEOREM OneSession == Spec => []NewestOnly
<1>1. LoginInv => NewestOnly
  <2> SUFFICES ASSUME LoginInv, NEW s \in SessionTokens, AccountForSession(s) # None
               PROVE  newest[AccountForSession(s)] = s
    BY DEF NewestOnly
  <2>1. /\ AccountForSession(s) = sessionIndex[s] /\ sessionIndex[s] # None
        /\ sessions[sessionIndex[s]] # None /\ sessions[sessionIndex[s]].token = s
    BY DEF AccountForSession
  <2>2. sessionIndex[s] \in Accounts
    BY <2>1 DEF LoginInv, TypeOK
  <2> QED
    BY <2>1, <2>2 DEF LoginInv, NewestInv
<1> QED
  BY <1>1, LoginCorrect, PTL

(* The cleanup can find every row, and finds no row that is not there      *)
(* (expiry_key).                                                           *)
THEOREM RowsIndexed == Spec => []ExpiryIndexed
<1>1. LoginInv => ExpiryIndexed
  BY DEF LoginInv
<1> QED
  BY <1>1, LoginCorrect, PTL

(* The cleanup removes only what has expired, though it reads the clock    *)
(* before its passes and logins go on meanwhile (purge_expired).           *)
THEOREM CleanupSafe == Spec => PurgesExpiredOnly
<1> DEFINE Kept ==
      /\ \A t \in LoginTokens : tokens[t] # None /\ tokens'[t] = None =>
            tokens[t].expires <= clock
      /\ \A a \in Accounts : sessions[a] # None /\ sessions'[a] = None =>
            sessions[a].expires <= clock
      /\ \A k \in RateKeys : rates[k] # None /\ rates'[k] = None =>
            rates[k].expires <= clock
<1>1. ASSUME LoginInv, Purge
      PROVE  Kept
  <2>1. PICK ts \in SUBSET Due(tokenExpiry), ss \in SUBSET Due(sessionExpiry),
             rs \in SUBSET Due(rateExpiry) : PurgeRows(ts, ss, rs)
    BY <1>1, PurgeRowsDue
  <2>2. /\ TypeOK /\ TokensIndexed /\ SessionsIndexed /\ RatesIndexed
        /\ clock \in Nat /\ purgeAt \in Nat /\ purgeAt <= clock
    BY <1>1 DEF LoginInv, ExpiryIndexed, PurgeInv, TypeOK, Purge
  <2>3. \A x \in Time : x <= purgeAt => x <= clock
    BY <2>2 DEF Time
  <2>4. ASSUME NEW t \in LoginTokens, tokens[t] # None, tokens'[t] = None
        PROVE  tokens[t].expires <= clock
    <3>1. PICK x \in ts : x[2] = t
      BY <2>1, <2>4 DEF PurgeRows
    <3>2. x \in tokenExpiry /\ x = <<x[1], t>> /\ x[1] \in Time /\ x[1] <= purgeAt
      BY <2>1, <2>2, <3>1 DEF Due, TypeOK
    <3>3. tokens[t].expires = x[1]
      BY <2>2, <3>2 DEF TokensIndexed
    <3> QED
      BY <2>3, <3>2, <3>3
  <2>5. ASSUME NEW a \in Accounts, sessions[a] # None, sessions'[a] = None
        PROVE  sessions[a].expires <= clock
    <3>1. PICK x \in ss : x[2] = a
      BY <2>1, <2>5 DEF PurgeRows
    <3>2. /\ x \in sessionExpiry /\ x = <<x[1], a, x[3]>> /\ x[3] \in SessionTokens
          /\ x[1] \in Time /\ x[1] <= purgeAt
      BY <2>1, <2>2, <3>1 DEF Due, TypeOK
    <3>3. sessions[a].expires = x[1]
      BY <2>2, <3>2 DEF SessionsIndexed
    <3> QED
      BY <2>3, <3>2, <3>3
  <2>6. ASSUME NEW k \in RateKeys, rates[k] # None, rates'[k] = None
        PROVE  rates[k].expires <= clock
    <3>1. <<rates[k].expires, k>> \in rs
      BY <2>1, <2>6 DEF PurgeRows
    <3>2. rates[k].expires \in Time /\ rates[k].expires <= purgeAt
      BY <2>1, <2>2, <2>6, <3>1 DEF Due, TypeOK, Bucket
    <3> QED
      BY <2>3, <3>2
  <2> QED
    BY <2>4, <2>5, <2>6
<1>2. LoginInv /\ [Next]_vars => [Purge => Kept]_vars
  BY <1>1
<1> QED
  BY <1>2, LoginCorrect, PTL DEF Spec, PurgesExpiredOnly
=============================================================================
