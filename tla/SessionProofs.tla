--------------------------- MODULE SessionProofs ---------------------------
(***************************************************************************)
(* Theorems about Session: its types, the single refresh, whose tokens the *)
(* store has, and what a retry is sent with.                               *)
(*                                                                         *)
(* SessionInv adds to the properties what carries them from the beginning  *)
(* of a refresh to its end: a pending refresh is for the user who is       *)
(* signed in unless overtaken says otherwise, no token is newer than the   *)
(* newest issued, and a request counts how often it went out.              *)
(***************************************************************************)
EXTENDS Session, TLAPS

\* A pending refresh is that of the signed-in user.
RefreshIsOwn == ~overtaken =>
  \A r \in Requests : refresh[r] # None => refresh[r].user = userId

\* What a request has sent and been refused was issued before.
NothingFromTheFuture ==
  /\ accessToken # None => accessToken.n <= issued
  /\ \A r \in Requests :
       /\ request[r].token # None => request[r].token.n <= issued
       /\ request[r].refused # None => request[r].refused.n <= issued

\* A request goes out once before it waits, and once after.
CountsItsSendings == \A r \in Requests :
  /\ request[r].pc \in {"sent", "refused"} =>
       request[r].sent = (IF request[r].retried = "yes" THEN 2 ELSE 1)
  /\ request[r].pc = "waiting" => request[r].sent = 1 /\ request[r].retried = "yes"

SessionInv ==
  /\ TypeOK /\ OneRefresh /\ RefreshIsOwn /\ TokensBelongTogether /\ SessionIsOwn
  /\ NothingFromTheFuture /\ CountsItsSendings /\ RetryHasNewerToken

-----------------------------------------------------------------------------
\* Cognito's tokens are records, and null is none of them: what was read of
\* a token's fields holds of the tokens issued in a step.
LEMMA NewTokenIsToken ==
  ASSUME NEW u \in Users, TypeOK, Issue
  PROVE  /\ NewToken(u) \in Tokens /\ NewToken(u) # None
         /\ NewToken(u).user = u /\ NewToken(u).n = issued'
         /\ issued' = issued + 1 /\ issued' \in 0..MaxTokens
         /\ expired' = expired /\ revoked' = revoked
<1>1. issued \in Nat /\ issued + 1 \in 1..MaxTokens
  BY SessionAssumption DEF TypeOK, Issue
<1>2. NewToken(u) \in Tokens
  BY <1>1 DEF NewToken, Tokens
<1> QED BY <1>1, <1>2, SessionAssumption DEF NewToken, Tokens, Issue

\* What a request looks like when it goes out again.
LEMMA ResentIsRequest ==
  ASSUME NEW x \in RequestStates, x.sent = 1, NEW t \in Tokens \cup {None}
  PROVE  LET y == [x EXCEPT !.pc = "sent", !.sent = @ + 1, !.token = t, !.waitsFor = None]
         IN  /\ y \in RequestStates /\ y.pc = "sent" /\ y.sent = 2 /\ y.token = t
             /\ y.retried = x.retried /\ y.refused = x.refused
<1> DEFINE y == [x EXCEPT !.pc = "sent", !.sent = @ + 1, !.token = t, !.waitsFor = None]
<1>1. x.sent + 1 = 2 /\ 2 \in 0..2
  OBVIOUS
<1>2. y = [x EXCEPT !.pc = "sent", !.sent = 2, !.token = t, !.waitsFor = None]
  BY <1>1
<1>3. y \in RequestStates
  BY <1>1, <1>2 DEF RequestStates
<1> QED BY <1>1, <1>2, <1>3 DEF RequestStates

\* Dropping the pending refresh leaves none, and every request it resumes
\* goes out with the new token or ends.  This is what the three ends of
\* refreshAccessToken share.
LEMMA SettleKeeps ==
  ASSUME SessionInv, NEW r \in Requests, refresh[r] # None,
         NEW new \in Tokens \cup {None}, Settle(r, new),
         accessToken' \in Tokens \cup {None}, new # None => accessToken' = new,
         issued' \in 0..MaxTokens, issued <= issued',
         new # None => new.n = issued' /\ issued < issued'
  PROVE  /\ request' \in [Requests -> RequestStates]
         /\ refresh' = [q \in Requests |-> None] /\ refreshPromise' = None
         /\ CountsItsSendings' /\ RetryHasNewerToken'
         /\ \A q \in Requests :
              /\ request'[q].token # None => request'[q].token.n <= issued'
              /\ request'[q].refused # None => request'[q].refused.n <= issued'
<1> USE DEF SessionInv
<1>1. refresh' = [q \in Requests |-> None] /\ refreshPromise' = None
  BY DEF Settle, OneRefresh, TypeOK
<1>2. \A q \in Requests : None \notin {request[q].token, request[q].refused} =>
        request[q].token.n \in Nat /\ request[q].refused.n \in Nat
  BY SessionAssumption DEF TypeOK, RequestStates, Tokens
<1>3. issued \in Nat /\ issued' \in Nat
  BY SessionAssumption DEF TypeOK
<1> DEFINE waits(q) == q \in Resumed(r, new)
           again(q) == [request[q] EXCEPT !.pc = "sent", !.sent = @ + 1,
                                          !.token = accessToken', !.waitsFor = None]
<1>4. \A q \in Requests :
        \/ ~waits(q) /\ request'[q] = request[q]
        \/ waits(q) /\ new = None /\ request'[q] = Ended("failed")
        \/ waits(q) /\ new # None /\ request'[q] = again(q)
  BY DEF Settle, RetryWith
<1>5. Ended("failed") \in RequestStates /\ Ended("failed").token = None
      /\ Ended("failed").refused = None /\ Ended("failed").pc = "failed"
  <2>1. Ended("failed") = [pc |-> "failed", token |-> None, refused |-> None,
                           sent |-> 0, retried |-> "no", waitsFor |-> None]
    BY DEF Ended, NewRequest
  <2> QED BY <2>1 DEF RequestStates
<1>6. ASSUME NEW q \in Requests, waits(q), new # None
      PROVE  /\ again(q) \in RequestStates
             /\ again(q).pc = "sent" /\ again(q).retried = "yes" /\ again(q).sent = 2
             /\ again(q).token = new /\ again(q).refused = request[q].refused
  <2>1. request[q] \in RequestStates /\ request[q].sent = 1 /\ request[q].retried = "yes"
    BY <1>6 DEF Resumed, CountsItsSendings, TypeOK
  <2> QED BY <2>1, <1>6, ResentIsRequest
<1> HIDE DEF waits, again
<1>7. request' \in [Requests -> RequestStates]
  <2>1. \A q \in Requests : request'[q] \in RequestStates
    BY <1>4, <1>5, <1>6 DEF TypeOK
  <2>2. request' = [q \in Requests |-> request'[q]]
    BY DEF Settle
  <2> QED BY <2>1, <2>2
<1>8. CountsItsSendings'
  BY <1>4, <1>5, <1>6 DEF CountsItsSendings
<1>9. ASSUME NEW q \in Requests
      PROVE  /\ request'[q].token # None => request'[q].token.n <= issued'
             /\ request'[q].refused # None => request'[q].refused.n <= issued'
  <2>1. /\ request[q].token # None => request[q].token.n <= issued /\ request[q].token.n \in Nat
        /\ request[q].refused # None => request[q].refused.n <= issued /\ request[q].refused.n \in Nat
    BY DEF NothingFromTheFuture, TypeOK, RequestStates, Tokens
  <2>2. CASE request'[q] = request[q]
    BY <2>1, <2>2, <1>3
  <2>3. CASE request'[q] = Ended("failed")
    BY <2>3, <1>5
  <2>4. CASE waits(q) /\ new # None /\ request'[q] = again(q)
    BY <2>1, <2>4, <1>3, <1>6
  <2> QED BY <2>2, <2>3, <2>4, <1>4
<1>10. ASSUME NEW q \in Requests, request'[q].pc = "sent", request'[q].retried = "yes"
       PROVE  /\ request'[q].token # None
              /\ request'[q].refused # None => request'[q].token.n > request'[q].refused.n
  <2>1. request[q].refused # None => request[q].refused.n <= issued /\ request[q].refused.n \in Nat
    BY DEF NothingFromTheFuture, TypeOK, RequestStates, Tokens
  <2>2. CASE request'[q] = request[q]
    BY <2>2, <1>10 DEF RetryHasNewerToken
  <2>3. CASE request'[q] = Ended("failed")
    BY <2>3, <1>5, <1>10
  <2>4. CASE waits(q) /\ new # None /\ request'[q] = again(q)
    BY <2>1, <2>4, <1>3, <1>6
  <2> QED BY <2>2, <2>3, <2>4, <1>4
<1> QED BY <1>1, <1>7, <1>8, <1>9, <1>10 DEF RetryHasNewerToken

-----------------------------------------------------------------------------
\* What a step of a single request, which leaves the store alone, has to show.
LEMMA RequestStep ==
  ASSUME SessionInv, NEW r \in Requests, NEW new \in RequestStates,
         Becomes(r, new),
         UNCHANGED <<store, screen, exchange, logout, cognito, overtaken>>,
         refresh' \in [Requests -> Tokens \cup {None}],
         refreshPromise' \in Requests \cup {None},
         OneRefresh', RefreshIsOwn',
         new.token # None => new.token.n <= issued,
         new.refused # None => new.refused.n <= issued,
         new.pc \in {"sent", "refused"} => new.sent = (IF new.retried = "yes" THEN 2 ELSE 1),
         new.pc = "waiting" => new.sent = 1 /\ new.retried = "yes",
         new.pc = "sent" => new.retried = "no"
  PROVE  SessionInv'
<1> USE DEF SessionInv, store, cognito, Becomes
<1>1. request' \in [Requests -> RequestStates]
  BY DEF TypeOK
<1>2. request'[r] = new /\ \A q \in Requests \ {r} : request'[q] = request[q]
  BY DEF TypeOK
<1>3. TypeOK'
  BY <1>1 DEF TypeOK
<1>4. TokensBelongTogether' /\ SessionIsOwn'
  BY DEF TokensBelongTogether, SessionIsOwn
<1>5. NothingFromTheFuture'
  BY <1>2 DEF NothingFromTheFuture
<1>6. CountsItsSendings'
  BY <1>2 DEF CountsItsSendings
<1>7. RetryHasNewerToken'
  BY <1>2 DEF RetryHasNewerToken
<1> QED BY <1>3, <1>4, <1>5, <1>6, <1>7

\* A step that leaves requests and refreshes alone.
LEMMA StoreStep ==
  ASSUME SessionInv, TypeOK', UNCHANGED <<request, refreshVars>>,
         TokensBelongTogether', SessionIsOwn', RefreshIsOwn',
         issued <= issued', accessToken' # None => accessToken'.n <= issued'
  PROVE  SessionInv'
<1> USE DEF SessionInv, refreshVars
<1>1. \A r \in Requests : /\ request[r].token # None => request[r].token.n \in Nat
                          /\ request[r].refused # None => request[r].refused.n \in Nat
  BY SessionAssumption DEF TypeOK, RequestStates, Tokens
<1>2. issued \in Nat /\ issued' \in Nat
  BY SessionAssumption DEF TypeOK
<1>3. NothingFromTheFuture'
  BY <1>1, <1>2 DEF NothingFromTheFuture
<1>4. OneRefresh' /\ CountsItsSendings' /\ RetryHasNewerToken'
  BY DEF OneRefresh, CountsItsSendings, RetryHasNewerToken
<1> QED BY <1>3, <1>4

-----------------------------------------------------------------------------
\* A new session has no tokens and nothing pending.
LEMMA SessionInit == Init => SessionInv
<1> SUFFICES ASSUME Init PROVE SessionInv
  OBVIOUS
<1>1. NewRequest \in RequestStates
  BY DEF NewRequest, RequestStates
<1>2. TypeOK
  <2>1. request \in [Requests -> RequestStates]
    BY <1>1 DEF Init
  <2>2. logout \in [Taps -> LogoutStates]
    BY DEF Init, LogoutStates
  <2>3. issued \in 0..MaxTokens /\ expired \in 0..MaxTokens
    BY SessionAssumption DEF Init
  <2> QED BY <2>1, <2>2, <2>3 DEF Init, TypeOK
<1>3. \A r \in Requests : request[r].pc = "idle" /\ request[r].token = None
                          /\ request[r].refused = None /\ refresh[r] = None
  BY DEF Init, NewRequest
<1> QED BY <1>2, <1>3 DEF Init, SessionInv, OneRefresh, RefreshIsOwn, TokensBelongTogether,
     SessionIsOwn, NothingFromTheFuture, CountsItsSendings, RetryHasNewerToken
-----------------------------------------------------------------------------
\* Send, Answer and Refused put a request into these states.
LEMMA SentIsRequest ==
  ASSUME NEW t \in Tokens \cup {None}
  PROVE  LET y == [NewRequest EXCEPT !.pc = "sent", !.sent = 1, !.token = t]
         IN  /\ y \in RequestStates /\ y.pc = "sent" /\ y.sent = 1 /\ y.token = t
             /\ y.retried = "no" /\ y.refused = None
<1>1. NewRequest \in RequestStates /\ NewRequest.retried = "no" /\ NewRequest.refused = None
  BY DEF NewRequest, RequestStates
<1>2. ASSUME NEW x \in RequestStates
      PROVE  LET y == [x EXCEPT !.pc = "sent", !.sent = 1, !.token = t]
             IN  /\ y \in RequestStates /\ y.pc = "sent" /\ y.sent = 1 /\ y.token = t
                 /\ y.retried = x.retried /\ y.refused = x.refused
  <2> DEFINE y == [x EXCEPT !.pc = "sent", !.sent = 1, !.token = t]
  <2>1. 1 \in 0..2
    OBVIOUS
  <2>2. y \in RequestStates
    BY <2>1 DEF RequestStates
  <2> QED BY <2>2 DEF RequestStates
<1> QED BY <1>1, <1>2

\* A request that is over is one of the request states.
LEMMA EndedIsRequest ==
  ASSUME NEW outcome \in {"done", "failed"}
  PROVE  /\ Ended(outcome) \in RequestStates /\ Ended(outcome).pc = outcome
         /\ Ended(outcome).token = None /\ Ended(outcome).refused = None
<1> QED BY DEF Ended, NewRequest, RequestStates

\* So is one that was answered with a 401,
LEMMA RefusedIsRequest ==
  ASSUME NEW x \in RequestStates
  PROVE  LET y == [x EXCEPT !.pc = "refused"]
         IN  /\ y \in RequestStates /\ y.pc = "refused" /\ y.sent = x.sent
             /\ y.token = x.token /\ y.retried = x.retried /\ y.refused = x.refused
<1> QED BY DEF RequestStates

\* and one that waits for a refresh.
LEMMA WaitingIsRequest ==
  ASSUME NEW x \in RequestStates, NEW p \in Requests
  PROVE  LET y == [x EXCEPT !.pc = "waiting", !.retried = "yes",
                            !.refused = x.token, !.waitsFor = p]
         IN  /\ y \in RequestStates /\ y.pc = "waiting" /\ y.sent = x.sent
             /\ y.token = x.token /\ y.retried = "yes" /\ y.refused = x.token
<1> QED BY DEF RequestStates

-----------------------------------------------------------------------------
\* A new request carries the store's token and waits for nothing.
LEMMA SendKeeps ==
  ASSUME SessionInv, NEW r \in Requests, Send(r)
  PROVE  SessionInv'
<1> USE DEF SessionInv
<1> DEFINE new == [NewRequest EXCEPT !.pc = "sent", !.sent = 1, !.token = accessToken]
<1>1. /\ new \in RequestStates /\ new.pc = "sent" /\ new.sent = 1
      /\ new.token = accessToken /\ new.retried = "no" /\ new.refused = None
  BY SentIsRequest DEF TypeOK
<1>2. /\ Becomes(r, new)
      /\ UNCHANGED <<store, screen, exchange, logout, refreshVars, cognito, overtaken>>
  BY DEF Send
<1>3. OneRefresh' /\ RefreshIsOwn'
  BY <1>2 DEF OneRefresh, RefreshIsOwn, store, refreshVars
<1>4. new.token # None => new.token.n <= issued
  BY <1>1 DEF NothingFromTheFuture
<1> HIDE DEF new
<1> QED BY <1>1, <1>2, <1>3, <1>4, RequestStep DEF TypeOK, refreshVars

\* An answer only moves its request on.
LEMMA AnswerKeeps ==
  ASSUME SessionInv, NEW r \in Requests, Answer(r)
  PROVE  SessionInv'
<1> USE DEF SessionInv
<1>1. UNCHANGED <<store, screen, exchange, logout, refreshVars, cognito, overtaken>>
  BY DEF Answer
<1>2. OneRefresh' /\ RefreshIsOwn'
  BY <1>1 DEF OneRefresh, RefreshIsOwn, store, refreshVars
<1>3. CASE \E outcome \in {"done", "failed"} : Becomes(r, Ended(outcome))
  <2>1. PICK outcome \in {"done", "failed"} : Becomes(r, Ended(outcome))
    BY <1>3
  <2> DEFINE new == Ended(outcome)
  <2>2. new \in RequestStates /\ new.pc = outcome /\ new.token = None /\ new.refused = None
    BY EndedIsRequest
  <2> HIDE DEF new
  <2> QED BY <1>1, <1>2, <2>1, <2>2, RequestStep DEF TypeOK, refreshVars, new
<1>4. CASE Becomes(r, [request[r] EXCEPT !.pc = "refused"])
  <2> DEFINE new == [request[r] EXCEPT !.pc = "refused"]
  <2>1. /\ new \in RequestStates /\ new.pc = "refused" /\ new.sent = request[r].sent
        /\ new.token = request[r].token /\ new.retried = request[r].retried
        /\ new.refused = request[r].refused
    BY RefusedIsRequest DEF TypeOK
  <2>2. /\ new.token # None => new.token.n <= issued
        /\ new.refused # None => new.refused.n <= issued
    BY <2>1 DEF NothingFromTheFuture
  <2>3. new.sent = (IF new.retried = "yes" THEN 2 ELSE 1)
    BY <2>1 DEF CountsItsSendings, Answer
  <2>4. Becomes(r, new)
    BY <1>4
  <2> HIDE DEF new
  <2> QED BY <1>1, <1>2, <2>1, <2>2, <2>3, <2>4, RequestStep DEF TypeOK, refreshVars
<1> QED BY <1>3, <1>4 DEF Answer

\* A 401 joins the pending refresh or begins one when none is pending.
LEMMA RefusedKeeps ==
  ASSUME SessionInv, NEW r \in Requests, Refused(r)
  PROVE  SessionInv'
<1> USE DEF SessionInv
<1>1. UNCHANGED <<store, screen, exchange, logout, cognito, overtaken>>
  BY DEF Refused
<1>2. CASE Becomes(r, Ended("failed")) /\ UNCHANGED refreshVars
  <2> DEFINE new == Ended("failed")
  <2>1. new \in RequestStates /\ new.pc = "failed" /\ new.token = None /\ new.refused = None
    BY EndedIsRequest
  <2>2. OneRefresh' /\ RefreshIsOwn'
    BY <1>1, <1>2 DEF OneRefresh, RefreshIsOwn, store, refreshVars
  <2>3. Becomes(r, new)
    BY <1>2
  <2> HIDE DEF new
  <2> QED BY <1>1, <1>2, <2>1, <2>2, <2>3, RequestStep DEF TypeOK, refreshVars
<1>3. ASSUME NEW p \in Requests, WaitFor(r, p), MayRetry(r),
             refresh' \in [Requests -> Tokens \cup {None}],
             refreshPromise' \in Requests \cup {None}, OneRefresh', RefreshIsOwn'
      PROVE  SessionInv'
  <2> DEFINE new == [request[r] EXCEPT !.pc = "waiting", !.retried = "yes",
                       !.refused = request[r].token, !.waitsFor = p]
  <2>1. /\ new \in RequestStates /\ new.pc = "waiting" /\ new.sent = request[r].sent
        /\ new.token = request[r].token /\ new.retried = "yes"
        /\ new.refused = request[r].token
    BY WaitingIsRequest DEF TypeOK
  <2>2. /\ new.token # None => new.token.n <= issued
        /\ new.refused # None => new.refused.n <= issued
    BY <2>1 DEF NothingFromTheFuture
  <2>3. new.sent = 1
    BY <2>1, <1>3 DEF CountsItsSendings, MayRetry, Refused
  <2>4. Becomes(r, new)
    BY <1>3 DEF WaitFor
  <2> HIDE DEF new
  <2> QED BY <1>1, <1>3, <2>1, <2>2, <2>3, <2>4, RequestStep
<1>4. CASE MayRetry(r) /\ PendingRefresh # None /\ WaitFor(r, PendingRefresh)
           /\ UNCHANGED refreshVars
  <2>1. refreshPromise \in Requests
    BY <1>4 DEF PendingRefresh, TypeOK
  <2>2. OneRefresh' /\ RefreshIsOwn'
    BY <1>1, <1>4 DEF OneRefresh, RefreshIsOwn, store, refreshVars
  <2> QED BY <1>3, <1>4, <2>1, <2>2 DEF PendingRefresh, TypeOK, refreshVars
<1>5. CASE /\ MayRetry(r) /\ PendingRefresh = None /\ refreshToken # None
           /\ WaitFor(r, r)
           /\ refresh' = [refresh EXCEPT ![r] = refreshToken]
           /\ refreshPromise' = r
  <2>1. \A q \in Requests : refresh[q] = None
    BY <1>5, SessionAssumption DEF PendingRefresh, OneRefresh
  <2>2. refresh' \in [Requests -> Tokens \cup {None}] /\ refreshPromise' \in Requests
    BY <1>5 DEF TypeOK
  <2>3. \A q \in Requests : refresh'[q] = (IF q = r THEN refreshToken ELSE None)
    BY <1>5, <2>1 DEF TypeOK
  <2>4. OneRefresh'
    BY <1>5, <2>3 DEF OneRefresh
  <2>5. RefreshIsOwn'
    BY <1>1, <1>5, <2>3 DEF RefreshIsOwn, SessionIsOwn, store
  <2> QED BY <1>3, <1>5, <2>2, <2>4, <2>5
<1> QED BY <1>2, <1>4, <1>5 DEF Refused

-----------------------------------------------------------------------------
\* The three ends of a refresh.
LEMMA EndRefreshKeeps ==
  ASSUME SessionInv, NEW r \in Requests, EndRefresh(r)
  PROVE  SessionInv'
<1> USE DEF SessionInv
<1>1. ASSUME NEW new \in Tokens \cup {None}, refresh[r] # None, Settle(r, new),
             accessToken' \in Tokens \cup {None}, new # None => accessToken' = new,
             refreshToken' \in Tokens \cup {None}, userId' \in Users \cup {None},
             issued' \in 0..MaxTokens, issued <= issued', expired' = expired,
             revoked' = revoked,
             new # None => new.n = issued' /\ issued < issued',
             accessToken' # None => accessToken'.n <= issued',
             UNCHANGED <<screen, exchange, logout, overtaken>>,
             TokensBelongTogether', SessionIsOwn'
      PROVE  SessionInv'
  <2>1. /\ request' \in [Requests -> RequestStates]
        /\ refresh' = [q \in Requests |-> None] /\ refreshPromise' = None
        /\ CountsItsSendings' /\ RetryHasNewerToken'
        /\ \A q \in Requests :
             /\ request'[q].token # None => request'[q].token.n <= issued'
             /\ request'[q].refused # None => request'[q].refused.n <= issued'
    BY <1>1, SettleKeeps
  <2>2. TypeOK'
    BY <1>1, <2>1 DEF TypeOK
  <2>3. OneRefresh' /\ RefreshIsOwn' /\ NothingFromTheFuture'
    BY <1>1, <2>1 DEF OneRefresh, RefreshIsOwn, NothingFromTheFuture
  <2> QED BY <1>1, <2>1, <2>2, <2>3
<1>2. CASE RefreshSucceeds(r)
  <2> DEFINE new == NewToken(refresh[r].user)
  <2>1. refresh[r] \in Tokens /\ refresh[r].user \in Users
    BY <1>2 DEF RefreshSucceeds, TypeOK, Tokens
  <2>2. /\ new \in Tokens /\ new # None /\ new.user = refresh[r].user /\ new.n = issued'
        /\ issued' = issued + 1 /\ issued' \in 0..MaxTokens
        /\ expired' = expired /\ revoked' = revoked
    BY <1>2, <2>1, NewTokenIsToken DEF RefreshSucceeds
  <2>3. /\ accessToken' = new /\ refreshToken' \in {new, refresh[r]}
        /\ Settle(r, new) /\ refresh[r] # None
        /\ UNCHANGED <<userId, screen, exchange, logout, overtaken>>
    BY <1>2 DEF RefreshSucceeds, KeepSent
  <2> HIDE DEF new
  <2>4. accessToken'.user = refresh[r].user /\ refreshToken'.user = refresh[r].user
    BY <2>2, <2>3
  <2>5. TokensBelongTogether'
    BY <2>4 DEF TokensBelongTogether
  <2>6. SessionIsOwn'
    BY <2>3, <2>4 DEF SessionIsOwn, RefreshIsOwn
  <2>7. issued \in Nat
    BY SessionAssumption DEF TypeOK
  <2>8. issued <= issued' /\ issued < issued' /\ accessToken'.n <= issued'
    BY <2>2, <2>3, <2>7
  <2>9. userId' \in Users \cup {None} /\ refreshToken' \in Tokens
    BY <2>1, <2>2, <2>3 DEF TypeOK
  <2> QED BY <1>1, <2>2, <2>3, <2>5, <2>6, <2>8, <2>9
<1>3. CASE RefreshGivesNothing(r)
  <2>1. /\ refresh[r] # None /\ Settle(r, None)
        /\ UNCHANGED <<store, screen, exchange, logout, cognito, overtaken>>
    BY <1>3 DEF RefreshGivesNothing
  <2>2. TokensBelongTogether' /\ SessionIsOwn'
    BY <2>1 DEF TokensBelongTogether, SessionIsOwn, store
  <2>3. issued \in Nat
    BY SessionAssumption DEF TypeOK
  <2> QED BY <1>1, <2>1, <2>2, <2>3 DEF TypeOK, NothingFromTheFuture, store, cognito
<1>4. CASE RefreshFails(r)
  <2>1. /\ refresh[r] # None /\ Settle(r, None) /\ Clear
        /\ UNCHANGED <<screen, exchange, logout, cognito, overtaken>>
    BY <1>4 DEF RefreshFails
  <2>2. TokensBelongTogether' /\ SessionIsOwn'
    BY <2>1 DEF TokensBelongTogether, SessionIsOwn, Clear
  <2>3. issued \in Nat
    BY SessionAssumption DEF TypeOK
  <2> QED BY <1>1, <2>1, <2>2, <2>3 DEF TypeOK, Clear, cognito
<1> QED BY <1>2, <1>3, <1>4 DEF EndRefresh

-----------------------------------------------------------------------------
\* Signing in, logging out and the passing of time.
LEMMA SignInKeeps ==
  ASSUME SessionInv, NEW u \in Users, SignIn(u)
  PROVE  SessionInv'
<1> USE DEF SessionInv
<1>1. CASE /\ Issue /\ userId' = u /\ accessToken' = NewToken(u)
           /\ refreshToken' \in {NewToken(u), None}
           /\ screen' = "wallet" /\ Overtakes
  <2> DEFINE new == NewToken(u)
  <2>1. /\ new \in Tokens /\ new # None /\ new.user = u /\ new.n = issued'
        /\ issued' = issued + 1 /\ issued' \in 0..MaxTokens
        /\ expired' = expired /\ revoked' = revoked
    BY <1>1, NewTokenIsToken
  <2>2. accessToken' = new /\ refreshToken' \in {new, None}
    BY <1>1
  <2> HIDE DEF new
  <2>3. UNCHANGED <<logout, request, refreshVars>> /\ exchange' \subseteq Users
    BY DEF SignIn, TypeOK
  <2>4. TypeOK'
    BY <1>1, <2>1, <2>2, <2>3 DEF TypeOK, Overtakes, refreshVars
  <2>5. TokensBelongTogether' /\ SessionIsOwn'
    BY <1>1, <2>1, <2>2 DEF TokensBelongTogether, SessionIsOwn
  <2>6. RefreshIsOwn'
    BY <1>1, <2>3, SessionAssumption DEF RefreshIsOwn, OneRefresh, Overtakes, refreshVars
  <2>7. issued \in Nat
    BY SessionAssumption DEF TypeOK
  <2>8. issued <= issued' /\ accessToken'.n <= issued'
    BY <2>1, <2>2, <2>7
  <2> QED BY <2>3, <2>4, <2>5, <2>6, <2>8, StoreStep
<1>2. CASE UNCHANGED <<store, screen, cognito, overtaken>>
  <2>1. UNCHANGED <<logout, request, refreshVars>> /\ exchange' \subseteq Users
    BY DEF SignIn, TypeOK
  <2>2. TypeOK'
    BY <1>2, <2>1 DEF TypeOK, store, cognito, refreshVars
  <2>3. TokensBelongTogether' /\ SessionIsOwn' /\ RefreshIsOwn'
    BY <1>2, <2>1 DEF TokensBelongTogether, SessionIsOwn, RefreshIsOwn, store, refreshVars
  <2>4. issued \in Nat
    BY SessionAssumption DEF TypeOK
  <2> QED BY <1>2, <2>1, <2>2, <2>3, <2>4, StoreStep DEF NothingFromTheFuture, store, cognito
<1> QED BY <1>1, <1>2 DEF SignIn

\* Logging out empties the store, or marks the pending refresh as overtaken.
LEMMA LogoutKeeps ==
  ASSUME SessionInv, NEW l \in Taps, TapLogout(l) \/ Revoke(l) \/ EndLogout(l)
  PROVE  SessionInv'
<1> USE DEF SessionInv
<1>1. issued \in Nat
  BY SessionAssumption DEF TypeOK
<1>2. CASE TapLogout(l)
  <2> USE <1>2 DEF TapLogout, store, refreshVars, cognito
  <2>1. TypeOK'
    <3>1. [pc |-> IF refreshToken = None THEN "browser" ELSE "revoke",
           token |-> refreshToken] \in LogoutStates
      BY DEF LogoutStates, TypeOK
    <3> QED BY <3>1 DEF TypeOK
  <2>2. TokensBelongTogether' /\ SessionIsOwn' /\ RefreshIsOwn'
    BY DEF TokensBelongTogether, SessionIsOwn, RefreshIsOwn
  <2> QED BY <1>1, <2>1, <2>2, StoreStep DEF NothingFromTheFuture
<1>3. CASE Revoke(l)
  <2> USE <1>3 DEF Revoke, store, refreshVars
  <2>1. logout[l] \in LogoutStates /\ logout[l].pc = "revoke"
    BY DEF TypeOK
  <2>2. logout[l].token \in Tokens
    BY <2>1 DEF LogoutStates
  <2>3. [logout[l] EXCEPT !.pc = "browser"] \in LogoutStates
    <3>1. logout[l] \in [pc : {"revoke"}, token : Tokens]
      BY <2>1 DEF LogoutStates
    <3>2. [logout[l] EXCEPT !.pc = "browser"] \in [pc : {"browser"}, token : Tokens \cup {None}]
      BY <3>1
    <3> QED BY <3>2 DEF LogoutStates
  <2>5. TypeOK'
    BY <2>2, <2>3 DEF TypeOK
  <2>4. TokensBelongTogether' /\ SessionIsOwn' /\ RefreshIsOwn'
    BY DEF TokensBelongTogether, SessionIsOwn, RefreshIsOwn
  <2> QED BY <1>1, <2>4, <2>5, StoreStep DEF NothingFromTheFuture
<1>4. CASE EndLogout(l)
  <2> USE <1>4 DEF EndLogout, Clear, Overtakes, refreshVars, cognito
  <2>1. TypeOK'
    BY DEF TypeOK, LogoutStates
  <2>2. TokensBelongTogether' /\ SessionIsOwn'
    BY DEF TokensBelongTogether, SessionIsOwn
  <2>3. RefreshIsOwn'
    BY SessionAssumption DEF RefreshIsOwn, OneRefresh
  <2> QED BY <1>1, <2>1, <2>2, <2>3, StoreStep DEF NothingFromTheFuture
<1> QED BY <1>2, <1>3, <1>4

\* Steps that leave the store, the requests and the refreshes alone.
LEMMA QuietStepKeeps ==
  ASSUME SessionInv, Expire \/ (\E u \in Users : StartExchange(u))
  PROVE  SessionInv'
<1> USE DEF SessionInv
<1>1. issued \in Nat /\ expired \in Nat
  BY SessionAssumption DEF TypeOK
<1>2. /\ UNCHANGED <<userId, accessToken, refreshToken, screen, logout, request,
                     refresh, refreshPromise, issued, revoked, overtaken>>
      /\ exchange' \subseteq Users /\ expired' \in 0..MaxTokens
  BY <1>1, SessionAssumption DEF Expire, StartExchange, store, refreshVars, cognito, TypeOK
<1>3. TypeOK'
  BY <1>2 DEF TypeOK
<1>4. TokensBelongTogether' /\ SessionIsOwn' /\ RefreshIsOwn'
  BY <1>2 DEF TokensBelongTogether, SessionIsOwn, RefreshIsOwn
<1> QED BY <1>1, <1>2, <1>3, <1>4, StoreStep DEF NothingFromTheFuture, refreshVars

\* Every step keeps the invariant.
LEMMA SessionNext ==
  ASSUME SessionInv, [Next]_vars
  PROVE  SessionInv'
<1>1. ASSUME NEW r \in Requests, Send(r) \/ Answer(r) \/ Refused(r) \/ EndRefresh(r)
      PROVE  SessionInv'
  BY <1>1, SendKeeps, AnswerKeeps, RefusedKeeps, EndRefreshKeeps
<1>2. CASE Expire \/ \E u \in Users : StartExchange(u)
  BY <1>2, QuietStepKeeps
<1>3. ASSUME NEW u \in Users, SignIn(u)
      PROVE  SessionInv'
  BY <1>3, SignInKeeps
<1>4. ASSUME NEW l \in Taps, TapLogout(l) \/ Revoke(l) \/ EndLogout(l)
      PROVE  SessionInv'
  BY <1>4, LogoutKeeps
<1>5. CASE UNCHANGED vars
  BY <1>5 DEF vars, store, refreshVars, cognito, SessionInv, TypeOK, OneRefresh, RefreshIsOwn,
     TokensBelongTogether, SessionIsOwn, NothingFromTheFuture, CountsItsSendings,
     RetryHasNewerToken
<1> QED BY <1>1, <1>2, <1>3, <1>4, <1>5 DEF Next

-----------------------------------------------------------------------------
\* The inductive invariant holds in every reachable state.
LEMMA SessionInvariant == Spec => []SessionInv
<1> QED BY SessionInit, SessionNext, PTL DEF Spec

\* Every variable keeps its type; in particular no request goes out more
\* than twice.
THEOREM TypeCorrect == Spec => []TypeOK
<1>1. SessionInv => TypeOK
  BY DEF SessionInv
<1> QED BY <1>1, SessionInvariant, PTL

\* There is at most one refresh, whatever is refused while it is pending.
THEOREM RefreshIsShared == Spec => []OneRefresh
<1>1. SessionInv => OneRefresh
  BY DEF SessionInv
<1> QED BY <1>1, SessionInvariant, PTL

\* A retry never repeats the token that was refused, nor one before it.
THEOREM RetriesAreFresh == Spec => []RetryHasNewerToken
<1>1. SessionInv => RetryHasNewerToken
  BY DEF SessionInv
<1> QED BY <1>1, SessionInvariant, PTL

\* The store never mixes the tokens of two users.
THEOREM TokensAreOneUsers == Spec => []TokensBelongTogether
<1>1. SessionInv => TokensBelongTogether
  BY DEF SessionInv
<1> QED BY <1>1, SessionInvariant, PTL

\* They are the signed-in user's as long as no refresh outlasts a session.
THEOREM TokensAreTheUsers == Spec => []SessionIsOwn
<1>1. SessionInv => SessionIsOwn
  BY DEF SessionInv
<1> QED BY <1>1, SessionInvariant, PTL
=============================================================================
