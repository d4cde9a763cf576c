------------------------------ MODULE Session ------------------------------
(***************************************************************************)
(* The sign-in session of the app (apps/rn-wdk-exercise): the tokens of    *)
(* authStore, the axios client that attaches them, refreshes them after a  *)
(* 401 and retries (utils/api.ts), signing in (hooks/useCognito.ts) and    *)
(* logging out (app/(wallet)/settings.tsx).                                *)
(*                                                                         *)
(* JavaScript runs to completion, so a step is what runs between two       *)
(* answers of the network or the browser.  The promise callbacks that      *)
(* follow an answer without waiting for another belong to its step.        *)
(***************************************************************************)
EXTENDS Naturals, FiniteSets

CONSTANTS
  Users,
  Requests,      \* the requests screens make of the backend
  Taps,          \* taps on Logout that may be pending at once
  MaxTokens,     \* bound on the tokens Cognito issues in a behaviour
  None           \* null

ASSUME SessionAssumption ==
  /\ MaxTokens \in Nat
  /\ None \notin Users \cup Requests \cup [user : Users, n : 1..MaxTokens]

\* An id token or a refresh token: whose it is, and when it was issued.
Tokens == [user : Users, n : 1..MaxTokens]

VARIABLES
  userId, accessToken, refreshToken,  \* authStore
  screen,           \* "auth" or "wallet"
  exchange,         \* users whose authorization code is being exchanged
  logout,           \* each tap on Logout: where it is, the token it revokes
  request,          \* each request: see TypeOK
  refresh,          \* the refresh token sent by the refresh that request began
  refreshPromise,   \* the request that began the shared refresh, or None
  issued, expired,  \* Cognito: the newest token, and the newest expired one
  revoked,          \* refresh tokens that were revoked
  overtaken         \* the signed-in user changed while a refresh was pending

store == <<userId, accessToken, refreshToken>>
refreshVars == <<refresh, refreshPromise>>
cognito == <<issued, expired, revoked>>
vars == <<store, screen, exchange, logout, request, refreshVars, cognito, overtaken>>

\* sent counts how often a request went out; refused is the token it had
\* when it was first refused; waitsFor is the refresh it waits for.
RequestStates == [
  pc : {"idle", "sent", "refused", "waiting", "done", "failed"},
  token : Tokens \cup {None}, refused : Tokens \cup {None},
  sent : 0..2, retried : {"no", "yes"}, waitsFor : Requests \cup {None}]

LogoutStates == [pc : {"idle"}, token : {None}] \cup [pc : {"revoke"}, token : Tokens]
  \cup [pc : {"browser"}, token : Tokens \cup {None}]

TypeOK ==
  /\ userId \in Users \cup {None}
  /\ accessToken \in Tokens \cup {None} /\ refreshToken \in Tokens \cup {None}
  /\ screen \in {"auth", "wallet"}
  /\ exchange \subseteq Users
  /\ logout \in [Taps -> LogoutStates]
  /\ request \in [Requests -> RequestStates]
  /\ refresh \in [Requests -> Tokens \cup {None}]
  /\ refreshPromise \in Requests \cup {None}
  /\ issued \in 0..MaxTokens
  /\ expired \in 0..MaxTokens /\ revoked \subseteq Tokens
  /\ overtaken \in BOOLEAN

NewRequest == [pc |-> "idle", token |-> None, refused |-> None,
               sent |-> 0, retried |-> "no", waitsFor |-> None]

Init ==
  /\ userId = None /\ accessToken = None /\ refreshToken = None
  /\ screen = "auth" /\ exchange = {}
  /\ logout = [l \in Taps |-> [pc |-> "idle", token |-> None]]
  /\ request = [r \in Requests |-> NewRequest]
  /\ refresh = [r \in Requests |-> None] /\ refreshPromise = None
  /\ issued = 0 /\ expired = 0 /\ revoked = {}
  /\ overtaken = FALSE

-----------------------------------------------------------------------------
(***************************************************************************)
(* The store.                                                              *)
(***************************************************************************)

\* Forgetting who is signed in but not the tokens, and clear.
ClearUser == userId' = None /\ UNCHANGED <<accessToken, refreshToken>>
Clear == userId' = None /\ accessToken' = None /\ refreshToken' = None

NewToken(u) == [user |-> u, n |-> issued + 1]
Issue == issued < MaxTokens /\ issued' = issued + 1 /\ UNCHANGED <<expired, revoked>>

\* Bookkeeping for the properties: the session changes under a refresh.
Overtakes == overtaken' = (overtaken \/ refreshPromise # None)

-----------------------------------------------------------------------------
(***************************************************************************)
(* Requests.                                                               *)
(***************************************************************************)

Becomes(r, new) == request' = [request EXCEPT ![r] = new]

\* The promise of a request resolves or rejects; nothing else of it remains.
Ended(outcome) == [NewRequest EXCEPT !.pc = outcome]

\* A screen makes a request; the request interceptor attaches the token.
Send(r) ==
  /\ screen = "wallet" /\ request[r].pc = "idle"
  /\ Becomes(r, [NewRequest EXCEPT !.pc = "sent", !.sent = 1, !.token = accessToken])
  /\ UNCHANGED <<store, screen, exchange, logout, refreshVars, cognito, overtaken>>

Accepted(token) == token # None /\ token.n > expired

\* The backend answers, with 401 to a token that is missing or has expired,
\* or the request fails otherwise.
Answer(r) ==
  /\ request[r].pc = "sent"
  /\ \/ Becomes(r, Ended("failed"))
     \/ Accepted(request[r].token) /\ Becomes(r, Ended("done"))
     \/ /\ ~Accepted(request[r].token)
        /\ Becomes(r, [request[r] EXCEPT !.pc = "refused"])
  /\ UNCHANGED <<store, screen, exchange, logout, refreshVars, cognito, overtaken>>

\* `refreshPromise ??= ...`, without and with the test.
AlwaysRefresh == None
PendingRefresh == refreshPromise

\* The mark on the request, ignored and respected.
RetryAlways(r) == TRUE
MayRetry(r) == request[r].retried = "no"

WaitFor(r, p) == Becomes(r, [request[r] EXCEPT
  !.pc = "waiting", !.retried = "yes", !.refused = request[r].token, !.waitsFor = p])

\* The response interceptor gets a 401: it joins the pending refresh, or
\* begins one; without a refresh token that one ends at once with null.
Refused(r) ==
  /\ request[r].pc = "refused"
  /\ \/ /\ MayRetry(r) /\ PendingRefresh # None
        /\ WaitFor(r, PendingRefresh)
        /\ UNCHANGED refreshVars
     \/ /\ MayRetry(r) /\ PendingRefresh = None /\ refreshToken # None
        /\ WaitFor(r, r)
        /\ refresh' = [refresh EXCEPT ![r] = refreshToken]
        /\ refreshPromise' = r
     \/ /\ ~MayRetry(r) \/ (PendingRefresh = None /\ refreshToken = None)
        /\ Becomes(r, Ended("failed"))
        /\ UNCHANGED refreshVars
  /\ UNCHANGED <<store, screen, exchange, logout, cognito, overtaken>>

\* The requests that wait for r's refresh go on: only if it succeeded, or
\* always.
ResumeRetried(r, newToken) == {q \in Requests :
  request[q].pc = "waiting" /\ request[q].waitsFor = r /\ newToken # None}
Resumed(r, newToken) == {q \in Requests :
  request[q].pc = "waiting" /\ request[q].waitsFor = r}

\* A retry whether or not there is a new token, and only if there is one.
RetryAnyway(newToken) == TRUE
RetryWith(newToken) == newToken # None

\* The refresh ends: the promise is dropped, and each waiting request goes
\* out again or fails.  A request that goes out again passes the request
\* interceptor, which attaches the store's token.
Settle(r, newToken) ==
  /\ refresh' = [refresh EXCEPT ![r] = None]
  /\ refreshPromise' = None
  /\ request' = [q \in Requests |->
       IF q \notin Resumed(r, newToken) THEN request[q]
       ELSE IF RetryWith(newToken)
            THEN [request[q] EXCEPT !.pc = "sent", !.sent = @ + 1,
                                    !.token = accessToken', !.waitsFor = None]
            ELSE Ended("failed")]

\* The refresh token to keep when the answer has none: what the store has
\* now, or the one that was sent.
KeepStored(sent) == refreshToken
KeepSent(sent) == sent

\* refreshAccessToken is answered with an id token, and with a refresh token
\* or without.
RefreshSucceeds(r) ==
  /\ refresh[r] # None /\ refresh[r] \notin revoked
  /\ Issue
  /\ LET new == NewToken(refresh[r].user)
     IN  /\ accessToken' = new
         /\ refreshToken' \in {new, KeepSent(refresh[r])}
         /\ Settle(r, new)
  /\ UNCHANGED <<userId, screen, exchange, logout, overtaken>>

\* It is answered without an id token.
RefreshGivesNothing(r) ==
  /\ refresh[r] # None
  /\ UNCHANGED <<store, screen, exchange, logout, cognito, overtaken>>
  /\ Settle(r, None)

\* It fails, for whatever reason.
RefreshFails(r) ==
  /\ refresh[r] # None
  /\ Clear
  /\ Settle(r, None)
  /\ UNCHANGED <<screen, exchange, logout, cognito, overtaken>>

\* Tokens live equally long, so they expire in the order they were issued.
Expire ==
  /\ expired < issued
  /\ expired' = expired + 1
  /\ UNCHANGED <<store, screen, exchange, logout, request, refreshVars, issued,
                 revoked, overtaken>>

-----------------------------------------------------------------------------
(***************************************************************************)
(* Signing in and logging out.                                             *)
(***************************************************************************)

\* The browser comes back with a code; its exchange begins.
StartExchange(u) ==
  /\ screen = "auth" /\ userId = None /\ u \notin exchange
  /\ exchange' = exchange \cup {u}
  /\ UNCHANGED <<store, screen, logout, request, refreshVars, cognito, overtaken>>

\* The exchange ends with tokens, which AuthLayout follows with a redirect;
\* or without, or without an e-mail address in them.
SignIn(u) ==
  /\ u \in exchange
  /\ exchange' = exchange \ {u}
  /\ \/ /\ Issue
        /\ userId' = u
        /\ accessToken' = NewToken(u)
        /\ refreshToken' \in {NewToken(u), None}
        /\ screen' = "wallet"
        /\ Overtakes
     \/ UNCHANGED <<store, screen, cognito, overtaken>>
  /\ UNCHANGED <<logout, request, refreshVars>>

\* handleLogout up to its first await: the token to revoke is read now.
TapLogout(l) ==
  /\ screen = "wallet" /\ logout[l].pc = "idle"
  /\ logout' = [logout EXCEPT ![l] =
       [pc |-> IF refreshToken = None THEN "browser" ELSE "revoke",
        token |-> refreshToken]]
  /\ UNCHANGED <<store, screen, exchange, request, refreshVars, cognito, overtaken>>

\* revokeAsync, whose failure is ignored; an unrevoked token also stands for
\* one that was revoked when the answer of its refresh was on the way.
Revoke(l) ==
  /\ logout[l].pc = "revoke"
  /\ logout' = [logout EXCEPT ![l].pc = "browser"]
  /\ revoked' \in {revoked, revoked \cup {logout[l].token}}
  /\ UNCHANGED <<store, screen, exchange, request, refreshVars, issued, expired,
                 overtaken>>

\* The Hosted UI's page closes, or did not open: the rest of handleLogout.
EndLogout(l) ==
  /\ logout[l].pc = "browser"
  /\ logout' = [logout EXCEPT ![l] = [pc |-> "idle", token |-> None]]
  /\ Clear
  /\ screen' = "auth"
  /\ Overtakes
  /\ UNCHANGED <<exchange, request, refreshVars, cognito>>

-----------------------------------------------------------------------------
EndRefresh(r) == RefreshSucceeds(r) \/ RefreshGivesNothing(r) \/ RefreshFails(r)

Next ==
  \/ \E r \in Requests : Send(r) \/ Answer(r) \/ Refused(r) \/ EndRefresh(r)
  \/ Expire
  \/ \E u \in Users : StartExchange(u) \/ SignIn(u)
  \/ \E l \in Taps : TapLogout(l) \/ Revoke(l) \/ EndLogout(l)

Spec == Init /\ [][Next]_vars

\* Every call is answered or fails, by the platform's timeout if by nothing
\* else.  Nothing is assumed of the user.
Fairness == \A r \in Requests :
  WF_vars(Answer(r)) /\ WF_vars(Refused(r)) /\ WF_vars(EndRefresh(r))
FairSpec == Spec /\ Fairness

-----------------------------------------------------------------------------
(***************************************************************************)
(* Properties.                                                             *)
(***************************************************************************)

\* Concurrent 401s share a refresh: there is never a second one pending,
\* and the promise the interceptor keeps is that of the pending one.
OneRefresh == \A r \in Requests : refresh[r] # None => refreshPromise = r

\* A request that goes out again has a token issued after the one that was
\* refused, also if the user has changed in between.
RetryHasNewerToken == \A r \in Requests :
  request[r].pc = "sent" /\ request[r].retried = "yes"
    => /\ request[r].token # None
       /\ request[r].refused # None => request[r].token.n > request[r].refused.n

\* The two tokens in the store are always of the same user, however late a
\* refresh ends.
TokensBelongTogether ==
  accessToken # None /\ refreshToken # None => accessToken.user = refreshToken.user

\* The tokens are those of the user who is signed in, and there are none
\* when nobody is, unless the session changed while a refresh was pending.
SessionIsOwn == ~overtaken =>
  \A t \in {accessToken, refreshToken} \ {None} : t.user = userId

\* Logging out clears the local state (the comment of signOutFromCognito:
\* "local state is cleared by the caller regardless"): when nobody is signed
\* in, no token is left.
SignedOutIsEmpty == userId = None => accessToken = None /\ refreshToken = None

\* Every request comes to an end, those that wait for a refresh too.
RequestsEnd == \A r \in Requests :
  request[r].pc = "sent" ~> request[r].pc \in {"done", "failed"}
=============================================================================
