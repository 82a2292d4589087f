---------------------------- MODULE FrontendAuth ----------------------------
(***************************************************************************)
(* The session of one browser tab: frontend/src/lib/auth.ts (the access    *)
(* token in memory and the single-flight refresh), lib/api.ts (refresh and *)
(* retry after a 401) and app/providers.tsx (boot, login, logout).         *)
(*                                                                         *)
(* An action is one turn of the event loop with all the promise callbacks  *)
(* it triggers.  An exchange with the auth endpoints is sent, its headers  *)
(* arrive (the browser stores the cookie then), and its body arrives.  The *)
(* server keeps no session: it answers from the token it is given, and may *)
(* find any token expired.                                                 *)
(***************************************************************************)
EXTENDS Naturals, FiniteSets

CONSTANTS Users,      \* people who log in
          Calls,      \* requests made through the api client
          WithBody,   \* those of them that have a body
          Refreshes,  \* POST /auth/refresh exchanges
          Logins,     \* POST /auth/login exchanges
          Logouts,    \* POST /auth/logout exchanges
          Boot,       \* the boot-time refresh, as an awaiting party
          Nobody,     \* no cookie
          Null,       \* null
          Broken      \* a promise that was rejected

ASSUME NamesAssumption ==
    Boot \notin Calls /\ Nobody \notin Users /\ Null \notin Refreshes
ASSUME WithBodyAssumption == WithBody \subseteq Calls
ASSUME ExchangesAssumption ==
    /\ Refreshes \cap Logins = {}
    /\ Refreshes \cap Logouts = {}
    /\ Logins \cap Logouts = {}

VARIABLES accessToken,      \* the token in memory
          refreshInFlight,  \* the shared refresh
          cookie,           \* whose refresh token the browser's cookie holds
          stage,            \* stage[x]: how far exchange x is
          who,              \* who[x]: the cookie or the user x was sent with
          call,             \* call[q]: how far request q is
          carried,          \* carried[q]: the token q was first sent with
          retry,            \* retry[q]: the token in the headers of the retry
          awaiting,         \* awaiting[p]: the refresh that p awaits
          authenticated,    \* the state of the provider
          ready,
          loggedOut,        \* history: a logout was answered, no login since
          crossed           \* history: a login or logout overlapped another
                            \* exchange, or broke between headers and body

auth == <<accessToken, refreshInFlight, cookie>>
exchanges == <<stage, who>>
requests == <<call, carried, retry>>
provider == <<authenticated, ready>>
history == <<loggedOut, crossed>>
vars == <<auth, exchanges, requests, awaiting, provider, history>>

Exchanges == Refreshes \cup Logins \cup Logouts

(* A token is known by its user and by the exchange that delivered it. *)
Token == [user : Users, by : Refreshes \cup Logins]

(* A settled refresh is a token, null or a rejection, and never two of them. *)
ASSUME ResultsAssumption == Null \notin Token /\ Broken \notin Token \cup {Null}

Init ==
    /\ accessToken = Null
    /\ refreshInFlight = Null
    /\ cookie \in Users \cup {Nobody}
    /\ stage = [x \in Exchanges |-> "new"]
    /\ who = [x \in Exchanges |-> Nobody]
    /\ call = [q \in Calls |-> "new"]
    /\ carried = [q \in Calls |-> Null]
    /\ retry = [q \in Calls |-> Null]
    /\ awaiting = [p \in Calls \cup {Boot} |-> Null]
    /\ authenticated = FALSE
    /\ ready = FALSE
    /\ loggedOut = FALSE
    /\ crossed = FALSE

Outstanding == {x \in Exchanges : stage[x] \in {"sent", "headers"}}

Reach(x, s) == stage' = [stage EXCEPT ![x] = s]

-----------------------------------------------------------------------------
(* refreshAccessToken, called by p. *)

(* The next exchange; they are used in a fixed order. *)
Fresh == CHOOSE r \in Refreshes : stage[r] = "new"

StartRefresh(r) ==
    /\ stage[r] = "new" /\ r = Fresh /\ Reach(r, "sent")
    /\ refreshInFlight' = r
    /\ who' = [who EXCEPT ![r] = cookie]
    /\ crossed' = (crossed \/ Outstanding \ Refreshes # {})

JoinRefresh(r) ==
    /\ refreshInFlight = r
    /\ UNCHANGED <<refreshInFlight, exchanges, crossed>>

(* Mutant: nobody looks for a refresh in flight. *)
RefreshAccessToken_Each(p, r) ==
    /\ StartRefresh(r)
    /\ awaiting' = [awaiting EXCEPT ![p] = r]

RefreshAccessToken(p, r) ==
    /\ IF refreshInFlight = Null THEN StartRefresh(r) ELSE JoinRefresh(r)
    /\ awaiting' = [awaiting EXCEPT ![p] = r]

(* fetch refuses a Request whose body an earlier fetch has used. *)
Retry(q) == IF q \in WithBody THEN "threw" ELSE "retried"

(* Mutant: a failed refresh leaves the ones that await it alone. *)
After_Hangs(q, result) ==
    CASE result = Broken -> call[q]
      [] result = Null -> "refused"
      [] OTHER -> Retry(q)

(* Where a request that awaited the refresh goes with its result. *)
After(q, result) ==
    CASE result = Broken -> "failed"
      [] result = Null -> "refused"
      [] OTHER -> Retry(q)

(* Mutant: a settled refresh stays in refreshInFlight. *)
Forget_Never(r) == refreshInFlight' = r

(* finally: refreshInFlight = null *)
Forget(r) == refreshInFlight' = Null

(* Mutant: ready is set only when the boot-time refresh has an answer. *)
BootDone_OnAnswer(r, result) == awaiting[Boot] = r /\ result # Broken

BootDone(r, result) == awaiting[Boot] = r

(* Mutant: the headers of the refused request are copied and kept. *)
Bearer_Copied(q, result) == carried[q]

Bearer(q, result) == result

(* The shared promise settles; everybody who awaits it continues. *)
Settle(r, result) ==
    /\ Forget(r)
    /\ Reach(r, "over")
    /\ call' = [q \in Calls |-> IF awaiting[q] = r THEN After(q, result) ELSE call[q]]
    /\ retry' = [q \in Calls |-> IF awaiting[q] = r /\ result \in Token
                                   THEN Bearer(q, result) ELSE retry[q]]
    /\ awaiting' = [p \in Calls \cup {Boot} |-> IF awaiting[p] = r THEN Null
                                                            ELSE awaiting[p]]
    /\ ready' = (ready \/ BootDone(r, result))
    /\ authenticated' = IF awaiting[Boot] = r /\ result # Broken
                          THEN result # Null ELSE authenticated
    /\ UNCHANGED <<who, carried, history>>

(* 200: the new cookie is stored while the body is still on its way. *)
RefreshHeaders(r) ==
    /\ stage[r] = "sent" /\ who[r] # Nobody
    /\ cookie' = who[r]
    /\ Reach(r, "headers")
    /\ UNCHANGED <<accessToken, refreshInFlight, who, requests, awaiting,
                   provider, history>>

RefreshBody(r) ==
    /\ stage[r] = "headers"
    /\ accessToken' = [user |-> who[r], by |-> r]
    /\ Settle(r, accessToken')
    /\ UNCHANGED cookie

(* !res.ok: no cookie was sent, its token has expired, or the server failed. *)
RefreshRefused(r) ==
    /\ stage[r] = "sent"
    /\ accessToken' = Null
    /\ Settle(r, Null)
    /\ UNCHANGED cookie

(* fetch or res.json() rejects. *)
RefreshBreaks(r) ==
    /\ stage[r] \in {"sent", "headers"}
    /\ Settle(r, Broken)
    /\ UNCHANGED <<accessToken, cookie>>

-----------------------------------------------------------------------------
(* The effect of Providers, once; the second run that StrictMode adds in
   development joins the same promise. *)
BootstrapSession(r) ==
    /\ ~ready /\ awaiting[Boot] = Null
    /\ RefreshAccessToken(Boot, r)
    /\ UNCHANGED <<accessToken, cookie, requests, provider, loggedOut>>

(* login and logout of the provider; nothing disables their buttons. *)
LoginSend(l, u) ==
    /\ stage[l] = "new" /\ Reach(l, "sent")
    /\ who' = [who EXCEPT ![l] = u]
    /\ loggedOut' = FALSE
    /\ crossed' = (crossed \/ Outstanding # {})
    /\ UNCHANGED <<auth, requests, awaiting, provider>>

LoginHeaders(l) ==
    /\ stage[l] = "sent" /\ Reach(l, "headers")
    /\ cookie' = who[l]
    /\ UNCHANGED <<accessToken, refreshInFlight, who, requests, awaiting,
                   provider, history>>

(* Mutant: a token that is still in memory is kept. *)
Stored_First(l) ==
    IF accessToken = Null THEN [user |-> who[l], by |-> l] ELSE accessToken

Stored(l) == [user |-> who[l], by |-> l]

LoginBody(l) ==
    /\ stage[l] = "headers" /\ Reach(l, "over")
    /\ accessToken' = Stored(l)
    /\ authenticated' = TRUE
    /\ UNCHANGED <<refreshInFlight, cookie, who, requests, awaiting, ready,
                   history>>

(* !res.ok, or fetch or res.json() rejects: login throws. *)
LoginFails(l) ==
    /\ stage[l] \in {"sent", "headers"} /\ Reach(l, "over")
    /\ crossed' = (crossed \/ stage[l] = "headers")
    /\ UNCHANGED <<auth, who, requests, awaiting, provider, loggedOut>>

LogoutSend(o) ==
    /\ stage[o] = "new" /\ Reach(o, "sent")
    /\ accessToken' = Null
    /\ crossed' = (crossed \/ Outstanding # {})
    /\ UNCHANGED <<refreshInFlight, cookie, who, requests, awaiting, provider,
                   loggedOut>>

(* Mutant: the cookie is deleted under another path. *)
DeleteCookie_OtherPath == cookie' = cookie

DeleteCookie == cookie' = Nobody

LogoutAnswered(o) ==
    /\ stage[o] = "sent" /\ Reach(o, "over")
    /\ DeleteCookie
    /\ authenticated' = FALSE
    /\ loggedOut' = TRUE
    /\ UNCHANGED <<accessToken, refreshInFlight, who, requests, awaiting,
                   ready, crossed>>

(* The status is not looked at: an error page ends the session of the
   provider and leaves the cookie. *)
LogoutErrors(o) ==
    /\ stage[o] = "sent" /\ Reach(o, "over")
    /\ authenticated' = FALSE
    /\ UNCHANGED <<auth, who, requests, awaiting, ready, history>>

(* fetch rejects: logout throws. *)
LogoutBreaks(o) ==
    /\ stage[o] = "sent" /\ Reach(o, "over")
    /\ UNCHANGED <<auth, who, requests, awaiting, provider, history>>

-----------------------------------------------------------------------------
(* A request of a protected page.  The client itself sends whenever it is asked
   to; the pages that will ask it are routed behind RequireAuth, which shows them
   only to an authenticated user after the boot. *)
Send(q) ==
    /\ call[q] = "new"
    /\ ready /\ authenticated
    /\ call' = [call EXCEPT ![q] = "sent"]
    /\ carried' = [carried EXCEPT ![q] = accessToken]
    /\ UNCHANGED <<auth, exchanges, retry, awaiting, provider, history>>

(* Any status but 401, or no answer at all. *)
Answered(q) ==
    /\ call[q] \in {"sent", "retried"}
    /\ \/ call' = [call EXCEPT ![q] = "failed"]
       \/ call[q] = "sent" /\ carried[q] # Null /\ call' = [call EXCEPT ![q] = "done"]
       \/ call[q] = "retried" /\ call' = [call EXCEPT ![q] = "done"]
       \/ call[q] = "retried" /\ call' = [call EXCEPT ![q] = "refused"]
    /\ UNCHANGED <<auth, exchanges, carried, retry, awaiting, provider,
                   history>>

(* 401: onResponse awaits the refresh. *)
Unauthorized(q, r) ==
    /\ call[q] = "sent"
    /\ RefreshAccessToken(q, r)
    /\ call' = [call EXCEPT ![q] = "waiting"]
    /\ UNCHANGED <<accessToken, cookie, carried, retry, provider,
                   loggedOut>>

-----------------------------------------------------------------------------
Next ==
    \/ \E r \in Refreshes :
          \/ BootstrapSession(r)
          \/ RefreshHeaders(r)
          \/ RefreshBody(r)
          \/ RefreshRefused(r)
          \/ RefreshBreaks(r)
          \/ \E q \in Calls : Unauthorized(q, r)
    \/ \E l \in Logins :
          \/ \E u \in Users : LoginSend(l, u)
          \/ LoginHeaders(l)
          \/ LoginBody(l)
          \/ LoginFails(l)
    \/ \E o \in Logouts :
          \/ LogoutSend(o)
          \/ LogoutAnswered(o)
          \/ LogoutErrors(o)
          \/ LogoutBreaks(o)
    \/ \E q \in Calls : Send(q) \/ Answered(q)

Spec == Init /\ [][Next]_vars

(* The effect of Providers runs, and the browser ends every exchange with an
   answer or an error. *)
Fairness ==
    /\ WF_vars(\E r \in Refreshes : BootstrapSession(r))
    /\ \A r \in Refreshes :
          WF_vars(RefreshHeaders(r) \/ RefreshBody(r) \/ RefreshRefused(r)
                  \/ RefreshBreaks(r))
    /\ \A q \in Calls :
          WF_vars(Answered(q) \/ \E r \in Refreshes : Unauthorized(q, r))

FairSpec == Spec /\ Fairness

-----------------------------------------------------------------------------
(* The shape of every variable. *)
TypeOK ==
    /\ accessToken \in Token \cup {Null}
    /\ refreshInFlight \in Refreshes \cup {Null}
    /\ cookie \in Users \cup {Nobody}
    /\ stage \in [Exchanges -> {"new", "sent", "headers", "over"}]
    /\ who \in [Exchanges -> Users \cup {Nobody}]
    /\ call \in [Calls -> {"new", "sent", "waiting", "retried", "done",
                           "refused", "threw", "failed"}]
    /\ carried \in [Calls -> Token \cup {Null}]
    /\ retry \in [Calls -> Token \cup {Null}]
    /\ awaiting \in [Calls \cup {Boot} -> Refreshes \cup {Null}]
    /\ {authenticated, ready, loggedOut, crossed} \subseteq BOOLEAN
    /\ \A q \in Calls : call[q] = "waiting" <=> awaiting[q] # Null

(* No stampede: one refresh is under way at any time, it is the one in
   refreshInFlight, and everybody who awaits a refresh awaits that one. *)
OneRefreshAtATime ==
    /\ Outstanding \cap Refreshes =
          IF refreshInFlight = Null THEN {} ELSE {refreshInFlight}
    /\ \A p \in Calls \cup {Boot} : awaiting[p] \in {Null, refreshInFlight}

(* The retry after a 401 never repeats the token that was refused, also when
   the 401 arrives after the refresh that others started has settled. *)
RetryCarriesAnotherToken ==
    \A q \in Calls : retry[q] # Null => retry[q] # carried[q]

(* While logins and logouts keep clear of other exchanges, the tab and the
   browser agree on whose session it is: a token in memory belongs to the
   user of the cookie. *)
TokenFollowsCookie ==
    ~crossed /\ Outstanding \cap Logins = {} /\ accessToken # Null
        => accessToken.user = cookie

(* While logins and logouts keep clear of other exchanges, a logout that was
   answered lasts: no late 401 and no refresh brings the session back before
   the next login. *)
LogoutLasts == loggedOut /\ ~crossed => accessToken = Null /\ cookie = Nobody

(* The spinner of the protected routes goes away, whatever the boot-time
   refresh comes to. *)
BootEnds == <>ready

(* Every request ends, also one that awaits a refresh somebody else started. *)
CallsEnd == \A q \in Calls : call[q] = "sent" ~> call[q] \in
                {"done", "refused", "threw", "failed"}

(* A request that was answered 401 and has a new token is sent again. *)
RefusedCallsAreRetried == \A q \in Calls : call[q] # "threw"
=============================================================================
