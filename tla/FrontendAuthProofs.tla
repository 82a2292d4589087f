------------------------- MODULE FrontendAuthProofs -------------------------
(***************************************************************************)
(* The session of a tab for every set of users, requests and exchanges.    *)
(***************************************************************************)
EXTENDS FrontendAuth, TLAPS

(* An exchange that may set the cookie was sent for a known user. *)
SendersKnown ==
    /\ \A r \in Refreshes : stage[r] = "headers" => who[r] \in Users
    /\ \A l \in Logins : stage[l] # "new" => who[l] \in Users

(* A token comes from an exchange that is over, so a refresh under way delivers
   one that nobody carries. *)
TokensDelivered ==
    /\ accessToken # Null => stage[accessToken.by] = "over"
    /\ \A q \in Calls : carried[q] # Null => stage[carried[q].by] = "over"
    /\ \A q \in Calls : call[q] = "new" => retry[q] = Null

(* An exchange that changes the session is alone. *)
SessionChangesAlone ==
    \A x \in Logins \cup Logouts : x \in Outstanding => Outstanding = {x}

(* A refresh under way was sent with the cookie there still is. *)
RefreshesFollowCookie == \A r \in Refreshes : r \in Outstanding => who[r] = cookie

(* From its headers on the cookie is that of the login; before, it is that of
   the token in memory. *)
LoginsFollowCookie ==
    IF \E l \in Logins : stage[l] = "headers"
      THEN \A l \in Logins : stage[l] = "headers" => who[l] = cookie
      ELSE accessToken # Null => accessToken.user = cookie

(* The token is dropped before the cookie, and neither is replaced but by a login. *)
LogoutsDropToken ==
    /\ \A o \in Logouts : stage[o] = "sent" => accessToken = Null
    /\ loggedOut => accessToken = Null /\ cookie = Nobody /\ Outstanding \cap Logins = {}

Uncrossed ==
    /\ SessionChangesAlone
    /\ RefreshesFollowCookie
    /\ LoginsFollowCookie
    /\ LogoutsDropToken

SessionInv ==
    /\ TypeOK
    /\ OneRefreshAtATime
    /\ SendersKnown
    /\ TokensDelivered
    /\ RetryCarriesAnotherToken
    /\ ~crossed => Uncrossed

LEMMA SessionInit == Init => SessionInv
BY NamesAssumption DEF Init, SessionInv, TypeOK, OneRefreshAtATime, SendersKnown, TokensDelivered,
   RetryCarriesAnotherToken, Uncrossed, SessionChangesAlone, RefreshesFollowCookie,
   LoginsFollowCookie, LogoutsDropToken, Outstanding, Exchanges

(* The three kinds of exchange are told apart. *)
LEMMA KindsDiffer ==
  /\ \A r \in Refreshes : r \in Exchanges /\ r \notin Logins /\ r \notin Logouts
  /\ \A l \in Logins : l \in Exchanges /\ l \notin Refreshes /\ l \notin Logouts
  /\ \A o \in Logouts : o \in Exchanges /\ o \notin Refreshes /\ o \notin Logins
BY ExchangesAssumption DEF Exchanges

-----------------------------------------------------------------------------
(* The shared refresh *)

LEMMA RefreshAccessTokenStep ==
  ASSUME SessionInv, NEW r \in Refreshes, NEW p \in Calls \cup {Boot},
         RefreshAccessToken(p, r), awaiting[p] = Null,
         UNCHANGED <<accessToken, cookie, carried, retry, provider, loggedOut>>,
         IF p = Boot THEN call' = call
                     ELSE call[p] = "sent" /\ call' = [call EXCEPT ![p] = "waiting"]
  PROVE  SessionInv'
<1> USE KindsDiffer, NamesAssumption DEF SessionInv, RefreshAccessToken, JoinRefresh, StartRefresh,
    Reach, exchanges, provider
<1>1. TypeOK'
  <2>1. \A q \in Calls : call'[q] = "waiting" <=> awaiting'[q] # Null
    BY DEF TypeOK
  <2>2. /\ stage' \in [Exchanges -> {"new", "sent", "headers", "over"}]
        /\ who' \in [Exchanges -> Users \cup {Nobody}]
        /\ refreshInFlight' \in Refreshes \cup {Null}
    BY DEF TypeOK
  <2>3. crossed' \in BOOLEAN
    BY DEF TypeOK
  <2>4. /\ awaiting' \in [Calls \cup {Boot} -> Refreshes \cup {Null}]
        /\ call' \in [Calls -> {"new", "sent", "waiting", "retried", "done", "refused", "threw",
                                "failed"}]
    BY DEF TypeOK
  <2> QED
    BY <2>1, <2>2, <2>3, <2>4 DEF TypeOK
<1>2. OneRefreshAtATime'
  BY DEF TypeOK, OneRefreshAtATime, Outstanding
<1>3. SendersKnown'
  BY DEF TypeOK, SendersKnown
<1>4. TokensDelivered' /\ RetryCarriesAnotherToken'
  BY DEF TypeOK, TokensDelivered, RetryCarriesAnotherToken, Token, Exchanges
<1>5. ASSUME ~crossed' PROVE Uncrossed'
  <2>1. CASE refreshInFlight = Null
    <3>1. ~crossed /\ Outstanding \ Refreshes = {}
      BY <1>5, <2>1 DEF TypeOK
    <3>2. Outstanding' = Outstanding \cup {r}
      BY <2>1 DEF TypeOK, Outstanding
    <3>3. \A x \in Logins \cup Logouts : stage'[x] = stage[x] /\ x \notin Outstanding
      BY <2>1, <3>1 DEF TypeOK
    <3>4. SessionChangesAlone' /\ RefreshesFollowCookie'
      BY <2>1, <3>1, <3>2, <3>3
         DEF TypeOK, Uncrossed, SessionChangesAlone, RefreshesFollowCookie, Outstanding
    <3>5. LoginsFollowCookie' /\ LogoutsDropToken'
      BY <2>1, <3>1, <3>2, <3>3
         DEF TypeOK, Uncrossed, LoginsFollowCookie, LogoutsDropToken, Outstanding
    <3> QED
      BY <3>4, <3>5 DEF Uncrossed
  <2>2. CASE refreshInFlight # Null
    BY <1>5, <2>2 DEF Uncrossed, SessionChangesAlone, RefreshesFollowCookie, LoginsFollowCookie,
       LogoutsDropToken, Outstanding
  <2> QED
    BY <2>1, <2>2
<1> QED
  BY <1>1, <1>2, <1>3, <1>4, <1>5

LEMMA BootstrapSessionStep ==
  ASSUME SessionInv, NEW r \in Refreshes, BootstrapSession(r)
  PROVE  SessionInv'
BY RefreshAccessTokenStep DEF BootstrapSession, requests

LEMMA UnauthorizedStep ==
  ASSUME SessionInv, NEW r \in Refreshes, NEW q \in Calls, Unauthorized(q, r)
  PROVE  SessionInv'
<1>1. awaiting[q] = Null /\ q # Boot
  BY NamesAssumption DEF SessionInv, TypeOK, Unauthorized
<1> QED
  BY <1>1, RefreshAccessTokenStep DEF Unauthorized

LEMMA RefreshHeadersStep ==
  ASSUME SessionInv, NEW r \in Refreshes, RefreshHeaders(r)
  PROVE  SessionInv'
<1> USE KindsDiffer DEF SessionInv, RefreshHeaders, Reach, requests, provider, history
<1>1. TypeOK'
  BY DEF TypeOK
<1>2. Outstanding' = Outstanding
  BY DEF TypeOK, Outstanding
<1>3. OneRefreshAtATime'
  BY <1>2 DEF OneRefreshAtATime
<1>4. SendersKnown'
  BY DEF TypeOK, SendersKnown
<1>5. TokensDelivered' /\ RetryCarriesAnotherToken'
  BY DEF TypeOK, TokensDelivered, RetryCarriesAnotherToken, Token, Exchanges
<1>6. ASSUME ~crossed PROVE Uncrossed'
  <2>1. r \in Outstanding /\ who[r] = cookie
    BY <1>6 DEF TypeOK, Uncrossed, RefreshesFollowCookie, Outstanding
  <2>2. \A x \in Logins \cup Logouts : stage'[x] = stage[x] /\ x \notin Outstanding
    BY <1>6, <2>1 DEF TypeOK, Uncrossed, SessionChangesAlone
  <2> QED
    BY <1>2, <1>6, <2>1, <2>2 DEF Uncrossed, SessionChangesAlone, RefreshesFollowCookie,
       LoginsFollowCookie, LogoutsDropToken
<1> QED
  BY <1>1, <1>3, <1>4, <1>5, <1>6

(* The promise settles with a token of its own, with null or with a rejection. *)
LEMMA SettleStep ==
  ASSUME SessionInv, NEW r \in Refreshes, NEW result \in Token \cup {Null, Broken},
         r \in Outstanding, Settle(r, result), UNCHANGED cookie,
         result \in Token => result.by = r /\ (~crossed => result.user = cookie),
         accessToken' = IF result = Broken THEN accessToken ELSE result,
         loggedOut /\ ~crossed => accessToken' = Null
  PROVE  SessionInv'
<1> USE KindsDiffer, NamesAssumption, ResultsAssumption
    DEF SessionInv, Settle, Forget, Reach, history
<1>0. stage[r] \in {"sent", "headers"} /\ refreshInFlight = r
  BY DEF Outstanding, OneRefreshAtATime
<1>a. \A p \in Calls \cup {Boot} : awaiting'[p] = Null
  BY <1>0 DEF OneRefreshAtATime
<1>b. Outstanding' = Outstanding \ {r}
  BY <1>0 DEF TypeOK, Outstanding
<1>1. TypeOK'
  <2>1. call' \in [Calls -> {"new", "sent", "waiting", "retried", "done", "refused", "threw", "failed"}]
    BY DEF TypeOK, After, Retry
  <2>2. retry' \in [Calls -> Token \cup {Null}]
    BY DEF TypeOK, Bearer
  <2>3. \A q \in Calls : call'[q] # "waiting"
    BY <1>0 DEF TypeOK, OneRefreshAtATime, After, Retry
  <2>4. awaiting' \in [Calls \cup {Boot} -> Refreshes \cup {Null}]
    BY DEF TypeOK
  <2>5. {authenticated', ready'} \subseteq BOOLEAN
    BY DEF TypeOK, BootDone
  <2>6. stage' \in [Exchanges -> {"new", "sent", "headers", "over"}]
    BY DEF TypeOK
  <2> QED
    BY <1>a, <2>1, <2>2, <2>3, <2>4, <2>5, <2>6 DEF TypeOK
<1>2. OneRefreshAtATime'
  BY <1>0, <1>a, <1>b DEF OneRefreshAtATime
<1>3. SendersKnown'
  BY DEF TypeOK, SendersKnown
<1>4. TokensDelivered'
  <2>1. \A x \in Exchanges : stage[x] = "over" => stage'[x] = "over"
    BY DEF TypeOK
  <2>2. accessToken' # Null => stage'[accessToken'.by] = "over"
    BY <2>1 DEF TypeOK, TokensDelivered, Token, Exchanges
  <2>3. \A q \in Calls : carried'[q] # Null => stage'[carried'[q].by] = "over"
    BY <2>1 DEF TypeOK, TokensDelivered, Token, Exchanges
  <2>4. \A q \in Calls : call'[q] = "new" => retry'[q] = Null
    BY <1>0 DEF TypeOK, TokensDelivered, After, Retry
  <2> QED
    BY <2>2, <2>3, <2>4 DEF TokensDelivered
<1>5. RetryCarriesAnotherToken'
  <2> SUFFICES ASSUME NEW q \in Calls, retry'[q] # Null PROVE retry'[q] # carried[q]
    BY DEF RetryCarriesAnotherToken
  <2>1. CASE awaiting[q] = r /\ result \in Token
    BY <1>0, <2>1 DEF TypeOK, Bearer, TokensDelivered
  <2>2. CASE ~(awaiting[q] = r /\ result \in Token)
    BY <2>2 DEF RetryCarriesAnotherToken
  <2> QED
    BY <2>1, <2>2
<1>6. ASSUME ~crossed PROVE Uncrossed'
  <2>1. \A x \in Logins \cup Logouts : stage'[x] = stage[x] /\ x \notin Outstanding
    BY <1>6 DEF TypeOK, Uncrossed, SessionChangesAlone
  <2>2. \A x \in Logins \cup Logouts : stage[x] \notin {"sent", "headers"}
    BY <2>1 DEF Outstanding, Exchanges
  <2>3. SessionChangesAlone' /\ RefreshesFollowCookie'
    BY <1>6, <1>b, <2>1 DEF Uncrossed, SessionChangesAlone, RefreshesFollowCookie
  <2>4. LoginsFollowCookie' /\ LogoutsDropToken'
    BY <1>6, <1>b, <2>1, <2>2 DEF Uncrossed, LoginsFollowCookie, LogoutsDropToken
  <2> QED
    BY <2>3, <2>4 DEF Uncrossed
<1> QED
  BY <1>1, <1>2, <1>3, <1>4, <1>5, <1>6

LEMMA RefreshBodyStep ==
  ASSUME SessionInv, NEW r \in Refreshes, RefreshBody(r)
  PROVE  SessionInv'
<1> DEFINE result == [user |-> who[r], by |-> r]
<1>1. r \in Outstanding /\ who[r] \in Users
  BY DEF SessionInv, SendersKnown, RefreshBody, Outstanding, Exchanges
<1>2. result \in Token
  BY <1>1 DEF Token
<1>3. ~crossed => who[r] = cookie /\ cookie # Nobody
  BY <1>1, NamesAssumption DEF SessionInv, Uncrossed, RefreshesFollowCookie
<1>4. loggedOut => crossed
  BY <1>3 DEF SessionInv, Uncrossed, LogoutsDropToken
<1>5. accessToken' = result /\ Settle(r, result) /\ UNCHANGED cookie
  BY DEF RefreshBody
<1>6. result # Broken
  BY <1>2, ResultsAssumption
<1> QED
  BY <1>1, <1>2, <1>3, <1>4, <1>5, <1>6, SettleStep

LEMMA RefreshEndsStep ==
  ASSUME SessionInv, NEW r \in Refreshes, RefreshRefused(r) \/ RefreshBreaks(r)
  PROVE  SessionInv'
<1>1. r \in Outstanding
  BY DEF RefreshRefused, RefreshBreaks, Outstanding, Exchanges
<1>2. CASE RefreshRefused(r)
  BY <1>1, <1>2, SettleStep, ResultsAssumption DEF RefreshRefused
<1>3. CASE RefreshBreaks(r)
  BY <1>1, <1>3, SettleStep, ResultsAssumption
     DEF RefreshBreaks, SessionInv, Uncrossed, LogoutsDropToken
<1> QED
  BY <1>2, <1>3

-----------------------------------------------------------------------------
(* Login and logout *)

(* What holds of refreshes and requests after a step of a login or logout x. *)
LEMMA OtherExchangeFrame ==
  ASSUME SessionInv, NEW x \in Logins \cup Logouts, NEW s \in {"sent", "headers", "over"},
         Reach(x, s), UNCHANGED <<refreshInFlight, requests, awaiting, ready>>,
         stage[x] # "over",
         accessToken' \in {accessToken, Null} \/ (accessToken'.by = x /\ s = "over")
  PROVE  OneRefreshAtATime' /\ TokensDelivered' /\ RetryCarriesAnotherToken'
<1> USE KindsDiffer DEF SessionInv, Reach, requests
<1>1. Outstanding' \cap Refreshes = Outstanding \cap Refreshes
  BY DEF TypeOK, Outstanding
<1>2. OneRefreshAtATime' /\ RetryCarriesAnotherToken'
  BY <1>1 DEF OneRefreshAtATime, RetryCarriesAnotherToken
<1>3. \A y \in Exchanges : stage[y] = "over" => stage'[y] = "over"
  BY DEF TypeOK
<1>4. stage'[x] = s
  BY DEF TypeOK
<1>5. TokensDelivered'
  BY <1>3, <1>4 DEF TypeOK, TokensDelivered, Token, Exchanges
<1> QED
  BY <1>2, <1>5

LEMMA LoginSendStep ==
  ASSUME SessionInv, NEW l \in Logins, NEW u \in Users, LoginSend(l, u)
  PROVE  SessionInv'
<1> USE KindsDiffer DEF SessionInv, LoginSend
<1>1. TypeOK'
  BY DEF TypeOK, Reach, auth, requests, provider
<1>2. OneRefreshAtATime' /\ TokensDelivered' /\ RetryCarriesAnotherToken'
  BY OtherExchangeFrame DEF auth, provider
<1>3. SendersKnown'
  BY DEF TypeOK, SendersKnown, Reach
<1>4. ASSUME ~crossed' PROVE Uncrossed'
  <2>1. ~crossed /\ Outstanding = {} /\ Outstanding' = {l}
    BY <1>4 DEF TypeOK, Outstanding, Reach
  <2>2. \A x \in Exchanges \ {l} : stage'[x] \notin {"sent", "headers"}
    BY <2>1 DEF Outstanding
  <2>3. stage'[l] = "sent" /\ ~loggedOut'
    BY DEF TypeOK, Reach
  <2>4. accessToken # Null => accessToken.user = cookie
    BY <2>1 DEF Uncrossed, LoginsFollowCookie, Outstanding
  <2> QED
    BY <2>1, <2>2, <2>3, <2>4 DEF Uncrossed, SessionChangesAlone, RefreshesFollowCookie,
       LoginsFollowCookie, LogoutsDropToken, auth
<1> QED
  BY <1>1, <1>2, <1>3, <1>4

LEMMA LoginHeadersStep ==
  ASSUME SessionInv, NEW l \in Logins, LoginHeaders(l)
  PROVE  SessionInv'
<1> USE KindsDiffer DEF SessionInv, LoginHeaders
<1>1. TypeOK'
  BY DEF TypeOK, Reach, requests, provider, history
<1>2. OneRefreshAtATime' /\ TokensDelivered' /\ RetryCarriesAnotherToken'
  BY OtherExchangeFrame DEF provider
<1>3. SendersKnown'
  BY DEF TypeOK, SendersKnown, Reach
<1>4. ASSUME ~crossed PROVE Uncrossed'
  <2>1. Outstanding = {l} /\ Outstanding' = {l}
    BY <1>4 DEF TypeOK, Outstanding, Reach, Uncrossed, SessionChangesAlone
  <2>2. \A x \in Exchanges \ {l} : stage'[x] \notin {"sent", "headers"}
    BY <2>1 DEF Outstanding
  <2>3. stage'[l] = "headers" /\ ~loggedOut
    BY <1>4, <2>1 DEF TypeOK, Reach, Uncrossed, LogoutsDropToken
  <2> QED
    BY <2>1, <2>2, <2>3 DEF Uncrossed, SessionChangesAlone, RefreshesFollowCookie,
       LoginsFollowCookie, LogoutsDropToken, history
<1> QED
  BY <1>1, <1>2, <1>3, <1>4 DEF history

LEMMA LoginBodyStep ==
  ASSUME SessionInv, NEW l \in Logins, LoginBody(l)
  PROVE  SessionInv'
<1> USE KindsDiffer DEF SessionInv, LoginBody
<1>0. Stored(l) \in Token /\ Stored(l).by = l /\ Stored(l).user = who[l]
  BY DEF SendersKnown, Stored, Token
<1>1. TypeOK'
  BY <1>0 DEF TypeOK, Reach, requests, history
<1>2. OneRefreshAtATime' /\ TokensDelivered' /\ RetryCarriesAnotherToken'
  BY <1>0, OtherExchangeFrame
<1>3. SendersKnown'
  BY DEF TypeOK, SendersKnown, Reach
<1>4. ASSUME ~crossed PROVE Uncrossed'
  <2>1. Outstanding = {l} /\ Outstanding' = {}
    BY <1>4 DEF TypeOK, Outstanding, Reach, Uncrossed, SessionChangesAlone
  <2>2. \A x \in Exchanges : stage'[x] \notin {"sent", "headers"}
    BY <2>1 DEF Outstanding
  <2>3. who[l] = cookie /\ ~loggedOut
    BY <1>4, <2>1 DEF Uncrossed, LoginsFollowCookie, LogoutsDropToken
  <2> QED
    BY <1>0, <2>1, <2>2, <2>3 DEF Uncrossed, SessionChangesAlone, RefreshesFollowCookie,
       LoginsFollowCookie, LogoutsDropToken, history
<1> QED
  BY <1>1, <1>2, <1>3, <1>4 DEF history

LEMMA LoginFailsStep ==
  ASSUME SessionInv, NEW l \in Logins, LoginFails(l)
  PROVE  SessionInv'
<1> USE KindsDiffer DEF SessionInv, LoginFails
<1>1. TypeOK'
  BY DEF TypeOK, Reach, auth, requests, provider
<1>2. OneRefreshAtATime' /\ TokensDelivered' /\ RetryCarriesAnotherToken'
  BY OtherExchangeFrame DEF auth, provider
<1>3. SendersKnown'
  BY DEF TypeOK, SendersKnown, Reach
<1>4. ASSUME ~crossed' PROVE Uncrossed'
  <2>0. ~crossed /\ stage[l] = "sent"
    BY <1>4 DEF TypeOK
  <2>1. Outstanding = {l} /\ Outstanding' = {}
    BY <2>0 DEF TypeOK, Outstanding, Reach, Uncrossed, SessionChangesAlone
  <2>2. \A x \in Exchanges : stage'[x] \notin {"sent", "headers"} /\ stage[x] # "headers"
    BY <2>0, <2>1 DEF Outstanding
  <2>3. accessToken # Null => accessToken.user = cookie
    BY <2>0, <2>1, <2>2 DEF Uncrossed, LoginsFollowCookie
  <2> QED
    BY <2>0, <2>1, <2>2, <2>3 DEF Uncrossed, SessionChangesAlone, RefreshesFollowCookie,
       LoginsFollowCookie, LogoutsDropToken, auth
<1> QED
  BY <1>1, <1>2, <1>3, <1>4

LEMMA LogoutSendStep ==
  ASSUME SessionInv, NEW o \in Logouts, LogoutSend(o)
  PROVE  SessionInv'
<1> USE KindsDiffer DEF SessionInv, LogoutSend
<1>1. TypeOK'
  BY DEF TypeOK, Reach, requests, provider
<1>2. OneRefreshAtATime' /\ TokensDelivered' /\ RetryCarriesAnotherToken'
  BY OtherExchangeFrame DEF provider
<1>3. SendersKnown'
  BY DEF TypeOK, SendersKnown, Reach
<1>4. ASSUME ~crossed' PROVE Uncrossed'
  <2>1. ~crossed /\ Outstanding = {} /\ Outstanding' = {o}
    BY <1>4 DEF TypeOK, Outstanding, Reach
  <2>2. \A x \in Exchanges \ {o} : stage'[x] \notin {"sent", "headers"}
    BY <2>1 DEF Outstanding
  <2> QED
    BY <2>1, <2>2 DEF Uncrossed, SessionChangesAlone, RefreshesFollowCookie, LoginsFollowCookie,
       LogoutsDropToken
<1> QED
  BY <1>1, <1>2, <1>3, <1>4

(* A logout ends: with the cookie deleted, or with the cookie as it was. *)
LEMMA LogoutEndsStep ==
  ASSUME SessionInv, NEW o \in Logouts,
         LogoutAnswered(o) \/ LogoutErrors(o) \/ LogoutBreaks(o)
  PROVE  SessionInv'
<1> USE KindsDiffer DEF SessionInv
<1>0. /\ stage[o] = "sent" /\ Reach(o, "over")
      /\ UNCHANGED <<accessToken, refreshInFlight, who, requests, awaiting, ready, crossed>>
      /\ \/ cookie' = Nobody /\ loggedOut' = TRUE
         \/ cookie' = cookie /\ loggedOut' = loggedOut
      /\ authenticated' \in {authenticated, FALSE}
  BY DEF LogoutAnswered, LogoutErrors, LogoutBreaks, DeleteCookie, auth, provider, history
<1>1. TypeOK'
  BY <1>0 DEF TypeOK, Reach, requests
<1>2. OneRefreshAtATime' /\ TokensDelivered' /\ RetryCarriesAnotherToken'
  BY <1>0, OtherExchangeFrame
<1>3. SendersKnown'
  BY <1>0 DEF TypeOK, SendersKnown, Reach
<1>4. ASSUME ~crossed PROVE Uncrossed'
  <2>1. Outstanding = {o} /\ Outstanding' = {}
    BY <1>0, <1>4 DEF TypeOK, Outstanding, Reach, Uncrossed, SessionChangesAlone
  <2>2. \A x \in Exchanges : stage'[x] \notin {"sent", "headers"}
    BY <2>1 DEF Outstanding
  <2>3. accessToken = Null
    BY <1>0, <1>4 DEF Uncrossed, LogoutsDropToken
  <2> QED
    BY <1>0, <1>4, <2>1, <2>2, <2>3 DEF Uncrossed, SessionChangesAlone, RefreshesFollowCookie,
       LoginsFollowCookie, LogoutsDropToken
<1> QED
  BY <1>0, <1>1, <1>2, <1>3, <1>4

-----------------------------------------------------------------------------
(* Requests *)

LEMMA UncrossedStands ==
  ASSUME SessionInv, UNCHANGED <<auth, exchanges, history>>
  PROVE  SendersKnown' /\ (~crossed' => Uncrossed')
BY DEF SessionInv, auth, exchanges, history, SendersKnown, Uncrossed, SessionChangesAlone,
   RefreshesFollowCookie, LoginsFollowCookie, LogoutsDropToken, Outstanding

LEMMA SendStep ==
  ASSUME SessionInv, NEW q \in Calls, Send(q)
  PROVE  SessionInv'
<1> USE DEF SessionInv, Send, auth, exchanges, provider
<1>1. TypeOK'
  BY DEF TypeOK, history
<1>2. OneRefreshAtATime'
  BY DEF OneRefreshAtATime, Outstanding
<1>3. TokensDelivered' /\ RetryCarriesAnotherToken'
  BY DEF TypeOK, TokensDelivered, RetryCarriesAnotherToken
<1> QED
  BY <1>1, <1>2, <1>3, UncrossedStands

LEMMA AnsweredStep ==
  ASSUME SessionInv, NEW q \in Calls, Answered(q)
  PROVE  SessionInv'
<1> USE DEF SessionInv, Answered, auth, exchanges, provider
<1>1. TypeOK'
  BY DEF TypeOK, history
<1>2. OneRefreshAtATime'
  BY DEF OneRefreshAtATime, Outstanding
<1>3. TokensDelivered' /\ RetryCarriesAnotherToken'
  BY DEF TypeOK, TokensDelivered, RetryCarriesAnotherToken
<1> QED
  BY <1>1, <1>2, <1>3, UncrossedStands

LEMMA SessionStutter == SessionInv /\ UNCHANGED vars => SessionInv'
<1> SUFFICES ASSUME SessionInv, UNCHANGED vars PROVE SessionInv'
  OBVIOUS
<1>1. TypeOK' /\ OneRefreshAtATime' /\ TokensDelivered' /\ RetryCarriesAnotherToken'
  BY DEF SessionInv, vars, auth, exchanges, requests, provider, history, TypeOK, OneRefreshAtATime,
     TokensDelivered, RetryCarriesAnotherToken, Outstanding
<1> QED
  BY <1>1, UncrossedStands DEF SessionInv, vars

LEMMA SessionNext == SessionInv /\ [Next]_vars => SessionInv'
<1> SUFFICES ASSUME SessionInv, [Next]_vars PROVE SessionInv'
  OBVIOUS
<1>1. CASE UNCHANGED vars
  BY <1>1, SessionStutter
<1>2. ASSUME NEW r \in Refreshes,
             \/ BootstrapSession(r) \/ RefreshHeaders(r) \/ RefreshBody(r)
             \/ RefreshRefused(r) \/ RefreshBreaks(r)
             \/ \E q \in Calls : Unauthorized(q, r)
      PROVE  SessionInv'
  BY <1>2, BootstrapSessionStep, RefreshHeadersStep, RefreshBodyStep, RefreshEndsStep,
     UnauthorizedStep
<1>3. ASSUME NEW l \in Logins,
             \/ \E u \in Users : LoginSend(l, u)
             \/ LoginHeaders(l) \/ LoginBody(l) \/ LoginFails(l)
      PROVE  SessionInv'
  BY <1>3, LoginSendStep, LoginHeadersStep, LoginBodyStep, LoginFailsStep
<1>4. ASSUME NEW o \in Logouts,
             LogoutSend(o) \/ LogoutAnswered(o) \/ LogoutErrors(o) \/ LogoutBreaks(o)
      PROVE  SessionInv'
  BY <1>4, LogoutSendStep, LogoutEndsStep
<1>5. ASSUME NEW q \in Calls, Send(q) \/ Answered(q) PROVE SessionInv'
  BY <1>5, SendStep, AnsweredStep
<1> QED
  BY <1>1, <1>2, <1>3, <1>4, <1>5 DEF Next

LEMMA SessionInvHolds == Spec => []SessionInv
<1> QED
  BY SessionInit, SessionNext, PTL DEF Spec

-----------------------------------------------------------------------------
(* Every variable of the tab keeps its shape, and a request waits exactly while
   it awaits a refresh. *)
THEOREM TypeCorrect == Spec => []TypeOK
<1>1. SessionInv => TypeOK
  BY DEF SessionInv
<1> QED
  BY <1>1, SessionInvHolds, PTL

(* refreshAccessToken of lib/auth.ts is single-flight, whoever calls it and
   however the exchange ends. *)
THEOREM RefreshIsSingleFlight == Spec => []OneRefreshAtATime
<1>1. SessionInv => OneRefreshAtATime
  BY DEF SessionInv
<1> QED
  BY <1>1, SessionInvHolds, PTL

(* onResponse of lib/api.ts never repeats a request with the token that was
   refused: the refresh it awaited had not delivered when the request left. *)
THEOREM RetriesCarryAnotherToken == Spec => []RetryCarriesAnotherToken
<1>1. SessionInv => RetryCarriesAnotherToken
  BY DEF SessionInv
<1> QED
  BY <1>1, SessionInvHolds, PTL

(* Between exchanges that do not overlap, the token in memory is of the user of
   the cookie. *)
THEOREM TokensFollowTheCookie == Spec => []TokenFollowsCookie
<1>1. SessionInv => TokenFollowsCookie
  BY DEF SessionInv, Uncrossed, LoginsFollowCookie, TokenFollowsCookie, Outstanding, Exchanges
<1> QED
  BY <1>1, SessionInvHolds, PTL

(* A logout that overlapped nothing is not undone by a refresh. *)
THEOREM LogoutsLast == Spec => []LogoutLasts
<1>1. SessionInv => LogoutLasts
  BY DEF SessionInv, Uncrossed, LogoutsDropToken, LogoutLasts
<1> QED
  BY <1>1, SessionInvHolds, PTL
=============================================================================
