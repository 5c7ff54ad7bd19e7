------------------------------ MODULE Session ------------------------------
(***************************************************************************)
(* Sessions of one account: the single-use refresh tokens of the API       *)
(* (app/core/refresh_tokens.py and app/api/routes_auth.py) and the browser *)
(* tabs that rotate them (useTokenRefresh.ts over the store of store.ts).  *)
(*                                                                         *)
(* An access token and a refresh token are minted together, held together  *)
(* (setSession) and dropped together, so one identifier stands for the     *)
(* pair.  Replicas share the token store (Redis) and the users table, so   *)
(* handlers interleave at their calls to them; within a store call nothing *)
(* does (GETDEL, SET, DEL).  A request is one handler with its exchange    *)
(* over the network.  Passwords, codes and claims are abstracted: a        *)
(* sign-in that presents the wrong ones is refused.                        *)
(***************************************************************************)
EXTENDS Naturals

CONSTANTS
    Tabs,       \* browser tabs (sessionStorage is per tab)
    Requests,   \* bound: requests that may be under way at once
    Pairs,      \* bound: access and refresh token pairs ever minted
    None        \* no pair, no tab

ASSUME ConstantsAssumption == None \notin Tabs \cup Pairs

VARIABLES
    live,      \* refresh tokens in the store
    root,      \* root[t]: the sign-in pair that t descends from; None: not minted
    account,   \* status of the account's row
    stale,     \* pairs whose access token has expired or was revoked (jti)
    tab,       \* tab[c]: the pair in the tab's store, None when signed out
    timer,     \* timer[c]: the tab has a refresh timer set
    request,   \* request[r]: a handler and its exchange
    wronged    \* history: tabs whose refresh token a fault has spent or lost

server == <<live, root>>
client == <<tab, timer>>
vars == <<live, root, account, stale, tab, timer, request, wronged>>

-----------------------------------------------------------------------------
\* What a request does next, or the response that is on its way back.
Stages == {"consume", "read", "issue", "discard", "revoke"}
Responses == {"ok", "refused", "failed"}

\* pair is what the request presents, new what it mints; tab is who waits for
\* the response.  barred is history: the account has been deactivated ever
\* since the request was sent.
RequestRecords ==
    [at : Stages \cup Responses \cup {"idle"}, kind : {"signin", "refresh", "logout"},
     tab : Tabs \cup {None}, pair : Pairs \cup {None}, new : Pairs \cup {None},
     barred : BOOLEAN]
Idle == [at |-> "idle", kind |-> "signin", tab |-> None, pair |-> None,
         new |-> None, barred |-> FALSE]

\* The request is under way.
Busy(r) == request[r].at # "idle"

Goto(r, stage) == request' = [request EXCEPT ![r].at = stage]

Send(r, c, kind, stage) ==
    /\ ~Busy(r)
    /\ request' = [request EXCEPT ![r] =
                     [at |-> stage, kind |-> kind, tab |-> c, pair |-> tab[c],
                      new |-> None, barred |-> account # "active"]]

\* The ref of useTokenRefresh: a refresh of this page has not settled.
InFlight(c) ==
    \E r \in Requests :
       Busy(r) /\ request[r].kind = "refresh" /\ request[r].tab = c

\* The tab waits for the answer to a refresh or a logout of the pair it holds.
Waiting(c) ==
    \E r \in Requests :
       /\ Busy(r) /\ request[r].tab = c /\ request[r].pair = tab[c]
       /\ request[r].kind # "signin"

\* The tabs that hold pair t.
HeldBy(t) == {c \in Tabs : t # None /\ tab[c] = t}

Init ==
    /\ live = {} /\ stale = {} /\ wronged = {}
    /\ root = [t \in Pairs |-> None]
    /\ account = "active"
    /\ tab = [c \in Tabs |-> None]
    /\ timer = [c \in Tabs |-> FALSE]
    /\ request = [r \in Requests |-> Idle]

-----------------------------------------------------------------------------
(* The browser tab. *)

\* The sign-in form (or the 2FA step, sign-up, or a password reset) is sent.
SignIn(c, r) ==
    /\ tab[c] = None
    /\ \A q \in Requests : Busy(q) => request[q].tab # c \/ request[q].kind # "signin"
    /\ Send(r, c, "signin", "read")
    /\ UNCHANGED <<server, account, stale, client, wronged>>

\* The timer fires: the refresh is sent, unless one is still in flight.  The
\* timer is not set again before the tokens change or the page is loaded.
FireTimer(c) ==
    /\ timer[c] /\ tab[c] # None
    /\ timer' = [timer EXCEPT ![c] = FALSE]
    /\ \/ InFlight(c) /\ UNCHANGED request
       \/ ~InFlight(c) /\ \E r \in Requests : Send(r, c, "refresh", "consume")
    /\ UNCHANGED <<server, account, stale, tab, wronged>>

\* A client ends its session at the API, as POST /auth/logout describes.
Logout(c, r) ==
    /\ tab[c] # None
    /\ Send(r, c, "logout", "discard")
    /\ UNCHANGED <<server, account, stale, client, wronged>>

\* The tab drops its session: "Sign out" (the API is not told), or a request
\* that was answered 401 because the access token is expired or revoked.
SignOut(c) ==
    /\ tab[c] # None
    /\ tab' = [tab EXCEPT ![c] = None]
    /\ timer' = [timer EXCEPT ![c] = FALSE]
    /\ wronged' = wronged \ {c}
    /\ UNCHANGED <<server, account, stale, request>>

\* The page is loaded again: the stored session is kept, the effect runs and
\* the responses that were due to the old page are gone.
Reload(c) ==
    /\ timer' = [timer EXCEPT ![c] = tab[c] # None]
    /\ request' = [r \in Requests |->
                     IF request[r].tab = c
                       THEN [request[r] EXCEPT !.tab = None] ELSE request[r]]
    /\ wronged' = IF Waiting(c) THEN wronged \cup {c} ELSE wronged
    /\ UNCHANGED <<server, account, stale, tab>>

-----------------------------------------------------------------------------
(* The API. *)

\* Mutant: the token is read and left in the store.
ConsumeKeeps(r) ==
    /\ request[r].at = "consume"
    /\ Goto(r, IF request[r].pair \in live THEN "read" ELSE "refused")
    /\ UNCHANGED <<server, account, stale, client, wronged>>

\* Mutant: a token that is not in the store is taken at its word.
ConsumeTrusts(r) ==
    /\ request[r].at = "consume"
    /\ Goto(r, "read")
    /\ live' = live \ {request[r].pair}
    /\ UNCHANGED <<root, account, stale, client, wronged>>

\* refresh_tokens.consume: an unknown token or a store error is refused.
Consume(r) ==
    /\ request[r].at = "consume"
    /\ \/ /\ request[r].pair \in live
          /\ Goto(r, "read")
          /\ live' = live \ {request[r].pair}
       \/ /\ Goto(r, "refused")
          /\ live' \in {live, live \ {request[r].pair}}
    /\ UNCHANGED <<root, account, stale, client, wronged>>

\* Mutant: a refresh does not read the user again.
ReadUserSkipped(r) ==
    /\ request[r].at = "read"
    /\ Goto(r, IF request[r].kind = "signin" /\ account # "active"
                 THEN "refused" ELSE "issue")
    /\ UNCHANGED <<server, account, stale, client, wronged>>

\* The user is read: inactive users are refused, and wrong credentials.
ReadUser(r) ==
    /\ request[r].at = "read"
    /\ \/ account = "active" /\ Goto(r, "issue")
       \/ account # "active" /\ Goto(r, "refused")
       \/ request[r].kind = "signin" /\ Goto(r, "refused")
    /\ UNCHANGED <<server, account, stale, client, wronged>>

\* A new refresh token is in the store.
Store(r, t) ==
    /\ root[t] = None
    /\ root' = [root EXCEPT ![t] =
                  IF request[r].kind = "signin" THEN t ELSE root[request[r].pair]]
    /\ live' = live \cup {t}

\* A pair is minted, stored and returned.
Issue(r, t) ==
    /\ request[r].at = "issue"
    /\ Store(r, t)
    /\ request' = [request EXCEPT ![r] = [@ EXCEPT !.at = "ok", !.new = t]]
    /\ UNCHANGED <<account, stale, client, wronged>>

\* The store raises, whether or not it has stored the token: a 500.
IssueFails(r) ==
    /\ request[r].at = "issue"
    /\ UNCHANGED server \/ \E t \in Pairs : Store(r, t)
    /\ Goto(r, "failed")
    /\ wronged' = wronged \cup HeldBy(request[r].pair)
    /\ UNCHANGED <<account, stale, client>>

\* logout, behind get_principal: the refresh token is discarded, best effort.
Discard(r) ==
    /\ request[r].at = "discard"
    /\ IF request[r].pair \in stale
         THEN Goto(r, "refused") /\ UNCHANGED live
         ELSE Goto(r, "revoke") /\ live' \in {live, live \ {request[r].pair}}
    /\ UNCHANGED <<root, account, stale, client, wronged>>

\* Then the access token is revoked, best effort, and the answer is 204.
RevokeAccess(r) ==
    /\ request[r].at = "revoke"
    /\ stale' \in {stale, stale \cup {request[r].pair}}
    /\ Goto(r, "ok")
    /\ UNCHANGED <<server, account, client, wronged>>

\* Mutant: the user is deleted.
DeactivateDeletes ==
    /\ account = "active"
    /\ account' = "deleted"
    /\ UNCHANGED <<server, stale, client, request, wronged>>

\* An administrator sets the user's status.
Deactivate ==
    /\ account = "active"
    /\ account' = "deactivated"
    /\ UNCHANGED <<server, stale, client, request, wronged>>

Reactivate ==
    /\ account = "deactivated"
    /\ account' = "active"
    /\ request' = [r \in Requests |-> [request[r] EXCEPT !.barred = FALSE]]
    /\ UNCHANGED <<server, stale, client, wronged>>

-----------------------------------------------------------------------------
(* Time and the network. *)

\* A refresh token reaches its time to live (days, and no response takes days).
RefreshExpires(t) ==
    /\ t \in live
    /\ \A r \in Requests : Busy(r) => request[r].new # t
    /\ live' = live \ {t}
    /\ wronged' = wronged \cup HeldBy(t)
    /\ UNCHANGED <<root, account, stale, client, request>>

\* An access token expires (that of a pair no tab holds concerns nobody).
AccessExpires(t) ==
    /\ HeldBy(t) # {} /\ t \notin stale
    /\ stale' = stale \cup {t}
    /\ UNCHANGED <<server, account, client, request, wronged>>

\* A request is lost before it reaches the API.
NeverArrives(r) ==
    /\ Busy(r)
    /\ \/ request[r].at \in {"consume", "discard"}
       \/ request[r].at = "read" /\ request[r].kind = "signin"
    /\ request' = [request EXCEPT ![r] = Idle]
    /\ UNCHANGED <<server, account, stale, client, wronged>>

\* The connection fails: the tab sees a network error, the handler goes on.
Disconnect(r) ==
    /\ Busy(r) /\ request[r].tab # None
    /\ request' = [request EXCEPT ![r].tab = None]
    /\ wronged' = wronged \cup ({request[r].tab} \cap HeldBy(request[r].pair))
    /\ UNCHANGED <<server, account, stale, client>>

\* The response is for the session the tab still has: the effect that sent it
\* was not cleaned up.
Current(r) == request[r].tab # None /\ tab[request[r].tab] = request[r].pair

\* Mutant: the new access token is stored, the old refresh token is kept.
DeliverKeepsOld(r) ==
    LET c == request[r].tab IN
    /\ request[r].at \in Responses
    /\ request' = [request EXCEPT ![r] = Idle]
    /\ IF Current(r) /\ (request[r].at = "ok" \/ request[r].at = "refused")
         THEN /\ tab' = [tab EXCEPT ![c] =
                           IF request[r].at = "refused" \/ request[r].kind = "logout"
                             THEN None
                             ELSE IF request[r].kind = "refresh" THEN @
                             ELSE request[r].new]
              /\ timer' = [timer EXCEPT ![c] = tab'[c] # None]
         ELSE UNCHANGED client
    /\ UNCHANGED <<server, account, stale, wronged>>

\* The response arrives.  A new pair replaces the tab's and sets the timer; a
\* refused refresh (401) or a logout ends the session; anything else is
\* dropped, and so is what a tab no longer waits for.
Deliver(r) ==
    LET c == request[r].tab IN
    /\ request[r].at \in Responses
    /\ request' = [request EXCEPT ![r] = Idle]
    /\ \/ /\ Current(r) /\ request[r].at = "ok" /\ request[r].kind # "logout"
          /\ tab' = [tab EXCEPT ![c] = request[r].new]
          /\ timer' = [timer EXCEPT ![c] = TRUE]
          /\ wronged' = wronged \ {c}
       \/ /\ Current(r)
          /\ \/ request[r].at = "refused" /\ request[r].kind = "refresh"
             \/ request[r].at = "ok" /\ request[r].kind = "logout"
          /\ tab' = [tab EXCEPT ![c] = None]
          /\ timer' = [timer EXCEPT ![c] = FALSE]
          /\ wronged' = wronged \ {c}
       \/ /\ \/ ~Current(r)
             \/ request[r].at = "failed"
             \/ request[r].at = "refused" /\ request[r].kind # "refresh"
          /\ UNCHANGED <<client, wronged>>
    /\ UNCHANGED <<server, account, stale>>

Handle(r) ==
    \/ Consume(r) \/ ReadUser(r) \/ IssueFails(r) \/ \E t \in Pairs : Issue(r, t)
    \/ Discard(r) \/ RevokeAccess(r)

Next ==
    \/ \E r \in Requests : Handle(r) \/ Deliver(r) \/ NeverArrives(r) \/ Disconnect(r)
    \/ \E c \in Tabs :
          \/ FireTimer(c) \/ SignOut(c) \/ Reload(c)
          \/ \E r \in Requests : SignIn(c, r) \/ Logout(c, r)
    \/ \E t \in Pairs : RefreshExpires(t) \/ AccessExpires(t)
    \/ Deactivate \/ Reactivate

Spec == Init /\ [][Next]_vars

\* A replica finishes the requests it has begun, the network delivers their
\* responses, and timers fire.
FairSpec ==
    /\ Spec
    /\ \A r \in Requests : WF_vars(Handle(r)) /\ WF_vars(Deliver(r))
    /\ \A c \in Tabs : WF_vars(FireTimer(c))

-----------------------------------------------------------------------------
TypeOK ==
    /\ live \subseteq Pairs /\ stale \subseteq Pairs
    /\ wronged \subseteq Tabs
    /\ root \in [Pairs -> Pairs \cup {None}]
    /\ account \in {"active", "deactivated"}
    /\ tab \in [Tabs -> Pairs \cup {None}]
    /\ timer \in [Tabs -> BOOLEAN]
    /\ request \in [Requests -> RequestRecords]

\* Request r has consumed a refresh token and may still mint its successor.
Carries(r) ==
    request[r].kind = "refresh" /\ request[r].at \in {"read", "issue"}

\* A refresh token works once, so a sign-in never branches: of its line there
\* is at most one token in the store or one request that may mint the next,
\* however often a token is presented (a reload, a retry, a second replica).
OneHolder ==
    /\ \A s, t \in live : root[s] = root[t] => s = t
    /\ \A q, r \in Requests :
          Carries(q) /\ Carries(r) /\ root[request[q].pair] = root[request[r].pair]
          => q = r
    /\ \A r \in Requests, t \in live : Carries(r) => root[request[r].pair] # root[t]

\* "a deactivated user can never refresh" (routes_auth.py:756): a request sent
\* after the account was deactivated mints no pair before it is reactivated.
DeactivatedNeverMints ==
    \A r \in Requests :
       request[r].at = "issue" \/ request[r].new # None
       => ~request[r].barred

\* The line of sign-in f has no token and no request that may mint one.
Ended(f) ==
    /\ root[f] = f
    /\ \A t \in live : root[t] # f
    /\ \A r \in Requests : Carries(r) => root[request[r].pair] # f

\* "the session cannot be continued" (routes_auth.py:915): once a line has
\* ended, by logout, refusal or expiry, no later request brings it back.
EndedStaysEnded == [][\A f \in Pairs : Ended(f) => Ended(f)']_vars

\* A tab holds a refresh token that is spent only while it waits for the
\* successor, or after a fault kept the successor from it: a response was
\* lost, the store failed, or the token outlived its time.
SpentOnlyByFault ==
    \A c \in Tabs :
       tab[c] # None => tab[c] \in live \/ c \in wronged \/ Waiting(c)

\* A logout that found the token of its session in the store has ended the
\* line: it left nothing for a request in flight to continue.
LogoutEnds ==
    [][\A r \in Requests, f \in Pairs :
          /\ request[r].at = "discard" /\ request'[r].at = "revoke"
          /\ request[r].pair \in live /\ request[r].pair \notin live'
          /\ root[request[r].pair] = f
          => Ended(f)']_vars

\* The tab has a session whose refresh token is good and that nothing refreshes.
Stalled(c) == tab[c] \in live /\ ~timer[c] /\ ~InFlight(c)

\* "Transient/network errors leave the session as-is; the next effect run (or
\* a real request's own 401 handling) will retry" (useTokenRefresh.ts:62).
TransientIsRetried == \A c \in Tabs : Stalled(c) ~> ~Stalled(c)
=============================================================================
