--------------------------- MODULE SessionProofs ---------------------------
(***************************************************************************)
(* A sign-in never branches: whatever is presented again, lost or raced    *)
(* between replicas, a line of refresh tokens has one holder, and once it  *)
(* has none it has ended.                                                  *)
(***************************************************************************)
EXTENDS Session, TLAPS

\* What a request is doing fits its kind, and what it carries was minted.
RequestFits(r) ==
    /\ request[r].kind = "signin" =>
          request[r].at \in {"idle", "read", "issue"} \cup Responses
    /\ request[r].kind = "refresh" =>
          request[r].at \in {"consume", "read", "issue"} \cup Responses
    /\ request[r].kind = "logout" => request[r].at \in {"discard", "revoke"} \cup Responses
    /\ request[r].kind # "signin" => request[r].pair # None /\ root[request[r].pair] # None
    /\ request[r].new # None => root[request[r].new] # None

\* Tokens and the pairs of tabs were minted, in a line that a sign-in began.
Rooted ==
    /\ \A t \in live : root[t] # None
    /\ \A c \in Tabs : tab[c] # None => root[tab[c]] # None
    /\ \A t \in Pairs : root[t] # None => root[root[t]] = root[t]

Shape == TypeOK /\ (\A r \in Requests : RequestFits(r)) /\ Rooted

LEMMA SendFits ==
    ASSUME Shape, NEW r \in Requests, NEW c \in Tabs,
           NEW kind \in {"signin", "refresh", "logout"}, NEW stage \in Stages,
           Send(r, c, kind, stage), root' = root,
           \/ kind = "signin" /\ stage = "read"
           \/ kind = "refresh" /\ stage = "consume" /\ tab[c] # None
           \/ kind = "logout" /\ stage = "discard" /\ tab[c] # None
    PROVE  /\ request' \in [Requests -> RequestRecords]
           /\ \A q \in Requests : RequestFits(q)'
<1> DEFINE sent == [at |-> stage, kind |-> kind, tab |-> c, pair |-> tab[c],
                    new |-> None, barred |-> account # "active"]
<1>1. sent \in RequestRecords
  BY DEF Shape, TypeOK, RequestRecords
<1>2. request' = [request EXCEPT ![r] = sent]
  BY DEF Send
<1>3. request' \in [Requests -> RequestRecords]
  BY <1>1, <1>2 DEF Shape, TypeOK
<1>4. \A q \in Requests : q # r => request'[q] = request[q]
  BY <1>2 DEF Shape, TypeOK
<1>5. request'[r] = sent
  BY <1>2 DEF Shape, TypeOK
<1>6. \A q \in Requests : q # r => RequestFits(q)'
  BY <1>4 DEF Shape, RequestFits
<1>7. RequestFits(r)'
  BY <1>5 DEF Shape, RequestFits, Rooted, Stages
<1> QED
  BY <1>3, <1>6, <1>7

\* A handler that goes on without a new token.
LEMMA GotoFits ==
    ASSUME Shape, NEW r \in Requests, NEW stage \in Stages \cup Responses,
           Goto(r, stage), root' = root \/ \E t \in Pairs : Store(r, t),
           \/ stage \in Responses
           \/ request[r].kind = "signin" /\ stage = "issue"
           \/ request[r].kind = "refresh" /\ stage \in {"read", "issue"}
           \/ request[r].kind = "logout" /\ stage = "revoke"
    PROVE  /\ request' \in [Requests -> RequestRecords]
           /\ \A q \in Requests : RequestFits(q)'
<1>1. request' \in [Requests -> RequestRecords]
  BY DEF Goto, Shape, TypeOK, RequestRecords
<1>2. \A q \in Requests : q # r => request'[q] = request[q]
  BY DEF Goto, Shape, TypeOK
<1>3. /\ request'[r].at = stage
      /\ request'[r].kind = request[r].kind
      /\ request'[r].pair = request[r].pair
      /\ request'[r].new = request[r].new
  BY DEF Goto, Shape, TypeOK, RequestRecords
<1>4. \A t \in Pairs : root[t] # None => root'[t] # None
  BY DEF Store, Shape, TypeOK
<1>5. \A q \in Requests : request[q].pair \in Pairs \cup {None} /\ request[q].new \in Pairs \cup {None}
  BY DEF Shape, TypeOK, RequestRecords
<1>6. \A q \in Requests : q # r => RequestFits(q)'
  BY <1>2, <1>4, <1>5 DEF Shape, RequestFits
<1>7. RequestFits(r)'
  BY <1>3, <1>4, <1>5 DEF Shape, RequestFits, Responses
<1> QED
  BY <1>1, <1>6, <1>7

\* What a stored token does to the lines.
LEMMA StoreRooted ==
    ASSUME Shape, NEW r \in Requests, NEW t \in Pairs, Store(r, t),
           request[r].at = "issue", UNCHANGED tab
    PROVE  /\ root' \in [Pairs -> Pairs \cup {None}]
           /\ live' \subseteq Pairs
           /\ Rooted'
           /\ root'[t] # None
           /\ \A s \in Pairs : s # t => root'[s] = root[s]
           /\ root'[t] = IF request[r].kind = "signin" THEN t ELSE root[request[r].pair]
<1> DEFINE f == IF request[r].kind = "signin" THEN t ELSE root[request[r].pair]
<1>1. f \in Pairs
  <2>1. request[r].pair \in Pairs \cup {None}
    BY DEF Shape, TypeOK, RequestRecords
  <2> QED
    BY <2>1 DEF Shape, TypeOK, RequestFits
<1>2. root' = [root EXCEPT ![t] = f] /\ live' = live \cup {t} /\ root[t] = None
  BY DEF Store
<1>3. root' \in [Pairs -> Pairs \cup {None}]
  BY <1>1, <1>2 DEF Shape, TypeOK
<1>4. root'[t] = f /\ \A s \in Pairs : s # t => root'[s] = root[s]
  BY <1>2 DEF Shape, TypeOK
<1>5. f # None
  BY <1>1, ConstantsAssumption
<1>6. \A s \in Pairs : root'[s] # None => root'[root'[s]] = root'[s]
  <2> SUFFICES ASSUME NEW s \in Pairs, root'[s] # None PROVE root'[root'[s]] = root'[s]
    OBVIOUS
  <2>1. CASE s # t
    <3>1. root'[s] = root[s] /\ root[s] \in Pairs /\ root[root[s]] = root[s]
      BY <1>4, <2>1 DEF Shape, TypeOK, Rooted
    <3>2. root[s] # t
      BY <1>2, <3>1, ConstantsAssumption
    <3> QED
      BY <1>4, <3>1, <3>2
  <2>2. CASE s = t /\ request[r].kind = "signin"
    BY <1>4, <2>2
  <2>3. CASE s = t /\ request[r].kind # "signin"
    <3>1. request[r].pair \in Pairs /\ root[request[r].pair] # None
      BY <2>3 DEF Shape, TypeOK, RequestRecords, RequestFits
    <3>2. root[f] = f
      BY <2>3, <3>1 DEF Shape, Rooted
    <3>3. f # t
      BY <1>2, <1>5, <3>2
    <3> QED
      BY <1>1, <1>4, <2>3, <3>2, <3>3
  <2> QED
    BY <2>1, <2>2, <2>3
<1>7. \A s \in live' : root'[s] # None
  BY <1>2, <1>4, <1>5 DEF Shape, TypeOK, Rooted
<1>8. \A c \in Tabs : tab'[c] # None => root'[tab'[c]] # None
  BY <1>4, <1>5 DEF Shape, TypeOK, Rooted
<1> QED
  BY <1>2, <1>3, <1>4, <1>5, <1>6, <1>7, <1>8 DEF Shape, TypeOK, Rooted

\* A response is delivered or lost, or a tab turns away: requests end or change
\* in what the lines do not depend on.
LEMMA TurnFits ==
    ASSUME Shape, root' = root, request' \in [Requests -> RequestRecords],
           \A q \in Requests :
              \/ request'[q] = Idle
              \/ /\ request'[q].at = request[q].at
                 /\ request'[q].kind = request[q].kind
                 /\ request'[q].pair = request[q].pair
                 /\ request'[q].new = request[q].new
    PROVE  \A q \in Requests : RequestFits(q)'
<1> SUFFICES ASSUME NEW q \in Requests PROVE RequestFits(q)'
  OBVIOUS
<1>1. CASE request'[q] = Idle
  BY <1>1 DEF RequestFits, Idle
<1>2. CASE request'[q] # Idle
  BY <1>2 DEF Shape, RequestFits
<1> QED
  BY <1>1, <1>2

LEMMA IdleIsRequest == Idle \in RequestRecords
BY DEF Idle, RequestRecords

LEMMA InitShape == Init => Shape
<1> SUFFICES ASSUME Init PROVE Shape
  OBVIOUS
<1>1. TypeOK
  BY IdleIsRequest DEF Init, TypeOK
<1>2. \A r \in Requests : RequestFits(r)
  BY DEF Init, RequestFits, Idle
<1>3. Rooted
  BY DEF Init, Rooted
<1> QED
  BY <1>1, <1>2, <1>3 DEF Shape

LEMMA ShapeStep == Shape /\ [Next]_vars => Shape'
<1> SUFFICES ASSUME Shape, [Next]_vars PROVE Shape'
  OBVIOUS
<1>1. CASE UNCHANGED vars
  BY <1>1 DEF vars, Shape, TypeOK, RequestFits, Rooted
<1>2. ASSUME NEW c \in Tabs, NEW r \in Requests, SignIn(c, r) PROVE Shape'
  <2>1. /\ request' \in [Requests -> RequestRecords]
        /\ \A q \in Requests : RequestFits(q)'
    BY <1>2, SendFits DEF SignIn, server, Stages
  <2> QED
    BY <1>2, <2>1 DEF SignIn, server, client, Shape, TypeOK, Rooted
<1>3. ASSUME NEW c \in Tabs, FireTimer(c) PROVE Shape'
  <2>1. CASE UNCHANGED request
    BY <1>3, <2>1 DEF FireTimer, server, Shape, TypeOK, Rooted, RequestFits
  <2>2. ASSUME NEW r \in Requests, Send(r, c, "refresh", "consume"), tab[c] # None
        PROVE  Shape'
    <3>1. /\ request' \in [Requests -> RequestRecords]
          /\ \A q \in Requests : RequestFits(q)'
      BY <1>3, <2>2, SendFits DEF FireTimer, server, Stages
    <3> QED
      BY <1>3, <3>1 DEF FireTimer, server, Shape, TypeOK, Rooted
  <2> QED
    BY <1>3, <2>1, <2>2 DEF FireTimer
<1>4. ASSUME NEW c \in Tabs, NEW r \in Requests, Logout(c, r) PROVE Shape'
  <2>1. /\ request' \in [Requests -> RequestRecords]
        /\ \A q \in Requests : RequestFits(q)'
    BY <1>4, SendFits DEF Logout, server, Stages
  <2> QED
    BY <1>4, <2>1 DEF Logout, server, client, Shape, TypeOK, Rooted
<1>5. ASSUME NEW c \in Tabs, SignOut(c) PROVE Shape'
  <2>1. \A d \in Tabs : tab'[d] = None \/ tab'[d] = tab[d]
    BY <1>5 DEF SignOut, Shape, TypeOK
  <2>2. Rooted'
    BY <1>5, <2>1 DEF SignOut, server, Shape, Rooted
  <2>3. \A q \in Requests : RequestFits(q)'
    BY <1>5 DEF SignOut, server, Shape, RequestFits
  <2> QED
    BY <1>5, <2>2, <2>3 DEF SignOut, server, Shape, TypeOK
<1>6. ASSUME NEW c \in Tabs, Reload(c) PROVE Shape'
  <2>1. request' \in [Requests -> RequestRecords]
    BY <1>6 DEF Reload, Shape, TypeOK, RequestRecords
  <2>2. \A q \in Requests : /\ request'[q].at = request[q].at
                            /\ request'[q].kind = request[q].kind
                            /\ request'[q].pair = request[q].pair
                            /\ request'[q].new = request[q].new
    BY <1>6 DEF Reload, Shape, TypeOK, RequestRecords
  <2>3. \A q \in Requests : RequestFits(q)'
    BY <1>6, <2>1, <2>2, TurnFits DEF Reload, server
  <2> QED
    BY <1>6, <2>1, <2>3 DEF Reload, server, Shape, TypeOK, Rooted
<1>7. ASSUME NEW r \in Requests, Consume(r) PROVE Shape'
  <2>1. request[r].kind = "refresh"
    BY <1>7 DEF Consume, Shape, TypeOK, RequestRecords, RequestFits, Responses
  <2>2. /\ request' \in [Requests -> RequestRecords]
        /\ \A q \in Requests : RequestFits(q)'
    BY <1>7, <2>1, GotoFits DEF Consume, Stages, Responses
  <2>3. live' \subseteq live /\ UNCHANGED <<root, account, stale, client, wronged>>
    BY <1>7 DEF Consume
  <2> QED
    BY <2>2, <2>3 DEF client, Shape, TypeOK, Rooted
<1>8. ASSUME NEW r \in Requests, ReadUser(r) PROVE Shape'
  <2>1. request[r].kind = "refresh" \/ request[r].kind = "signin"
    BY <1>8 DEF ReadUser, Shape, TypeOK, RequestRecords, RequestFits, Responses
  <2>2. Goto(r, "issue") \/ Goto(r, "refused")
    BY <1>8 DEF ReadUser
  <2>3. /\ request' \in [Requests -> RequestRecords]
        /\ \A q \in Requests : RequestFits(q)'
    BY <1>8, <2>1, <2>2, GotoFits DEF ReadUser, server, Stages, Responses
  <2> QED
    BY <1>8, <2>3 DEF ReadUser, server, client, Shape, TypeOK, Rooted
<1>9. ASSUME NEW r \in Requests, NEW t \in Pairs, Issue(r, t) PROVE Shape'
  <2>1. UNCHANGED tab /\ Store(r, t) /\ request[r].at = "issue"
    BY <1>9 DEF Issue, client
  <2>2. /\ root' \in [Pairs -> Pairs \cup {None}] /\ live' \subseteq Pairs
        /\ Rooted' /\ root'[t] # None
        /\ \A s \in Pairs : s # t => root'[s] = root[s]
    BY <2>1, StoreRooted
  <2>3. request' \in [Requests -> RequestRecords]
    <3>1. request[r] \in RequestRecords /\ "ok" \in Responses
      BY DEF Shape, TypeOK, Responses
    <3>2. [request[r] EXCEPT !.at = "ok", !.new = t] \in RequestRecords
      BY <3>1 DEF RequestRecords
    <3>3. request' = [request EXCEPT ![r] = [request[r] EXCEPT !.at = "ok", !.new = t]]
      BY <1>9 DEF Issue, Shape, TypeOK
    <3> QED
      BY <3>2, <3>3 DEF Shape, TypeOK
  <2>4. \A q \in Requests : q # r => request'[q] = request[q]
    BY <1>9 DEF Issue, Shape, TypeOK
  <2>5. /\ request'[r].at = "ok" /\ request'[r].new = t
        /\ request'[r].kind = request[r].kind /\ request'[r].pair = request[r].pair
    BY <1>9 DEF Issue, Shape, TypeOK, RequestRecords
  <2>6. \A s \in Pairs : root[s] # None => root'[s] # None
    BY <2>1, <2>2 DEF Store
  <2>7. \A q \in Requests : /\ request[q].pair \in Pairs \cup {None}
                            /\ request[q].new \in Pairs \cup {None}
    BY DEF Shape, TypeOK, RequestRecords
  <2>8. \A q \in Requests : RequestFits(q)'
    BY <2>2, <2>4, <2>5, <2>6, <2>7 DEF Shape, RequestFits, Responses
  <2> QED
    BY <1>9, <2>2, <2>3, <2>8 DEF Issue, client, Shape, TypeOK
<1>10. ASSUME NEW r \in Requests, IssueFails(r) PROVE Shape'
  <2>1. /\ request' \in [Requests -> RequestRecords]
        /\ \A q \in Requests : RequestFits(q)'
    BY <1>10, GotoFits DEF IssueFails, server, Responses
  <2>2. wronged' \subseteq Tabs
    BY <1>10 DEF IssueFails, HeldBy, Shape, TypeOK
  <2>3. CASE UNCHANGED server
    BY <1>10, <2>1, <2>2, <2>3 DEF IssueFails, server, client, Shape, TypeOK, Rooted
  <2>4. ASSUME NEW t \in Pairs, Store(r, t) PROVE Shape'
    <3>1. /\ root' \in [Pairs -> Pairs \cup {None}] /\ live' \subseteq Pairs
          /\ Rooted'
      BY <1>10, <2>4, StoreRooted DEF IssueFails, client
    <3> QED
      BY <1>10, <2>1, <2>2, <3>1 DEF IssueFails, client, Shape, TypeOK
  <2> QED
    BY <1>10, <2>3, <2>4 DEF IssueFails
<1>11. ASSUME NEW r \in Requests, Discard(r) PROVE Shape'
  <2>1. request[r].kind = "logout"
    BY <1>11 DEF Discard, Shape, TypeOK, RequestRecords, RequestFits, Responses
  <2>2. Goto(r, "refused") \/ Goto(r, "revoke")
    BY <1>11 DEF Discard
  <2>3. /\ request' \in [Requests -> RequestRecords]
        /\ \A q \in Requests : RequestFits(q)'
    BY <1>11, <2>1, <2>2, GotoFits DEF Discard, Stages, Responses
  <2>4. live' \subseteq live /\ UNCHANGED <<root, account, stale, client, wronged>>
    BY <1>11 DEF Discard
  <2> QED
    BY <2>3, <2>4 DEF client, Shape, TypeOK, Rooted
<1>12. ASSUME NEW r \in Requests, RevokeAccess(r) PROVE Shape'
  <2>1. request[r].kind = "logout"
    BY <1>12 DEF RevokeAccess, Shape, TypeOK, RequestRecords, RequestFits, Responses
  <2>2. request[r].pair \in Pairs
    BY <2>1 DEF Shape, TypeOK, RequestRecords, RequestFits
  <2>3. /\ request' \in [Requests -> RequestRecords]
        /\ \A q \in Requests : RequestFits(q)'
    BY <1>12, GotoFits DEF RevokeAccess, server, Responses
  <2> QED
    BY <1>12, <2>2, <2>3 DEF RevokeAccess, server, client, Shape, TypeOK, Rooted
<1>13. CASE Deactivate
  BY <1>13 DEF Deactivate, server, client, Shape, TypeOK, Rooted, RequestFits
<1>14. CASE Reactivate
  <2>0. \A q \in Requests : [request[q] EXCEPT !.barred = FALSE] \in RequestRecords
    <3>1. SUFFICES ASSUME NEW q \in Requests
                   PROVE  [request[q] EXCEPT !.barred = FALSE] \in RequestRecords
      OBVIOUS
    <3>2. request[q] \in RequestRecords
      BY DEF Shape, TypeOK
    <3> QED
      BY <3>2 DEF RequestRecords
  <2>1. request' \in [Requests -> RequestRecords]
    BY <1>14, <2>0 DEF Reactivate
  <2>2. \A q \in Requests : /\ request'[q].at = request[q].at
                            /\ request'[q].kind = request[q].kind
                            /\ request'[q].pair = request[q].pair
                            /\ request'[q].new = request[q].new
    BY <1>14 DEF Reactivate, Shape, TypeOK, RequestRecords
  <2>3. \A q \in Requests : RequestFits(q)'
    BY <1>14, <2>1, <2>2, TurnFits DEF Reactivate, server
  <2> QED
    BY <1>14, <2>1, <2>3 DEF Reactivate, server, client, Shape, TypeOK, Rooted
<1>15. ASSUME NEW t \in Pairs, RefreshExpires(t) PROVE Shape'
  <2>1. wronged' \subseteq Tabs
    BY <1>15 DEF RefreshExpires, HeldBy, Shape, TypeOK
  <2> QED
    BY <1>15, <2>1 DEF RefreshExpires, client, Shape, TypeOK, Rooted, RequestFits
<1>16. ASSUME NEW t \in Pairs, AccessExpires(t) PROVE Shape'
  BY <1>16 DEF AccessExpires, server, client, Shape, TypeOK, Rooted, RequestFits
<1>17. ASSUME NEW r \in Requests, NeverArrives(r) PROVE Shape'
  <2>1. request' \in [Requests -> RequestRecords]
    BY <1>17, IdleIsRequest DEF NeverArrives, Shape, TypeOK
  <2>2. \A q \in Requests : request'[q] = Idle \/ request'[q] = request[q]
    BY <1>17 DEF NeverArrives, Shape, TypeOK
  <2>3. \A q \in Requests : RequestFits(q)'
    BY <1>17, <2>1, <2>2, TurnFits DEF NeverArrives, server
  <2> QED
    BY <1>17, <2>1, <2>3 DEF NeverArrives, server, client, Shape, TypeOK, Rooted
<1>18. ASSUME NEW r \in Requests, Disconnect(r) PROVE Shape'
  <2>1. request' \in [Requests -> RequestRecords]
    BY <1>18 DEF Disconnect, Shape, TypeOK, RequestRecords
  <2>2. \A q \in Requests : /\ request'[q].at = request[q].at
                            /\ request'[q].kind = request[q].kind
                            /\ request'[q].pair = request[q].pair
                            /\ request'[q].new = request[q].new
    BY <1>18 DEF Disconnect, Shape, TypeOK, RequestRecords
  <2>3. \A q \in Requests : RequestFits(q)'
    BY <1>18, <2>1, <2>2, TurnFits DEF Disconnect, server
  <2>4. wronged' \subseteq Tabs
    BY <1>18 DEF Disconnect, HeldBy, Shape, TypeOK
  <2> QED
    BY <1>18, <2>1, <2>3, <2>4 DEF Disconnect, server, client, Shape, TypeOK, Rooted
<1>19. ASSUME NEW r \in Requests, Deliver(r) PROVE Shape'
  <2> DEFINE c == request[r].tab
  <2>1. request' \in [Requests -> RequestRecords]
    BY <1>19, IdleIsRequest DEF Deliver, Shape, TypeOK
  <2>2. \A q \in Requests : request'[q] = Idle \/ request'[q] = request[q]
    BY <1>19 DEF Deliver, Shape, TypeOK
  <2>3. \A q \in Requests : RequestFits(q)'
    BY <1>19, <2>1, <2>2, TurnFits DEF Deliver, server
  <2>4. request[r].new \in Pairs \cup {None}
        /\ (request[r].new # None => root[request[r].new] # None)
    BY DEF Shape, TypeOK, RequestRecords, RequestFits
  <2>5. \/ UNCHANGED <<client, wronged>>
        \/ \E t \in {None, request[r].new}, b \in BOOLEAN :
              /\ tab' = [tab EXCEPT ![c] = t]
              /\ timer' = [timer EXCEPT ![c] = b]
              /\ wronged' = wronged \ {c}
    BY <1>19 DEF Deliver
  <2>6. /\ tab' \in [Tabs -> Pairs \cup {None}]
        /\ timer' \in [Tabs -> BOOLEAN]
        /\ wronged' \subseteq Tabs
        /\ \A d \in Tabs : tab'[d] # None => root[tab'[d]] # None
    BY <2>4, <2>5 DEF client, Shape, TypeOK, Rooted
  <2> QED
    BY <1>19, <2>1, <2>3, <2>6 DEF Deliver, server, Shape, TypeOK, Rooted
<1> QED
  BY <1>1, <1>2, <1>3, <1>4, <1>5, <1>6, <1>7, <1>8, <1>9, <1>10, <1>11, <1>12,
     <1>13, <1>14, <1>15, <1>16, <1>17, <1>18, <1>19 DEF Next, Handle

\* Whatever is sent, lost and raced, the variables keep their types.
THEOREM TypeCorrect == Spec => []TypeOK
<1>1. Shape => TypeOK
  BY DEF Shape
<1> QED
  BY <1>1, InitShape, ShapeStep, PTL DEF Spec

-----------------------------------------------------------------------------
\* What a step does to the lines: it only drops tokens and requests that carry
\* one, or a request takes its token from the store, or it mints the next.
Drops ==
    /\ root' = root
    /\ live' \subseteq live
    /\ \A r \in Requests :
          Carries(r)' => Carries(r) /\ request'[r].pair = request[r].pair

Takes(r) ==
    /\ root' = root
    /\ request[r].at = "consume"
    /\ request[r].pair \in live
    /\ live' = live \ {request[r].pair}
    /\ request'[r].pair = request[r].pair
    /\ \A q \in Requests : q # r => request'[q] = request[q]

Mints(r, t) ==
    /\ root[t] = None
    /\ \A s \in Pairs : s # t => root'[s] = root[s]
    /\ live' = live \cup {t}
    /\ \/ root'[t] = t
       \/ Carries(r) /\ root'[t] = root[request[r].pair]
    /\ ~Carries(r)'
    /\ \A q \in Requests : q # r => request'[q] = request[q]

LEMMA GotoEffect ==
    ASSUME Shape, NEW r \in Requests, NEW stage \in Stages \cup Responses, Goto(r, stage)
    PROVE  /\ \A q \in Requests : q # r => request'[q] = request[q]
           /\ request'[r].at = stage
           /\ request'[r].kind = request[r].kind
           /\ request'[r].pair = request[r].pair
BY DEF Goto, Shape, TypeOK, RequestRecords

LEMMA SendEffect ==
    ASSUME Shape, NEW r \in Requests, NEW c \in Tabs, NEW kind, NEW stage,
           Send(r, c, kind, stage), root' = root, live' = live,
           kind = "signin" \/ stage \in {"consume", "discard"}
    PROVE  Drops
<1>1. \A q \in Requests : q # r => request'[q] = request[q]
  BY DEF Send, Shape, TypeOK
<1>2. request'[r].kind = kind /\ request'[r].at = stage
  BY DEF Send, Shape, TypeOK
<1> QED
  BY <1>1, <1>2 DEF Drops, Carries

LEMMA StoreMints ==
    ASSUME Shape, NEW r \in Requests, NEW t \in Pairs, Store(r, t),
           request[r].at = "issue", request'[r].at \in Responses, UNCHANGED tab,
           \A q \in Requests : q # r => request'[q] = request[q]
    PROVE  Mints(r, t)
<1>1. request[r].kind = "signin" \/ request[r].kind = "refresh"
  BY DEF Shape, TypeOK, RequestRecords, RequestFits, Responses
<1>2. \/ root'[t] = t
      \/ Carries(r) /\ root'[t] = root[request[r].pair]
  BY <1>1, StoreRooted DEF Carries
<1>3. \A s \in Pairs : s # t => root'[s] = root[s]
  BY StoreRooted
<1> QED
  BY <1>2, <1>3 DEF Mints, Store, Carries, Responses

LEMMA StepKinds ==
    ASSUME Shape, [Next]_vars
    PROVE  \/ Drops
           \/ \E r \in Requests : Takes(r)
           \/ \E r \in Requests, t \in Pairs : Mints(r, t)
<1>1. CASE UNCHANGED vars
  BY <1>1 DEF vars, Drops, Carries
<1>2. ASSUME NEW c \in Tabs, NEW r \in Requests, SignIn(c, r) PROVE Drops
  BY <1>2, SendEffect DEF SignIn, server
<1>3. ASSUME NEW c \in Tabs, FireTimer(c) PROVE Drops
  <2>1. CASE UNCHANGED request
    BY <1>3, <2>1 DEF FireTimer, server, Drops, Carries
  <2>2. ASSUME NEW r \in Requests, Send(r, c, "refresh", "consume") PROVE Drops
    BY <1>3, <2>2, SendEffect DEF FireTimer, server
  <2> QED
    BY <1>3, <2>1, <2>2 DEF FireTimer
<1>4. ASSUME NEW c \in Tabs, NEW r \in Requests, Logout(c, r) PROVE Drops
  BY <1>4, SendEffect DEF Logout, server
<1>5. ASSUME NEW c \in Tabs, SignOut(c) PROVE Drops
  BY <1>5 DEF SignOut, server, Drops, Carries
<1>6. ASSUME NEW c \in Tabs, Reload(c) PROVE Drops
  <2>1. \A q \in Requests : /\ request'[q].at = request[q].at
                            /\ request'[q].kind = request[q].kind
                            /\ request'[q].pair = request[q].pair
    BY <1>6 DEF Reload, Shape, TypeOK, RequestRecords
  <2> QED
    BY <1>6, <2>1 DEF Reload, server, Drops, Carries
<1>7. ASSUME NEW r \in Requests, Consume(r) PROVE Drops \/ Takes(r)
  <2>1. CASE Goto(r, "read") /\ request[r].pair \in live
    <3>1. live' = live \ {request[r].pair} \/ Goto(r, "refused")
      BY <1>7 DEF Consume
    <3>2. ~Goto(r, "refused")
      BY <2>1, GotoEffect DEF Stages, Responses
    <3> QED
      BY <1>7, <2>1, <3>1, <3>2, GotoEffect DEF Consume, Takes, Stages
  <2>2. CASE Goto(r, "refused")
    BY <1>7, <2>2, GotoEffect DEF Consume, Drops, Carries, Responses
  <2> QED
    BY <1>7, <2>1, <2>2 DEF Consume
<1>8. ASSUME NEW r \in Requests, ReadUser(r) PROVE Drops
  <2>1. Goto(r, "issue") \/ Goto(r, "refused")
    BY <1>8 DEF ReadUser
  <2> QED
    BY <1>8, <2>1, GotoEffect DEF ReadUser, server, Drops, Carries, Stages, Responses
<1>9. ASSUME NEW r \in Requests, NEW t \in Pairs, Issue(r, t) PROVE Mints(r, t)
  <2>1. \A q \in Requests : q # r => request'[q] = request[q]
    BY <1>9 DEF Issue, Shape, TypeOK
  <2>2. request'[r].at \in Responses
    BY <1>9 DEF Issue, Shape, TypeOK, RequestRecords, Responses
  <2> QED
    BY <1>9, <2>1, <2>2, StoreMints DEF Issue, client
<1>10. ASSUME NEW r \in Requests, IssueFails(r)
       PROVE  Drops \/ \E t \in Pairs : Mints(r, t)
  <2>1. /\ \A q \in Requests : q # r => request'[q] = request[q]
        /\ request'[r].at = "failed"
    BY <1>10, GotoEffect DEF IssueFails, Responses
  <2>2. CASE UNCHANGED server
    BY <2>1, <2>2 DEF server, Drops, Carries
  <2>3. ASSUME NEW t \in Pairs, Store(r, t) PROVE Mints(r, t)
    BY <1>10, <2>1, <2>3, StoreMints DEF IssueFails, client, Responses
  <2> QED
    BY <1>10, <2>2, <2>3 DEF IssueFails
<1>11. ASSUME NEW r \in Requests, Discard(r) PROVE Drops
  <2>1. Goto(r, "refused") \/ Goto(r, "revoke")
    BY <1>11 DEF Discard
  <2> QED
    BY <1>11, <2>1, GotoEffect DEF Discard, Drops, Carries, Stages, Responses
<1>12. ASSUME NEW r \in Requests, RevokeAccess(r) PROVE Drops
  BY <1>12, GotoEffect DEF RevokeAccess, server, Drops, Carries, Responses
<1>13. CASE Deactivate
  BY <1>13 DEF Deactivate, server, Drops, Carries
<1>14. CASE Reactivate
  <2>1. \A q \in Requests : /\ request'[q].at = request[q].at
                            /\ request'[q].kind = request[q].kind
                            /\ request'[q].pair = request[q].pair
    BY <1>14 DEF Reactivate, Shape, TypeOK, RequestRecords
  <2> QED
    BY <1>14, <2>1 DEF Reactivate, server, Drops, Carries
<1>15. ASSUME NEW t \in Pairs, RefreshExpires(t) PROVE Drops
  BY <1>15 DEF RefreshExpires, Drops, Carries
<1>16. ASSUME NEW t \in Pairs, AccessExpires(t) PROVE Drops
  BY <1>16 DEF AccessExpires, server, Drops, Carries
<1>17. ASSUME NEW r \in Requests, NeverArrives(r) \/ Deliver(r) PROVE Drops
  <2>1. \A q \in Requests : request'[q] = Idle \/ request'[q] = request[q]
    BY <1>17 DEF NeverArrives, Deliver, Shape, TypeOK
  <2>2. UNCHANGED server
    BY <1>17 DEF NeverArrives, Deliver, server
  <2> QED
    BY <2>1, <2>2 DEF server, Drops, Carries, Idle
<1>18. ASSUME NEW r \in Requests, Disconnect(r) PROVE Drops
  <2>1. \A q \in Requests : /\ request'[q].at = request[q].at
                            /\ request'[q].kind = request[q].kind
                            /\ request'[q].pair = request[q].pair
    BY <1>18 DEF Disconnect, Shape, TypeOK, RequestRecords
  <2> QED
    BY <1>18, <2>1 DEF Disconnect, server, Drops, Carries
<1> QED
  BY <1>1, <1>2, <1>3, <1>4, <1>5, <1>6, <1>7, <1>8, <1>9, <1>10, <1>11, <1>12,
     <1>13, <1>14, <1>15, <1>16, <1>17, <1>18 DEF Next, Handle

LEMMA CarriedWasMinted ==
    ASSUME Shape, NEW r \in Requests, Carries(r)
    PROVE  request[r].pair \in Pairs /\ root[request[r].pair] # None
BY DEF Shape, TypeOK, RequestRecords, RequestFits, Carries

LEMMA HolderStep ==
    ASSUME Shape, OneHolder, [Next]_vars
    PROVE  OneHolder'
<1>1. CASE Drops
  <2>1. \A s, t \in live' : root'[s] = root'[t] => s = t
    BY <1>1 DEF Drops, OneHolder
  <2>2. \A q, r \in Requests :
           Carries(q)' /\ Carries(r)' /\ root'[request'[q].pair] = root'[request'[r].pair]
           => q = r
    BY <1>1 DEF Drops, OneHolder
  <2>3. \A r \in Requests, t \in live' : Carries(r)' => root'[request'[r].pair] # root'[t]
    BY <1>1 DEF Drops, OneHolder
  <2> QED
    BY <2>1, <2>2, <2>3 DEF OneHolder, Carries
<1>2. ASSUME NEW r \in Requests, Takes(r) PROVE OneHolder'
  <2> DEFINE p == request[r].pair
  <2>1. \A s, t \in live' : root'[s] = root'[t] => s = t
    BY <1>2 DEF Takes, OneHolder
  <2>2. \A q \in Requests : q # r => (Carries(q)' <=> Carries(q))
    BY <1>2 DEF Takes, Carries
  <2>3. \A q \in Requests : Carries(q)' => q = r \/ root'[request'[q].pair] # root'[p]
    BY <1>2, <2>2 DEF Takes, OneHolder
  <2>4. \A q, s \in Requests :
           Carries(q)' /\ Carries(s)' /\ root'[request'[q].pair] = root'[request'[s].pair]
           => q = s
    BY <1>2, <2>2, <2>3 DEF Takes, OneHolder
  <2>5. \A t \in live' : root'[t] # root'[p]
    BY <1>2 DEF Takes, OneHolder
  <2>6. \A q \in Requests, t \in live' : Carries(q)' => root'[request'[q].pair] # root'[t]
    BY <1>2, <2>2, <2>5 DEF Takes, OneHolder
  <2> QED
    BY <2>1, <2>4, <2>6 DEF OneHolder, Carries
<1>3. ASSUME NEW r \in Requests, NEW t \in Pairs, Mints(r, t) PROVE OneHolder'
  <2>1. live \subseteq Pairs /\ t \notin live /\ \A s \in live : root'[s] = root[s]
    BY <1>3 DEF Mints, Shape, TypeOK, Rooted
  <2>2. \A s \in Pairs : root[s] # t
    BY <1>3, ConstantsAssumption DEF Mints, Shape, TypeOK, Rooted
  <2>3. \A q \in Requests : Carries(q)' => q # r /\ Carries(q) /\ request'[q] = request[q]
    BY <1>3 DEF Mints, Carries
  <2>4. \A q \in Requests : Carries(q)' => root'[request'[q].pair] = root[request[q].pair]
    BY <1>3, <2>3, CarriedWasMinted DEF Mints
  <2>5. \A s \in live : root'[s] # root'[t]
    BY <1>3, <2>1, <2>2 DEF Mints, OneHolder
  <2>6. \A q \in Requests : Carries(q)' => root'[request'[q].pair] # root'[t]
    BY <1>3, <2>2, <2>3, <2>4, CarriedWasMinted DEF Mints, OneHolder
  <2>7. \A s, u \in live' : root'[s] = root'[u] => s = u
    BY <1>3, <2>1, <2>5 DEF Mints, OneHolder
  <2>8. \A q, s \in Requests :
           Carries(q)' /\ Carries(s)' /\ root'[request'[q].pair] = root'[request'[s].pair]
           => q = s
    BY <2>3, <2>4 DEF OneHolder
  <2>9. \A q \in Requests, u \in live' : Carries(q)' => root'[request'[q].pair] # root'[u]
    BY <1>3, <2>1, <2>3, <2>4, <2>6 DEF Mints, OneHolder
  <2> QED
    BY <2>7, <2>8, <2>9 DEF OneHolder, Carries
<1> QED
  BY <1>1, <1>2, <1>3, StepKinds

\* A line of refresh tokens has one holder, for any number of tabs, requests
\* and replicas: consume is atomic and every mint was paid for with a token.
THEOREM SingleHolder == Spec => []OneHolder
<1>1. Init => OneHolder
  BY DEF Init, OneHolder, Carries, Idle
<1>2. Shape /\ OneHolder /\ [Next]_vars => OneHolder'
  BY HolderStep
<1> QED
  BY <1>1, <1>2, InitShape, ShapeStep, PTL DEF Spec

\* A line that has no holder has ended for good.
THEOREM EndedForGood == Spec => EndedStaysEnded
<1>1. Shape /\ [Next]_vars => \A f \in Pairs : Ended(f) => Ended(f)'
  <2> SUFFICES ASSUME Shape, [Next]_vars, NEW f \in Pairs, Ended(f) PROVE Ended(f)'
    OBVIOUS
  <2>1. CASE Drops
    BY <2>1 DEF Drops, Ended, Carries
  <2>2. ASSUME NEW r \in Requests, Takes(r) PROVE Ended(f)'
    BY <2>2 DEF Takes, Ended, Carries
  <2>3. ASSUME NEW r \in Requests, NEW t \in Pairs, Mints(r, t) PROVE Ended(f)'
    <3>1. f # t /\ root'[f] = f
      BY <2>3, ConstantsAssumption DEF Mints, Ended
    <3>2. \A s \in live' : root'[s] # f
      BY <2>3, <3>1 DEF Mints, Ended, Shape, TypeOK
    <3>3. \A q \in Requests : Carries(q)' => q # r /\ Carries(q) /\ request'[q] = request[q]
      BY <2>3 DEF Mints, Carries
    <3>4. \A q \in Requests : Carries(q)' => root'[request'[q].pair] # f
      BY <2>3, <3>3, CarriedWasMinted DEF Mints, Ended
    <3> QED
      BY <3>1, <3>2, <3>4 DEF Ended, Carries
  <2> QED
    BY <2>1, <2>2, <2>3, StepKinds
<1> QED
  BY <1>1, InitShape, ShapeStep, PTL DEF Spec, EndedStaysEnded

\* A logout that finds the token in the store leaves its line without a holder.
THEOREM LogoutIsFinal == Spec => LogoutEnds
<1> DEFINE L == \A r \in Requests, f \in Pairs :
                   /\ request[r].at = "discard" /\ request'[r].at = "revoke"
                   /\ request[r].pair \in live /\ request[r].pair \notin live'
                   /\ root[request[r].pair] = f
                   => Ended(f)'
<1>1. Shape /\ OneHolder /\ [Next]_vars => L
  <2> SUFFICES ASSUME Shape, OneHolder, [Next]_vars, NEW r \in Requests,
                      request[r].at = "discard", request'[r].at = "revoke",
                      request[r].pair \in live, request[r].pair \notin live',
                      NEW f \in Pairs, root[request[r].pair] = f
               PROVE  Ended(f)'
    OBVIOUS
  <2> DEFINE p == request[r].pair
  <2>1. p \in Pairs /\ root[p] # None /\ root[f] = f
    BY DEF Shape, TypeOK, Rooted
  <2>2. request'[r] # request[r]
    OBVIOUS
  <2>3. Drops
    <3>1. ~ \E q \in Requests : Takes(q)
      BY <2>2 DEF Takes
    <3>2. ~ \E q \in Requests, t \in Pairs : Mints(q, t)
      BY DEF Mints
    <3> QED
      BY <3>1, <3>2, StepKinds
  <2>4. root' = root /\ root'[f] = f
    BY <2>1, <2>3 DEF Drops
  <2>5. \A s \in live' : root[s] # f
    BY <2>3 DEF Drops, OneHolder
  <2>6. \A q \in Requests : Carries(q)' => root[request'[q].pair] # f
    BY <2>3 DEF Drops, OneHolder
  <2> QED
    BY <2>4, <2>5, <2>6 DEF Ended, Carries
<1> QED
  BY <1>1, SingleHolder, InitShape, ShapeStep, PTL DEF Spec, LogoutEnds

-----------------------------------------------------------------------------
\* A barred request has not passed the user's status, which is not active.
BarredInv ==
    /\ DeactivatedNeverMints
    /\ \A r \in Requests : request[r].barred => account # "active"

\* Requests that end or keep their stage.
LEMMA KeepsBarred ==
    ASSUME BarredInv, request' \in [Requests -> RequestRecords],
           account' = account,
           \A q \in Requests :
              \/ request'[q] = Idle
              \/ /\ request'[q].at = request[q].at \/ request'[q].at # "issue"
                 /\ request'[q].new = request[q].new \/ request[q].at = "issue"
                 /\ request'[q].barred = request[q].barred
    PROVE  BarredInv'
<1> SUFFICES ASSUME NEW q \in Requests
             PROVE  /\ request'[q].at = "issue" \/ request'[q].new # None => ~request'[q].barred
                    /\ request'[q].barred => account # "active"
  BY DEF BarredInv, DeactivatedNeverMints
<1>1. CASE request'[q] = Idle
  BY <1>1 DEF Idle
<1>2. CASE request'[q] # Idle
  BY <1>2 DEF BarredInv, DeactivatedNeverMints
<1> QED
  BY <1>1, <1>2

LEMMA GotoKeepsRest ==
    ASSUME Shape, NEW r \in Requests, NEW stage \in Stages \cup Responses, Goto(r, stage)
    PROVE  /\ \A q \in Requests : q # r => request'[q] = request[q]
           /\ request'[r].at = stage
           /\ request'[r].new = request[r].new
           /\ request'[r].barred = request[r].barred
BY DEF Goto, Shape, TypeOK, RequestRecords

LEMMA SendBarred ==
    ASSUME Shape, BarredInv, NEW r \in Requests, NEW c \in Tabs, NEW kind, NEW stage,
           Send(r, c, kind, stage), stage # "issue", account' = account
    PROVE  BarredInv'
<1>1. \A q \in Requests : q # r => request'[q] = request[q]
  BY DEF Send, Shape, TypeOK
<1>2. request'[r].at = stage /\ request'[r].new = None
  BY DEF Send, Shape, TypeOK
<1>3. request'[r].barred => account # "active"
  <2>1. request'[r].barred = (account # "active")
    BY DEF Send, Shape, TypeOK
  <2> QED
    BY <2>1, Zenon
<1> QED
  BY <1>1, <1>2, <1>3 DEF BarredInv, DeactivatedNeverMints

\* A request that was sent after the account was deactivated, and has been
\* barred ever since, mints nothing: the user is read after the token is taken.
THEOREM DeactivatedRefused == Spec => []DeactivatedNeverMints
<1>1. Init => BarredInv
  BY DEF Init, BarredInv, DeactivatedNeverMints, Idle
<1>2. Shape /\ Shape' /\ BarredInv /\ [Next]_vars => BarredInv'
  <2> SUFFICES ASSUME Shape, Shape', BarredInv, [Next]_vars PROVE BarredInv'
    OBVIOUS
  <2> USE DEF server
  <2>0. request' \in [Requests -> RequestRecords]
    BY DEF Shape, TypeOK
  <2>1. CASE UNCHANGED vars
    BY <2>1 DEF vars, BarredInv, DeactivatedNeverMints
  <2>2. ASSUME NEW c \in Tabs, NEW r \in Requests, SignIn(c, r) \/ Logout(c, r)
        PROVE  BarredInv'
    BY <2>2, SendBarred DEF SignIn, Logout
  <2>3. ASSUME NEW c \in Tabs, FireTimer(c) PROVE BarredInv'
    <3>1. CASE UNCHANGED request
      BY <2>3, <3>1 DEF FireTimer, BarredInv, DeactivatedNeverMints
    <3>2. ASSUME NEW r \in Requests, Send(r, c, "refresh", "consume") PROVE BarredInv'
      BY <2>3, <3>2, SendBarred DEF FireTimer
    <3> QED
      BY <2>3, <3>1, <3>2 DEF FireTimer
  <2>4. ASSUME NEW c \in Tabs, SignOut(c) PROVE BarredInv'
    BY <2>4 DEF SignOut, BarredInv, DeactivatedNeverMints
  <2>5. ASSUME NEW c \in Tabs, Reload(c) PROVE BarredInv'
    <3>1. \A q \in Requests : /\ request'[q].at = request[q].at
                              /\ request'[q].new = request[q].new
                              /\ request'[q].barred = request[q].barred
      BY <2>5 DEF Reload, Shape, TypeOK, RequestRecords
    <3> QED
      BY <2>0, <2>5, <3>1, KeepsBarred DEF Reload
  <2>6. ASSUME NEW r \in Requests, Consume(r) PROVE BarredInv'
    <3>1. Goto(r, "read") \/ Goto(r, "refused")
      BY <2>6 DEF Consume
    <3> QED
      BY <2>0, <2>6, <3>1, GotoKeepsRest, KeepsBarred DEF Consume, Stages, Responses
  <2>7. ASSUME NEW r \in Requests, ReadUser(r) PROVE BarredInv'
    <3>1. CASE Goto(r, "refused")
      BY <2>0, <2>7, <3>1, GotoKeepsRest, KeepsBarred DEF ReadUser, Responses
    <3>2. CASE Goto(r, "issue") /\ account = "active"
      BY <2>7, <3>2, GotoKeepsRest DEF ReadUser, Stages, BarredInv, DeactivatedNeverMints
    <3> QED
      BY <2>7, <3>1, <3>2 DEF ReadUser
  <2>8. ASSUME NEW r \in Requests, NEW t \in Pairs, Issue(r, t) PROVE BarredInv'
    <3>1. /\ \A q \in Requests : q # r => request'[q] = request[q]
          /\ request'[r].at = "ok"
          /\ request'[r].barred = request[r].barred
      BY <2>8 DEF Issue, Shape, TypeOK, RequestRecords
    <3> QED
      BY <2>0, <2>8, <3>1, KeepsBarred DEF Issue
  <2>9. ASSUME NEW r \in Requests, IssueFails(r) PROVE BarredInv'
    BY <2>0, <2>9, GotoKeepsRest, KeepsBarred DEF IssueFails, Responses
  <2>10. ASSUME NEW r \in Requests, Discard(r) PROVE BarredInv'
    <3>1. Goto(r, "refused") \/ Goto(r, "revoke")
      BY <2>10 DEF Discard
    <3> QED
      BY <2>0, <2>10, <3>1, GotoKeepsRest, KeepsBarred DEF Discard, Stages, Responses
  <2>11. ASSUME NEW r \in Requests, RevokeAccess(r) PROVE BarredInv'
    BY <2>0, <2>11, GotoKeepsRest, KeepsBarred DEF RevokeAccess, Responses
  <2>12. CASE Deactivate
    BY <2>12 DEF Deactivate, BarredInv, DeactivatedNeverMints
  <2>13. CASE Reactivate
    <3>1. \A q \in Requests : ~request'[q].barred
      BY <2>13 DEF Reactivate, Shape, TypeOK, RequestRecords
    <3> QED
      BY <3>1 DEF BarredInv, DeactivatedNeverMints
  <2>14. ASSUME NEW t \in Pairs, RefreshExpires(t) \/ AccessExpires(t) PROVE BarredInv'
    BY <2>14 DEF RefreshExpires, AccessExpires, BarredInv, DeactivatedNeverMints
  <2>15. ASSUME NEW r \in Requests, NeverArrives(r) \/ Deliver(r) PROVE BarredInv'
    <3>1. \A q \in Requests : request'[q] = Idle \/ request'[q] = request[q]
      BY <2>15 DEF NeverArrives, Deliver, Shape, TypeOK
    <3>2. account' = account
      BY <2>15 DEF NeverArrives, Deliver
    <3> QED
      BY <2>0, <3>1, <3>2, KeepsBarred
  <2>16. ASSUME NEW r \in Requests, Disconnect(r) PROVE BarredInv'
    <3>1. \A q \in Requests : /\ request'[q].at = request[q].at
                              /\ request'[q].new = request[q].new
                              /\ request'[q].barred = request[q].barred
      BY <2>16 DEF Disconnect, Shape, TypeOK, RequestRecords
    <3> QED
      BY <2>0, <2>16, <3>1, KeepsBarred DEF Disconnect
  <2> QED
    BY <2>1, <2>2, <2>3, <2>4, <2>5, <2>6, <2>7, <2>8, <2>9, <2>10, <2>11, <2>12,
       <2>13, <2>14, <2>15, <2>16 DEF Next, Handle
<1>3. BarredInv => DeactivatedNeverMints
  BY DEF BarredInv
<1> QED
  BY <1>1, <1>2, <1>3, InitShape, ShapeStep, PTL DEF Spec
-----------------------------------------------------------------------------
\* A pair on its way to a tab is in the store, and nobody has it yet.
Fresh ==
    \A r \in Requests : request[r].new # None =>
       /\ request[r].at = "ok" /\ request[r].new \in live
       /\ \A c \in Tabs : tab[c] # request[r].new
       /\ \A q \in Requests :
             /\ request[q].kind # "signin" => request[q].pair # request[r].new
             /\ q # r => request[q].new # request[r].new

\* No two tabs hold one pair, and what a request presents is held by the tab
\* that waits for its response, or by one that a fault has parted from it.
Owned ==
    /\ \A c, d \in Tabs : tab[c] # None /\ tab[c] = tab[d] => c = d
    /\ \A r \in Requests, c \in Tabs :
          request[r].kind # "signin" /\ request[r].pair = tab[c]
          => request[r].tab = c \/ c \in wronged

\* Request r may have spent the token that c holds, and c will hear of it.
Attends(r, c) ==
    /\ request[r].tab = c /\ request[r].pair = tab[c]
    /\ \/ request[r].kind = "refresh" /\ request[r].at \in {"read", "issue", "ok", "refused"}
       \/ request[r].kind = "logout" /\ request[r].at \in {"revoke", "ok"}

Accounted ==
    \A c \in Tabs :
       tab[c] # None => tab[c] \in live \/ c \in wronged \/ \E r \in Requests : Attends(r, c)

SpentInv == Fresh /\ Owned /\ Accounted

\* A handler moves on and may take what its request presents from the store.
LEMMA HandlerSpent ==
    ASSUME Shape, SpentInv, NEW r \in Requests, NEW stage \in Stages \cup Responses,
           Goto(r, stage), request[r].at \in Stages,
           tab' = tab, wronged' = wronged,
           \/ live' = live
           \/ request[r].kind # "signin" /\ live' = live \ {request[r].pair},
           \/ request[r].kind = "signin"
           \/ request[r].kind = "refresh" /\ stage \in {"read", "issue", "refused"}
           \/ request[r].kind = "logout" /\ stage \in {"revoke", "ok"}
           \/ request[r].at = "discard" /\ live' = live
    PROVE  SpentInv'
<1>1. /\ \A q \in Requests : q # r => request'[q] = request[q]
      /\ request'[r].at = stage
      /\ request'[r].kind = request[r].kind /\ request'[r].tab = request[r].tab
      /\ request'[r].pair = request[r].pair /\ request'[r].new = request[r].new
  BY DEF Goto, Shape, TypeOK, RequestRecords
<1>2. request[r].new = None
  BY DEF Stages, SpentInv, Fresh
<1>3. Fresh'
  <2> SUFFICES ASSUME NEW p \in Requests, request'[p].new # None
               PROVE  /\ request'[p].at = "ok" /\ request'[p].new \in live'
                      /\ \A c \in Tabs : tab'[c] # request'[p].new
                      /\ \A q \in Requests :
                            /\ request'[q].kind # "signin" => request'[q].pair # request'[p].new
                            /\ q # p => request'[q].new # request'[p].new
    BY DEF Fresh
  <2>1. p # r /\ request'[p] = request[p] /\ request[p].new # None
    BY <1>1, <1>2
  <2>2. request[p].new \in live'
    BY <2>1 DEF SpentInv, Fresh
  <2> QED
    BY <1>1, <2>1, <2>2 DEF SpentInv, Fresh
<1>4. Owned'
  BY <1>1 DEF SpentInv, Owned
<1>5. ASSUME NEW c \in Tabs, tab'[c] # None
      PROVE  tab'[c] \in live' \/ c \in wronged' \/ \E q \in Requests : Attends(q, c)'
  <2>1. CASE tab[c] \in live /\ tab[c] \notin live'
    <3>1. /\ tab[c] = request[r].pair /\ request[r].kind \in {"refresh", "logout"}
          /\ stage \in {"read", "issue", "refused", "revoke", "ok"}
      BY <2>1 DEF Shape, TypeOK, RequestRecords
    <3>2. request[r].tab = c \/ c \in wronged
      BY <3>1 DEF SpentInv, Owned
    <3>3. request[r].tab = c => Attends(r, c)'
      BY <1>1, <2>1, <3>1 DEF Attends
    <3> QED
      BY <3>2, <3>3
  <2>2. CASE tab[c] \notin live
    <3>1. c \in wronged \/ \E q \in Requests : Attends(q, c)
      BY <1>5, <2>2 DEF SpentInv, Accounted
    <3>2. ASSUME NEW q \in Requests, Attends(q, c) PROVE Attends(q, c)'
      <4>1. CASE q # r
        BY <1>1, <3>2, <4>1 DEF Attends
      <4>2. CASE q = r
        BY <1>1, <3>2, <4>2 DEF Attends, Stages
      <4> QED
        BY <4>1, <4>2
    <3> QED
      BY <3>1, <3>2
  <2> QED
    BY <2>1, <2>2
<1>6. Accounted'
  BY <1>5 DEF Accounted
<1> QED
  BY <1>3, <1>4, <1>6 DEF SpentInv

\* A tab sends a request that presents what it holds.
LEMMA SendSpent ==
    ASSUME Shape, SpentInv, NEW r \in Requests, NEW c \in Tabs, NEW kind, NEW stage,
           Send(r, c, kind, stage), kind = "signin" \/ tab[c] # None,
           tab' = tab, wronged' = wronged, live' = live
    PROVE  SpentInv'
<1>1. /\ \A q \in Requests : q # r => request'[q] = request[q]
      /\ request'[r].tab = c /\ request'[r].pair = tab[c] /\ request'[r].new = None
      /\ request'[r].kind = kind
  BY DEF Send, Shape, TypeOK
<1>2. Fresh'
  BY <1>1 DEF SpentInv, Fresh
<1>3. Owned'
  <2> SUFFICES ASSUME NEW q \in Requests, NEW d \in Tabs,
                      request'[q].kind # "signin", request'[q].pair = tab'[d]
               PROVE  request'[q].tab = d \/ d \in wronged'
    BY DEF SpentInv, Owned
  <2>1. CASE q = r
    BY <1>1, <2>1 DEF SpentInv, Owned
  <2>2. CASE q # r
    BY <1>1, <2>2 DEF SpentInv, Owned
  <2> QED
    BY <2>1, <2>2
<1>4. ~ \E d \in Tabs : Attends(r, d)
  BY DEF Send, Busy, Attends
<1>5. Accounted'
  <2> SUFFICES ASSUME NEW d \in Tabs, tab[d] # None
               PROVE  tab[d] \in live \/ d \in wronged \/ \E q \in Requests : Attends(q, d)'
    BY DEF Accounted
  <2>1. ASSUME NEW q \in Requests, Attends(q, d) PROVE Attends(q, d)'
    BY <1>1, <1>4, <2>1 DEF Attends
  <2> QED
    BY <2>1 DEF SpentInv, Accounted
<1> QED
  BY <1>2, <1>3, <1>5 DEF SpentInv

\* A pair is minted: it is new to everyone.
LEMMA MintSpent ==
    ASSUME Shape, SpentInv, NEW r \in Requests, NEW t \in Pairs, Issue(r, t)
    PROVE  SpentInv'
<1>1. /\ \A q \in Requests : q # r => request'[q] = request[q]
      /\ request'[r].at = "ok" /\ request'[r].new = t
      /\ request'[r].kind = request[r].kind /\ request'[r].tab = request[r].tab
      /\ request'[r].pair = request[r].pair
  BY DEF Issue, Shape, TypeOK, RequestRecords
<1>2. /\ live' = live \cup {t} /\ tab' = tab /\ wronged' = wronged
      /\ root[t] = None /\ t # None /\ request[r].at = "issue"
  BY ConstantsAssumption DEF Issue, Store, client
<1>3. /\ \A c \in Tabs : tab[c] # t
      /\ \A q \in Requests : request[q].kind # "signin" => request[q].pair # t
      /\ \A q \in Requests : request[q].new # t
  BY <1>2 DEF Shape, Rooted, RequestFits
<1>4. Fresh'
  <2> SUFFICES ASSUME NEW p \in Requests, request'[p].new # None
               PROVE  /\ request'[p].at = "ok" /\ request'[p].new \in live'
                      /\ \A c \in Tabs : tab'[c] # request'[p].new
                      /\ \A q \in Requests :
                            /\ request'[q].kind # "signin" => request'[q].pair # request'[p].new
                            /\ q # p => request'[q].new # request'[p].new
    BY DEF Fresh
  <2>1. CASE p = r
    BY <1>1, <1>2, <1>3, <2>1
  <2>2. CASE p # r
    BY <1>1, <1>2, <1>3, <2>2 DEF SpentInv, Fresh
  <2> QED
    BY <2>1, <2>2
<1>5. Owned'
  BY <1>1, <1>2 DEF SpentInv, Owned
<1>6. ASSUME NEW c \in Tabs, NEW q \in Requests, Attends(q, c) PROVE Attends(q, c)'
  <2>1. CASE q = r
    BY <1>1, <1>2, <1>6, <2>1 DEF Attends
  <2>2. CASE q # r
    BY <1>1, <1>2, <1>6, <2>2 DEF Attends
  <2> QED
    BY <2>1, <2>2
<1>7. Accounted'
  BY <1>2, <1>6 DEF SpentInv, Accounted
<1> QED
  BY <1>4, <1>5, <1>7 DEF SpentInv

\* The store fails: whoever waits for the successor is parted from it.
LEMMA FailSpent ==
    ASSUME Shape, SpentInv, NEW r \in Requests, IssueFails(r)
    PROVE  SpentInv'
<1>1. /\ \A q \in Requests : q # r => request'[q] = request[q]
      /\ request'[r].kind = request[r].kind /\ request'[r].tab = request[r].tab
      /\ request'[r].pair = request[r].pair /\ request'[r].new = request[r].new
  BY DEF IssueFails, Goto, Shape, TypeOK, RequestRecords
<1>2. live \subseteq live' /\ tab' = tab /\ request[r].at = "issue"
  BY DEF IssueFails, Store, server, client
<1>3. wronged' = wronged \cup {c \in Tabs : request[r].pair # None /\ tab[c] = request[r].pair}
  BY DEF IssueFails, HeldBy
<1>4. request[r].new = None
  BY <1>2 DEF SpentInv, Fresh
<1>5. Fresh'
  <2> SUFFICES ASSUME NEW p \in Requests, request'[p].new # None
               PROVE  /\ request'[p].at = "ok" /\ request'[p].new \in live'
                      /\ \A c \in Tabs : tab'[c] # request'[p].new
                      /\ \A q \in Requests :
                            /\ request'[q].kind # "signin" => request'[q].pair # request'[p].new
                            /\ q # p => request'[q].new # request'[p].new
    BY DEF Fresh
  <2>1. p # r /\ request'[p] = request[p]
    BY <1>1, <1>4
  <2> QED
    BY <1>1, <1>2, <2>1 DEF SpentInv, Fresh
<1>6. Owned'
  BY <1>1, <1>2, <1>3 DEF SpentInv, Owned
<1>7. ASSUME NEW c \in Tabs, tab[c] # None, NEW q \in Requests, Attends(q, c)
      PROVE  c \in wronged' \/ Attends(q, c)'
  <2>1. CASE q = r
    BY <1>3, <1>7, <2>1 DEF Attends
  <2>2. CASE q # r
    BY <1>1, <1>2, <1>7, <2>2 DEF Attends
  <2> QED
    BY <2>1, <2>2
<1>8. Accounted'
  BY <1>2, <1>3, <1>7 DEF SpentInv, Accounted
<1> QED
  BY <1>5, <1>6, <1>8 DEF SpentInv

\* Requests of gone reach their tabs no more, and a fault is noted of each tab
\* that waited.
LEMMA PartSpent ==
    ASSUME Shape, SpentInv, NEW gone \in SUBSET Requests,
           \A q \in Requests :
              /\ request'[q].at = request[q].at /\ request'[q].kind = request[q].kind
              /\ request'[q].pair = request[q].pair /\ request'[q].new = request[q].new
              /\ q \notin gone => request'[q].tab = request[q].tab,
           live' = live, tab' = tab, wronged \subseteq wronged',
           \A q \in gone, c \in Tabs :
              request[q].kind # "signin" /\ request[q].tab = c /\ request[q].pair = tab[c]
              => c \in wronged'
    PROVE  SpentInv'
<1>1. Fresh'
  BY DEF SpentInv, Fresh
<1>2. Owned'
  <2> SUFFICES ASSUME NEW q \in Requests, NEW c \in Tabs,
                      request'[q].kind # "signin", request'[q].pair = tab'[c]
               PROVE  request'[q].tab = c \/ c \in wronged'
    BY DEF SpentInv, Owned
  <2>1. request[q].tab = c \/ c \in wronged
    BY DEF SpentInv, Owned
  <2> QED
    BY <2>1
<1>3. ASSUME NEW c \in Tabs, NEW q \in Requests, Attends(q, c)
      PROVE  c \in wronged' \/ Attends(q, c)'
  BY <1>3 DEF Attends
<1>4. Accounted'
  BY <1>3 DEF SpentInv, Accounted
<1> QED
  BY <1>1, <1>2, <1>4 DEF SpentInv

\* Request r ends, and the tab it answered takes what it brought or signs out.
LEMMA DeliverSpent ==
    ASSUME Shape, SpentInv, NEW r \in Requests, Deliver(r)
    PROVE  SpentInv'
<1> DEFINE c == request[r].tab
<1>1. /\ \A q \in Requests : q # r => request'[q] = request[q]
      /\ request'[r].kind = "signin" /\ request'[r].new = None /\ request'[r].at = "idle"
  BY DEF Deliver, Idle, Shape, TypeOK
<1>2. live' = live
  BY DEF Deliver, server
<1> DEFINE Dropped ==
       /\ tab' = tab /\ wronged' = wronged
       /\ \/ ~Current(r) \/ request[r].at = "failed"
          \/ request[r].at = "refused" /\ request[r].kind # "refresh"
<1>3. CASE Dropped
  <2>1. Fresh' /\ Owned'
    BY <1>1, <1>2, <1>3 DEF SpentInv, Fresh, Owned
  <2>2. ASSUME NEW d \in Tabs, NEW q \in Requests, Attends(q, d) PROVE Attends(q, d)'
    <3>1. q # r
      BY <1>3, <2>2, ConstantsAssumption DEF Attends, Current
    <3> QED
      BY <1>1, <1>3, <2>2, <3>1 DEF Attends
  <2>3. Accounted'
    BY <1>2, <1>3, <2>2 DEF SpentInv, Accounted
  <2> QED
    BY <2>1, <2>3 DEF SpentInv
<1>4. ASSUME NEW t \in {None, request[r].new}, Current(r),
             tab' = [tab EXCEPT ![c] = t], wronged' = wronged \ {c}
      PROVE  SpentInv'
  <2>1. c \in Tabs
    BY <1>4 DEF Current, Shape, TypeOK, RequestRecords
  <2>2. tab'[c] = t /\ \A d \in Tabs : d # c => tab'[d] = tab[d]
    BY <1>4, <2>1 DEF Shape, TypeOK
  <2>3. t # None => t = request[r].new /\ t \in live
    BY DEF SpentInv, Fresh
  <2>4. /\ \A d \in Tabs : t # None => tab[d] # t
        /\ \A q \in Requests : t # None /\ request[q].kind # "signin" => request[q].pair # t
        /\ \A q \in Requests : q # r /\ request[q].new # None => request[q].new # t
    BY <2>3 DEF SpentInv, Fresh
  <2>5. Fresh'
    <3> SUFFICES ASSUME NEW p \in Requests, request'[p].new # None
                 PROVE  /\ request'[p].at = "ok" /\ request'[p].new \in live'
                        /\ \A d \in Tabs : tab'[d] # request'[p].new
                        /\ \A q \in Requests :
                              /\ request'[q].kind # "signin" => request'[q].pair # request'[p].new
                              /\ q # p => request'[q].new # request'[p].new
      BY DEF Fresh
    <3>1. p # r /\ request'[p] = request[p] /\ request[p].new # t
      BY <1>1, <2>4
    <3>2. \A d \in Tabs : tab'[d] # request[p].new
      BY <2>2, <3>1 DEF SpentInv, Fresh
    <3> QED
      BY <1>1, <1>2, <3>1, <3>2 DEF SpentInv, Fresh
  <2>6. Owned'
    <3>1. \A a, b \in Tabs : tab'[a] # None /\ tab'[a] = tab'[b] => a = b
      BY <2>2, <2>4 DEF SpentInv, Owned
    <3>2. \A q \in Requests, d \in Tabs :
             request'[q].kind # "signin" /\ request'[q].pair = tab'[d]
             => request'[q].tab = d \/ d \in wronged'
      <4> SUFFICES ASSUME NEW q \in Requests, NEW d \in Tabs,
                          request'[q].kind # "signin", request'[q].pair = tab'[d]
                   PROVE  request'[q].tab = d \/ d \in wronged'
        OBVIOUS
      <4>1. q # r /\ request'[q] = request[q]
        BY <1>1
      <4>2. request[q].pair # None
        BY <4>1 DEF Shape, RequestFits
      <4>3. d # c
        BY <2>2, <2>4, <4>1, <4>2
      <4> QED
        BY <1>4, <2>2, <4>1, <4>3 DEF SpentInv, Owned
    <3> QED
      BY <3>1, <3>2 DEF Owned
  <2>7. ASSUME NEW d \in Tabs, tab'[d] # None
        PROVE  tab'[d] \in live' \/ d \in wronged' \/ \E q \in Requests : Attends(q, d)'
    <3>1. CASE d = c
      BY <1>2, <2>2, <2>3, <2>7, <3>1
    <3>2. CASE d # c
      <4>1. ASSUME NEW q \in Requests, Attends(q, d) PROVE Attends(q, d)'
        <5>1. q # r
          BY <3>2, <4>1 DEF Attends
        <5> QED
          BY <1>1, <2>2, <3>2, <4>1, <5>1 DEF Attends
      <4> QED
        BY <1>2, <1>4, <2>2, <2>7, <3>2, <4>1 DEF SpentInv, Accounted
    <3> QED
      BY <3>1, <3>2
  <2> QED
    BY <2>5, <2>6, <2>7 DEF SpentInv, Accounted
<1> QED
  <2>1. \/ Dropped
        \/ \E t \in {None, request[r].new} :
              Current(r) /\ tab' = [tab EXCEPT ![c] = t] /\ wronged' = wronged \ {c}
    BY DEF Deliver, client
  <2>2. CASE \E t \in {None, request[r].new} :
               Current(r) /\ tab' = [tab EXCEPT ![c] = t] /\ wronged' = wronged \ {c}
    BY <1>4, <2>2
  <2> HIDE DEF Dropped
  <2> QED
    BY <1>3, <2>1, <2>2

\* However requests overlap and responses are lost, a tab is left with a spent
\* refresh token by a fault only: no other tab or request takes it.
THEOREM SpentIsExplained == Spec => []SpentOnlyByFault
<1>1. Init => SpentInv
  BY DEF Init, SpentInv, Fresh, Owned, Accounted, Idle
<1>2. Shape /\ SpentInv /\ [Next]_vars => SpentInv'
  <2> SUFFICES ASSUME Shape, SpentInv, [Next]_vars PROVE SpentInv'
    OBVIOUS
  <2> USE DEF server, client
  <2>1. CASE UNCHANGED vars
    BY <2>1 DEF vars, SpentInv, Fresh, Owned, Accounted, Attends
  <2>2. ASSUME NEW c \in Tabs, NEW r \in Requests, SignIn(c, r) \/ Logout(c, r)
        PROVE  SpentInv'
    BY <2>2, SendSpent DEF SignIn, Logout
  <2>3. ASSUME NEW c \in Tabs, FireTimer(c) PROVE SpentInv'
    <3>1. CASE UNCHANGED request
      BY <2>3, <3>1 DEF FireTimer, SpentInv, Fresh, Owned, Accounted, Attends
    <3>2. ASSUME NEW r \in Requests, Send(r, c, "refresh", "consume") PROVE SpentInv'
      BY <2>3, <3>2, SendSpent DEF FireTimer
    <3> QED
      BY <2>3, <3>1, <3>2 DEF FireTimer
  <2>4. ASSUME NEW c \in Tabs, SignOut(c) PROVE SpentInv'
    <3>1. /\ tab'[c] = None /\ \A d \in Tabs : d # c => tab'[d] = tab[d]
          /\ UNCHANGED <<request, live>> /\ wronged' = wronged \ {c}
      BY <2>4 DEF SignOut, Shape, TypeOK
    <3>2. \A q \in Requests : request[q].kind # "signin" => request[q].pair # None
      BY DEF Shape, RequestFits
    <3>3. Fresh'
      BY <3>1 DEF SpentInv, Fresh
    <3>4. Owned'
      BY <3>1, <3>2 DEF SpentInv, Owned
    <3>5. \A d \in Tabs, q \in Requests : d # c /\ Attends(q, d) => Attends(q, d)'
      BY <3>1 DEF Attends
    <3>6. Accounted'
      BY <3>1, <3>5 DEF SpentInv, Accounted
    <3> QED
      BY <3>3, <3>4, <3>6 DEF SpentInv
  <2>5. ASSUME NEW c \in Tabs, Reload(c) PROVE SpentInv'
    <3> DEFINE gone == {q \in Requests : request[q].tab = c}
    <3>1. \A q \in Requests :
             /\ request'[q].at = request[q].at /\ request'[q].kind = request[q].kind
             /\ request'[q].pair = request[q].pair /\ request'[q].new = request[q].new
             /\ q \notin gone => request'[q].tab = request[q].tab
      BY <2>5 DEF Reload, Shape, TypeOK, RequestRecords
    <3>2. \A q \in Requests : request[q].kind # "signin" => Busy(q)
      BY DEF Shape, TypeOK, RequestRecords, RequestFits, Responses, Busy
    <3>3. \A q \in gone, d \in Tabs :
             request[q].kind # "signin" /\ request[q].tab = d /\ request[q].pair = tab[d]
             => d \in wronged'
      BY <2>5, <3>2 DEF Reload, Waiting
    <3>4. live' = live /\ tab' = tab /\ wronged \subseteq wronged'
      BY <2>5 DEF Reload
    <3> HIDE DEF gone
    <3>5. gone \in SUBSET Requests
      BY DEF gone
    <3> QED
      BY <3>1, <3>3, <3>4, <3>5, PartSpent
  <2>6. ASSUME NEW r \in Requests, Consume(r) PROVE SpentInv'
    <3>1. request[r].kind = "refresh" /\ request[r].at \in Stages
      BY <2>6 DEF Consume, Stages, Shape, TypeOK, RequestRecords, RequestFits, Responses
    <3>2. Goto(r, "read") \/ Goto(r, "refused")
      BY <2>6 DEF Consume
    <3> QED
      BY <2>6, <3>1, <3>2, HandlerSpent DEF Consume, Stages, Responses
  <2>7. ASSUME NEW r \in Requests, ReadUser(r) PROVE SpentInv'
    <3>1. /\ request[r].kind = "refresh" \/ request[r].kind = "signin"
          /\ request[r].at \in Stages
      BY <2>7 DEF ReadUser, Stages, Shape, TypeOK, RequestRecords, RequestFits, Responses
    <3>2. Goto(r, "issue") \/ Goto(r, "refused")
      BY <2>7 DEF ReadUser
    <3> QED
      BY <2>7, <3>1, <3>2, HandlerSpent DEF ReadUser, Stages, Responses
  <2>8. ASSUME NEW r \in Requests, Discard(r) PROVE SpentInv'
    <3>1. request[r].kind = "logout" /\ request[r].at \in Stages
      BY <2>8 DEF Discard, Stages, Shape, TypeOK, RequestRecords, RequestFits, Responses
    <3>2. CASE Goto(r, "refused") /\ live' = live
      BY <2>8, <3>1, <3>2, HandlerSpent DEF Discard, Responses
    <3>3. CASE Goto(r, "revoke")
      BY <2>8, <3>1, <3>3, HandlerSpent DEF Discard, Stages
    <3> QED
      BY <2>8, <3>2, <3>3 DEF Discard
  <2>9. ASSUME NEW r \in Requests, RevokeAccess(r) PROVE SpentInv'
    <3>1. request[r].kind = "logout" /\ request[r].at \in Stages
      BY <2>9 DEF RevokeAccess, Stages, Shape, TypeOK, RequestRecords, RequestFits, Responses
    <3> QED
      BY <2>9, <3>1, HandlerSpent DEF RevokeAccess, Responses
  <2>10. CASE Deactivate \/ \E t \in Pairs : AccessExpires(t)
    BY <2>10 DEF Deactivate, AccessExpires, SpentInv, Fresh, Owned, Accounted, Attends
  <2>11. CASE Reactivate
    <3>1. \A q \in Requests :
             /\ request'[q].at = request[q].at /\ request'[q].kind = request[q].kind
             /\ request'[q].pair = request[q].pair /\ request'[q].new = request[q].new
             /\ request'[q].tab = request[q].tab
      BY <2>11 DEF Reactivate, Shape, TypeOK, RequestRecords
    <3>2. UNCHANGED <<live, tab, wronged>>
      BY <2>11 DEF Reactivate
    <3> QED
      BY <3>1, <3>2 DEF SpentInv, Fresh, Owned, Accounted, Attends
  <2>12. ASSUME NEW t \in Pairs, RefreshExpires(t) PROVE SpentInv'
    <3>1. /\ live' = live \ {t} /\ tab' = tab /\ request' = request
          /\ wronged' = wronged \cup {c \in Tabs : t # None /\ tab[c] = t}
          /\ \A q \in Requests : request[q].at = "ok" => request[q].new # t
      BY <2>12 DEF RefreshExpires, HeldBy, Busy
    <3>2. Fresh'
      BY <3>1 DEF SpentInv, Fresh
    <3>3. Owned'
      BY <3>1 DEF SpentInv, Owned
    <3>4. Accounted'
      BY <3>1 DEF SpentInv, Accounted, Attends
    <3> QED
      BY <3>2, <3>3, <3>4 DEF SpentInv
  <2>13. ASSUME NEW r \in Requests, NeverArrives(r) PROVE SpentInv'
    <3>1. /\ \A q \in Requests : q # r => request'[q] = request[q]
          /\ request'[r].kind = "signin" /\ request'[r].new = None
          /\ UNCHANGED <<live, tab, wronged>>
      BY <2>13 DEF NeverArrives, Idle, Shape, TypeOK
    <3>2. \A c \in Tabs : ~Attends(r, c)
      BY <2>13 DEF NeverArrives, Attends
    <3>3. Fresh'
      BY <3>1 DEF SpentInv, Fresh
    <3>4. Owned'
      BY <3>1 DEF SpentInv, Owned
    <3>5. \A c \in Tabs, q \in Requests : Attends(q, c) => Attends(q, c)'
      BY <3>1, <3>2 DEF Attends
    <3>6. Accounted'
      BY <3>1, <3>5 DEF SpentInv, Accounted
    <3> QED
      BY <3>3, <3>4, <3>6 DEF SpentInv
  <2>14. ASSUME NEW r \in Requests, Disconnect(r) PROVE SpentInv'
    <3>1. PICK gone \in SUBSET Requests : gone = {r}
      OBVIOUS
    <3>2. \A q \in Requests :
             /\ request'[q].at = request[q].at /\ request'[q].kind = request[q].kind
             /\ request'[q].pair = request[q].pair /\ request'[q].new = request[q].new
             /\ q \notin gone => request'[q].tab = request[q].tab
      BY <2>14, <3>1 DEF Disconnect, Shape, TypeOK, RequestRecords
    <3>3. \A q \in gone, c \in Tabs :
             request[q].kind # "signin" /\ request[q].tab = c /\ request[q].pair = tab[c]
             => c \in wronged'
      BY <2>14, <3>1 DEF Disconnect, HeldBy, Shape, RequestFits
    <3>4. live' = live /\ tab' = tab /\ wronged \subseteq wronged'
      BY <2>14 DEF Disconnect
    <3> QED
      BY <3>2, <3>3, <3>4, PartSpent
  <2> QED
    BY <2>1, <2>2, <2>3, <2>4, <2>5, <2>6, <2>7, <2>8, <2>9, <2>10, <2>11, <2>12,
       <2>13, <2>14, MintSpent, FailSpent, DeliverSpent DEF Next, Handle
<1>3. Shape /\ SpentInv => SpentOnlyByFault
  BY DEF SpentInv, Accounted, Attends, SpentOnlyByFault, Waiting, Busy
<1> QED
  BY <1>1, <1>2, <1>3, InitShape, ShapeStep, PTL DEF Spec
=============================================================================
