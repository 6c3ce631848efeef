------------------------ MODULE ConsoleSessionsProofs ------------------------
(***************************************************************************)
(* Proofs about ConsoleSessions, for any requests and rows, any lifetime   *)
(* of a session and any number of logins.                                  *)
(***************************************************************************)
EXTENDS ConsoleSessions, TLAPS

(* Only ids that were given out are in the map, over or in a request, and  *)
(* a session lasts SessionTTL from its login.                              *)
Given ==
  /\ live \subseteq 1..issued
  /\ over \subseteq 1..issued
  /\ \A s \in 1..issued : expires[s] = since[s] + SessionTTL
  /\ \A r \in Requests : req[r].cookie <= issued

(* A form past the guard is a POST with a request token, and one that is   *)
(* acted on has the token of its own session.                              *)
FormsAreChecked ==
  \A r \in Requests :
    /\ pc[r] = "arrived" /\ req[r].kind \in Posts => req[r].csrf # 0
    /\ pc[r] \in {"form", "act"} => req[r].kind \in Posts /\ req[r].csrf # 0
    /\ pc[r] = "act" => req[r].csrf = req[r].cookie

(* A session that is over cannot be found: it left the map, its time has   *)
(* passed, or nobody is there to look because the process is gone.         *)
OverIsDead ==
  /\ \A s \in over : server = "down" \/ s \notin live \/ clock > expires[s]
  /\ server = "down" => \A r \in Requests : pc[r] = "free"

(* A stale request names a session that was over when it came. *)
StaleIsOver == \A r \in stale : pc[r] # "free" /\ req[r].cookie \in over

Inv ==
  /\ TypeOK /\ Given /\ FormsAreChecked /\ OverIsDead /\ StaleIsOver
  /\ EndedSessionGetsNothing /\ LoginsBoundTheMap

(* The server starts with no session and no request. *)
LEMMA InitInv == Init => Inv
BY SessionAssumption DEF Init, Inv, TypeOK, Given, FormsAreChecked, OverIsDead, StaleIsOver,
   EndedSessionGetsNothing, LoginsBoundTheMap, Sessions, Ids, Steps, NoReq, ReqType

(* Every action keeps the state typed. *)
LEMMA NextType == Inv /\ [Next]_vars => TypeOK'
<1> SUFFICES ASSUME Inv, [Next]_vars PROVE TypeOK'
  OBVIOUS
<1> USE SessionAssumption DEF Inv, TypeOK, map, handler, history, Answer, Goto
<1>1. ASSUME NEW r \in Requests, NEW kind \in Kinds, NEW cookie \in 0..issued,
             NEW csrf \in 0..issued, Arrive(r, kind, cookie, csrf)
      PROVE  TypeOK'
  BY <1>1 DEF Arrive, ReqType, Ids, Steps
<1>2. ASSUME NEW r \in Requests, Guard(r) PROVE TypeOK'
  BY <1>2 DEF Guard, GetSession, NoReq, ReqType, Ids, Steps
<1>3. ASSUME NEW r \in Requests, LoginForm(r) PROVE TypeOK'
  BY <1>3 DEF LoginForm, GetSession, NoReq, ReqType, Ids, Steps
<1>4. ASSUME NEW r \in Requests, ShowPage(r) PROVE TypeOK'
  BY <1>4 DEF ShowPage, NoReq, ReqType, Ids, Steps
<1>5. ASSUME NEW r \in Requests, CheckForm(r) PROVE TypeOK'
  BY <1>5 DEF CheckForm, NoReq, ReqType, Ids, Steps
<1>6. ASSUME NEW r \in Requests, Change(r) PROVE TypeOK'
  BY <1>6 DEF Change, NoReq, ReqType, Ids, Steps
<1>7. ASSUME NEW r \in Requests, Logout(r) PROVE TypeOK'
  <2>1. req[r].cookie \in Sessions
    BY <1>7 DEF Logout, FormsAreChecked, ReqType, Ids, Sessions
  <2> QED
    BY <1>7, <2>1 DEF Logout, NoReq, ReqType, Ids, Steps
<1>8. ASSUME NEW r \in Requests, Login(r) PROVE TypeOK'
  <2>1. CASE UNCHANGED <<map, since>>
    BY <1>8, <2>1 DEF Login, NoReq, ReqType, Ids, Steps
  <2>2. CASE issued < MaxSessions /\ issued' = issued + 1
    <3>1. issued' \in Sessions /\ issued' \in Ids
      BY <2>2 DEF Sessions, Ids
    <3>2. clock + SessionTTL \in 0..(MaxTime + SessionTTL)
      OBVIOUS
    <3>3. Pruned \subseteq Sessions
      BY DEF Pruned
    <3> QED
      <4>1. CASE UNCHANGED <<map, since>>
        BY <2>1, <4>1
      <4>2. CASE ~UNCHANGED <<map, since>>
        <5>1. /\ live' = Pruned \cup {issued'}
              /\ expires' = [expires EXCEPT ![issued'] = clock + SessionTTL]
              /\ since' = [since EXCEPT ![issued'] = clock]
          BY <1>8, <4>2 DEF Login
        <5>2. /\ live' \subseteq Sessions
              /\ expires' \in [Sessions -> 0..(MaxTime + SessionTTL)]
              /\ since' \in [Sessions -> 0..MaxTime]
          BY <3>1, <3>2, <3>3, <5>1
        <5> QED
          BY <1>8, <3>1, <5>2 DEF Login, NoReq, ReqType, Ids, Steps
      <4> QED
        BY <4>1, <4>2
  <2> QED
    BY <1>8, <2>1, <2>2 DEF Login
<1>9. ASSUME NEW x \in Rows, RowAdded(x) PROVE TypeOK'
  BY <1>9 DEF RowAdded
<1>10. CASE Tick
  <2>1. 1..issued \subseteq Sessions
    BY DEF Sessions, Ids
  <2>2. over' \subseteq Sessions
    BY <1>10, <2>1 DEF Tick
  <2>3. clock' \in 0..MaxTime
    BY <1>10 DEF Tick
  <2> QED
    BY <1>10, <2>2, <2>3 DEF Tick
<1>11. CASE Signal \/ ClosePool
  BY <1>11 DEF Signal, ClosePool
<1>12. CASE Stop
  BY <1>12 DEF Stop, NoReq, ReqType, Ids, Steps, Sessions
<1>13. CASE Start
  BY <1>13 DEF Start
<1>14. CASE UNCHANGED vars
  BY <1>14 DEF vars
<1>15. ASSUME NEW r \in Requests, Hang(r) PROVE TypeOK'
  BY <1>15 DEF Hang
<1> QED
  BY <1>1, <1>2, <1>3, <1>4, <1>5, <1>6, <1>7, <1>8, <1>9, <1>10, <1>11, <1>12, <1>13,
     <1>14, <1>15 DEF Next, Handle, EndShutdown, Crash

(* What sessions.get finds is not over. *)
LEMMA FoundIsNotOver ==
  ASSUME Inv, NEW s \in over, server # "down"
  PROVE  ~LiveSession(s)
BY SessionAssumption DEF Inv, TypeOK, OverIsDead, LiveSession, Sessions

(* A handler that keeps its place or answers, while ids leave the map or   *)
(* sessions end, breaks nothing.                                           *)
LEMMA HandlerAnswers ==
  ASSUME Inv, NEW r \in Requests, pc[r] # "free", Answer(r), UNCHANGED <<server, clock>>
  PROVE  /\ FormsAreChecked' /\ EndedSessionGetsNothing'
         /\ \A q \in Requests : req'[q].cookie <= issued
         /\ server = "down" => \A q \in Requests : pc'[q] = "free"
         /\ over \subseteq over' => StaleIsOver'
<1> USE DEF Inv, TypeOK, Answer, NoReq
<1>1. FormsAreChecked'
  BY DEF FormsAreChecked, Posts
<1>2. EndedSessionGetsNothing'
  BY DEF EndedSessionGetsNothing
<1>3. \A q \in Requests : req'[q].cookie <= issued
  BY SessionAssumption DEF Given, Ids
<1>4. server = "down" => \A q \in Requests : pc'[q] = "free"
  BY DEF OverIsDead
<1>5. over \subseteq over' => StaleIsOver'
  BY DEF StaleIsOver
<1> QED
  BY <1>1, <1>2, <1>3, <1>4, <1>5

(* Every action keeps the map, the histories and the requests in step. *)
LEMMA NextInv == Inv /\ [Next]_vars => Inv'
<1> SUFFICES ASSUME Inv, [Next]_vars PROVE Inv'
  OBVIOUS
<1> USE SessionAssumption DEF map, handler, history
<1>t. TypeOK /\ TypeOK'
  BY NextType DEF Inv
<1>1. ASSUME NEW r \in Requests, NEW kind \in Kinds, NEW cookie \in 0..issued,
             NEW csrf \in 0..issued, Arrive(r, kind, cookie, csrf)
      PROVE  Inv'
  <2>1. Given' /\ LoginsBoundTheMap'
    BY <1>1, <1>t DEF Arrive, Inv, Given, LoginsBoundTheMap, TypeOK, Ids
  <2>2. FormsAreChecked'
    BY <1>1, <1>t DEF Arrive, Inv, FormsAreChecked, TypeOK
  <2>3. OverIsDead'
    BY <1>1, <1>t DEF Arrive, Inv, OverIsDead, TypeOK
  <2>4. StaleIsOver' /\ EndedSessionGetsNothing'
    BY <1>1, <1>t DEF Arrive, Inv, StaleIsOver, EndedSessionGetsNothing, TypeOK
  <2> QED
    BY <1>t, <2>1, <2>2, <2>3, <2>4 DEF Inv
<1>2. ASSUME NEW r \in Requests, pc[r] # "free", Answer(r), live' \subseteq live,
             \/ over' = over
             \/ over' = over \cup {req[r].cookie} /\ req[r].cookie \in (1..issued) \ live',
             server' = server, expires' = expires, issued' = issued, clock' = clock,
             since' = since
      PROVE  Inv'
  <2>1. Given' /\ LoginsBoundTheMap'
    BY <1>2, <1>t, HandlerAnswers DEF Inv, Given, LoginsBoundTheMap
  <2>2. OverIsDead'
    BY <1>2, <1>t, HandlerAnswers DEF Inv, OverIsDead
  <2> QED
    BY <1>2, <1>t, <2>1, <2>2, HandlerAnswers DEF Inv
<1>3. ASSUME NEW r \in Requests, Guard(r) PROVE Inv'
  <2>1. CASE LiveSession(req[r].cookie)
    <3>1. /\ pc[r] = "arrived" /\ UNCHANGED <<server, map, clock, history, req, stale>>
          /\ \/ req[r].kind = "page" /\ pc' = [pc EXCEPT ![r] = "read"]
             \/ req[r].kind \in Posts /\ pc' = [pc EXCEPT ![r] = "form"]
      BY <1>3, <2>1 DEF Guard, GetSession, Goto
    <3>2. server # "down" /\ r \notin stale
      BY <2>1, <3>1, FoundIsNotOver DEF Inv, StaleIsOver, OverIsDead
    <3>3. Given' /\ LoginsBoundTheMap'
      BY <3>1 DEF Inv, Given, LoginsBoundTheMap
    <3>4. FormsAreChecked'
      BY <3>1, <1>t DEF Inv, FormsAreChecked, TypeOK
    <3>5. OverIsDead'
      BY <3>1, <3>2 DEF Inv, OverIsDead
    <3>6. StaleIsOver' /\ EndedSessionGetsNothing'
      BY <3>1, <3>2, <1>t DEF Inv, StaleIsOver, EndedSessionGetsNothing, TypeOK
    <3> QED
      BY <1>t, <3>3, <3>4, <3>5, <3>6 DEF Inv
  <2>2. CASE ~LiveSession(req[r].cookie)
    BY <1>2, <1>3, <2>2 DEF Guard, GetSession
  <2> QED
    BY <2>1, <2>2
<1>4. ASSUME NEW r \in Requests, LoginForm(r) \/ ShowPage(r) \/ Change(r) PROVE Inv'
  BY <1>2, <1>4 DEF LoginForm, ShowPage, Change, GetSession
<1>5. ASSUME NEW r \in Requests, CheckForm(r) PROVE Inv'
  <2>1. CASE Answer(r)
    BY <1>2, <1>5, <2>1 DEF CheckForm
  <2>2. CASE ValidCSRF(r) /\ Goto(r, "act")
    <3>1. /\ pc[r] = "form" /\ pc' = [pc EXCEPT ![r] = "act"]
          /\ UNCHANGED <<server, map, clock, history, req, stale>>
          /\ req[r].csrf = req[r].cookie
      BY <1>5, <2>2 DEF CheckForm, Goto, ValidCSRF
    <3>2. Given' /\ LoginsBoundTheMap'
      BY <3>1 DEF Inv, Given, LoginsBoundTheMap
    <3>3. FormsAreChecked'
      BY <3>1, <1>t DEF Inv, FormsAreChecked, TypeOK
    <3>4. OverIsDead' /\ StaleIsOver' /\ EndedSessionGetsNothing'
      BY <3>1, <1>t DEF Inv, OverIsDead, StaleIsOver, EndedSessionGetsNothing, TypeOK
    <3> QED
      BY <1>t, <3>2, <3>3, <3>4 DEF Inv
  <2> QED
    BY <1>5, <2>1, <2>2 DEF CheckForm
<1>6. ASSUME NEW r \in Requests, Logout(r) PROVE Inv'
  <2>1. pc[r] = "act" /\ req[r].cookie \in (1..issued) \ live'
    BY <1>6, <1>t DEF Logout, Inv, FormsAreChecked, Given, TypeOK, ReqType, Ids
  <2> QED
    BY <1>2, <1>6, <2>1 DEF Logout
<1>7. ASSUME NEW r \in Requests, Login(r) PROVE Inv'
  <2>1. CASE UNCHANGED <<map, since>>
    BY <1>2, <1>7, <2>1 DEF Login
  <2>2. CASE /\ issued < MaxSessions
             /\ issued' = issued + 1
             /\ live' = Pruned \cup {issued'}
             /\ expires' = [expires EXCEPT ![issued'] = clock + SessionTTL]
             /\ since' = [since EXCEPT ![issued'] = clock]
    <3>1. /\ issued' \in Sessions /\ 1..issued \subseteq Sessions
          /\ 1..issued' = (1..issued) \cup {issued'} /\ issued' \notin 1..issued
      BY <1>t, <2>2 DEF TypeOK, Sessions, Ids
    <3>2. /\ \A s \in 1..issued : expires'[s] = expires[s] /\ since'[s] = since[s]
          /\ expires'[issued'] = clock + SessionTTL /\ since'[issued'] = clock
      BY <1>t, <2>2, <3>1 DEF TypeOK
    <3>3. /\ \A q \in Requests : req'[q].cookie \in Ids /\ req'[q].cookie <= issued'
          /\ FormsAreChecked' /\ EndedSessionGetsNothing' /\ StaleIsOver'
          /\ server = "down" => \A q \in Requests : pc'[q] = "free"
      BY <1>7, <1>t, <2>2, HandlerAnswers DEF Login, TypeOK, ReqType, Ids
    <3>4. Given'
      <4>1. live' \subseteq 1..issued' /\ over' \subseteq 1..issued'
        BY <1>7, <2>2, <3>1 DEF Login, Inv, Given, Pruned
      <4>2. \A s \in 1..issued' : expires'[s] = since'[s] + SessionTTL
        BY <3>1, <3>2 DEF Inv, Given
      <4> QED
        BY <3>3, <4>1, <4>2 DEF Given
    <3>5. OverIsDead'
      <4>1. \A s \in over : s \in 1..issued /\ (s \notin live' \/ s \in live)
        BY <2>2, <3>1 DEF Inv, Given, Pruned
      <4> QED
        BY <1>7, <3>2, <3>3, <4>1 DEF Login, Inv, OverIsDead
    <3>6. LoginsBoundTheMap'
      <4>1. ASSUME NEW s \in live' PROVE since'[issued'] <= since'[s] + SessionTTL
        <5>1. CASE s = issued'
          BY <1>t, <3>2, <5>1 DEF TypeOK
        <5>2. CASE s \in Pruned
          BY <3>2, <5>2 DEF Pruned, Inv, Given
        <5> QED
          BY <2>2, <4>1, <5>1, <5>2
      <4> QED
        BY <4>1 DEF LoginsBoundTheMap
    <3> QED
      BY <1>t, <3>3, <3>4, <3>5, <3>6 DEF Inv
  <2> QED
    BY <1>7, <2>1, <2>2 DEF Login
<1>8. CASE Tick
  <2>1. \A s \in 1..issued : clock' > since[s] + SessionTTL => clock' > expires[s]
    BY DEF Inv, Given
  <2>2. OverIsDead'
    BY <1>8, <1>t, <2>1 DEF Tick, Inv, OverIsDead, TypeOK, Given, Sessions
  <2>3. Given' /\ LoginsBoundTheMap'
    BY <1>8 DEF Tick, Inv, Given, LoginsBoundTheMap
  <2>4. FormsAreChecked' /\ StaleIsOver' /\ EndedSessionGetsNothing'
    BY <1>8 DEF Tick, Inv, FormsAreChecked, StaleIsOver, EndedSessionGetsNothing
  <2> QED
    BY <1>t, <2>2, <2>3, <2>4 DEF Inv
<1>9. CASE Stop
  <2>1. Given' /\ LoginsBoundTheMap'
    BY <1>9, <1>t DEF Stop, Inv, Given, LoginsBoundTheMap, TypeOK, NoReq, Ids
  <2>2. OverIsDead' /\ FormsAreChecked' /\ StaleIsOver' /\ EndedSessionGetsNothing'
    BY <1>9 DEF Stop, OverIsDead, FormsAreChecked, StaleIsOver, EndedSessionGetsNothing, NoReq
  <2> QED
    BY <1>t, <2>1, <2>2 DEF Inv
<1>10. CASE Start
  BY <1>10, <1>t DEF Start, Inv, Given, FormsAreChecked, OverIsDead, StaleIsOver,
     EndedSessionGetsNothing, LoginsBoundTheMap
<1>11. ASSUME UNCHANGED <<map, clock, pc, req, stale, history>>,
              server' = server \/ (server # "down" /\ server' # "down")
       PROVE  Inv'
  BY <1>11, <1>t DEF Inv, Given, FormsAreChecked, OverIsDead, StaleIsOver,
     EndedSessionGetsNothing, LoginsBoundTheMap
<1> QED
  BY <1>1, <1>3, <1>4, <1>5, <1>6, <1>7, <1>8, <1>9, <1>10, <1>11 DEF Next, Handle,
     Hang, RowAdded, Signal, ClosePool, EndShutdown, Crash, vars

(* The inductive invariant holds in every reachable state. *)
LEMMA Invariant == Spec => []Inv
BY InitInv, NextInv, PTL DEF Spec

(* A request of a session that was signed out, ran out or was lost with    *)
(* the process before it came is never let past the guard.                 *)
THEOREM EndedSessionsStayOut == Spec => []SessionInv
<1>1. Inv => SessionInv
  BY DEF Inv, SessionInv
<1> QED
  BY <1>1, Invariant, PTL

(* The map holds no session that had run out at the last login.            *)
THEOREM MapIsPruned == Spec => []LoginsBoundTheMap
<1>1. Inv => LoginsBoundTheMap
  BY DEF Inv
<1> QED
  BY <1>1, Invariant, PTL

(* Only a request of a session that was there when it came, with the token *)
(* of that session in its form, ends a row.                                *)
THEOREM ChangesNeedASession == Spec => ChangesAreAuthorised
<1> DEFINE Authorised ==
      ~(active \subseteq active') =>
        \E r \in Requests :
          /\ pc[r] = "act" /\ pc'[r] = "free"
          /\ r \notin stale
          /\ req[r].cookie # 0 /\ req[r].csrf = req[r].cookie
<1>1. Inv /\ [Next]_vars => [Authorised]_vars
  <2> SUFFICES ASSUME Inv, [Next]_vars, ~(active \subseteq active')
               PROVE  \E r \in Requests :
                        /\ pc[r] = "act" /\ pc'[r] = "free"
                        /\ r \notin stale
                        /\ req[r].cookie # 0 /\ req[r].csrf = req[r].cookie
    OBVIOUS
  <2>1. PICK r \in Requests : Change(r)
    BY DEF Next, Handle, Arrive, Guard, LoginForm, ShowPage, CheckForm, Hang, Logout, Login,
       RowAdded, Tick, Signal, ClosePool, EndShutdown, Crash, Stop, Start, vars
  <2>2. pc[r] = "act" /\ pc'[r] = "free"
    BY <2>1 DEF Change, Answer, Inv, TypeOK
  <2> QED
    BY <2>2 DEF Inv, EndedSessionGetsNothing, FormsAreChecked
<1> QED
  BY <1>1, Invariant, PTL DEF Spec, ChangesAreAuthorised
=============================================================================
