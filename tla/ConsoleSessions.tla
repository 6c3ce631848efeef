--------------------------- MODULE ConsoleSessions ---------------------------
(***************************************************************************)
(* The operator console and the server process it lives in: sessions in    *)
(* memory, requests that are checked once and act later, and the ways the  *)
(* process ends (internal/console/auth.go, internal/console/console.go,    *)
(* runServe in cmd/aiemail/main.go).                                       *)
(*                                                                         *)
(* A session is named by the order of its login; the name stands for its   *)
(* random id and for its random request token. A request carries any id    *)
(* and any token that were ever given out, or 0 for none: an old tab, a    *)
(* second browser, a form that was left open. One action is one critical   *)
(* section of the session map, one read of a request body or one database  *)
(* statement.                                                              *)
(***************************************************************************)
EXTENDS Naturals

CONSTANTS
  Requests,       \* requests the server works on at once
  Rows,           \* API keys and suppressions the console may end
  SessionTTL,     \* how long a session lasts
  MaxSessions,    \* bound on logins
  MaxTime         \* bound on the clock

ASSUME SessionAssumption ==
  /\ SessionTTL \in Nat
  /\ MaxSessions \in Nat
  /\ MaxTime \in Nat

VARIABLES
  server,         \* "up", "draining", "closing" (pool closed) or "down"
  live,           \* sessions.live: the ids in the map
  expires,        \* session.expires
  issued,         \* logins so far
  clock,          \* time.Now()
  active,         \* the rows in force: keys not revoked, addresses suppressed
  pc,             \* what the handler of each request does next
  req,            \* the request it handles
  hung,           \* requests in a statement that the database leaves unanswered
  over,           \* history: sessions signed out, past their time or lost
  since,          \* history: when each session began
  stale           \* history: requests that came when their session was over

map     == <<live, expires, issued>>
handler == <<pc, req, hung, stale>>
history == <<over, since>>
vars    == <<server, map, clock, active, handler, history>>

-----------------------------------------------------------------------------
Sessions == 1..MaxSessions
Ids      == 0..MaxSessions
Posts    == {"change", "logout"}
Kinds    == Posts \cup {"page", "loginForm", "login"}
Steps    == {"free", "arrived", "read", "form", "act"}
NoReq    == [kind |-> "none", cookie |-> 0, csrf |-> 0]
ReqType  == [kind : Kinds \cup {"none"}, cookie : Ids, csrf : Ids]

TypeOK ==
  /\ server \in {"up", "draining", "closing", "down"}
  /\ live \subseteq Sessions
  /\ expires \in [Sessions -> 0..(MaxTime + SessionTTL)]
  /\ issued \in Ids
  /\ clock \in 0..MaxTime
  /\ active \subseteq Rows
  /\ pc \in [Requests -> Steps]
  /\ req \in [Requests -> ReqType]
  /\ hung \subseteq Requests
  /\ over \subseteq Sessions
  /\ since \in [Sessions -> 0..MaxTime]
  /\ stale \subseteq Requests

Init ==
  /\ server = "up"
  /\ live = {}
  /\ expires = [s \in Sessions |-> 0]
  /\ issued = 0
  /\ clock = 0
  /\ active = Rows
  /\ pc = [r \in Requests |-> "free"]
  /\ req = [r \in Requests |-> NoReq]
  /\ hung = {}
  /\ over = {}
  /\ since = [s \in Sessions |-> 0]
  /\ stale = {}

-----------------------------------------------------------------------------
(* The session map. Each operator is one critical section of sessions.mu.  *)

(* Mutant: the expiry is not looked at. *)
LiveSessionMutant(id) == id \in live

(* sessions.get finds the id and its time is not over. *)
LiveSession(id) == id \in live /\ clock <= expires[id]

(* Mutant: no pruning. *)
PrunedMutant == live

(* sessions.prune. *)
Pruned == {s \in live : clock <= expires[s]}

(* sessions.get on a request's cookie, with what it does to the map: an id *)
(* that is not live is deleted.                                            *)
GetSession(r) ==
  live' = IF LiveSession(req[r].cookie) THEN live ELSE live \ {req[r].cookie}

-----------------------------------------------------------------------------
(* Handlers.                                                               *)

(* The handler answers and returns. *)
Answer(r) ==
  /\ pc' = [pc EXCEPT ![r] = "free"]
  /\ req' = [req EXCEPT ![r] = NoReq]
  /\ hung' = hung \ {r}
  /\ stale' = stale \ {r}

Goto(r, step) ==
  /\ pc' = [pc EXCEPT ![r] = step]
  /\ UNCHANGED <<req, hung, stale>>

(* A request comes in; forms, and only they, carry a request token. One    *)
(* without a token fares as one with a wrong token.                        *)
Arrive(r, kind, cookie, csrf) ==
  /\ server = "up"
  /\ pc[r] = "free"
  /\ kind = "login" => cookie = 0
  /\ kind \in Posts <=> csrf # 0
  /\ pc' = [pc EXCEPT ![r] = "arrived"]
  /\ req' = [req EXCEPT ![r] = [kind |-> kind, cookie |-> cookie, csrf |-> csrf]]
  /\ stale' = IF cookie \in over THEN stale \cup {r} ELSE stale
  /\ UNCHANGED <<server, map, clock, active, hung, history>>

(* guard and guardPost: the one look at the session. *)
Guard(r) ==
  /\ pc[r] = "arrived"
  /\ req[r].kind \in Posts \cup {"page"}
  /\ GetSession(r)
  /\ IF LiveSession(req[r].cookie)
       THEN Goto(r, IF req[r].kind = "page" THEN "read" ELSE "form")
       ELSE Answer(r)
  /\ UNCHANGED <<server, expires, issued, clock, active, history>>

(* loginForm looks at the session only to choose its answer. *)
LoginForm(r) ==
  /\ pc[r] = "arrived"
  /\ req[r].kind = "loginForm"
  /\ GetSession(r)
  /\ Answer(r)
  /\ UNCHANGED <<server, expires, issued, clock, active, history>>

(* A page reads the database, which may fail, and is shown. *)
ShowPage(r) ==
  /\ pc[r] = "read"
  /\ Answer(r)
  /\ UNCHANGED <<server, map, clock, active, history>>

(* Mutant: the token of any session is good enough. *)
ValidCSRFMutant(r) == req[r].csrf \in live

ValidCSRF(r) == req[r].csrf = req[r].cookie

(* The rest of guardPost: the body is read, however long that takes, and   *)
(* its token is compared with the one of the session found before.         *)
CheckForm(r) ==
  /\ pc[r] = "form"
  /\ \/ ValidCSRF(r) /\ Goto(r, "act")
     \/ Answer(r)
  /\ UNCHANGED <<server, map, clock, active, history>>

(* The handler has a connection and its statement gets no answer. Only an  *)
(* answer, or a client that goes away, ends it: the server's timeouts      *)
(* cancel no query. Both count as an answer.                               *)
Hang(r) ==
  /\ pc[r] = "read" \/ (pc[r] = "act" /\ req[r].kind = "change")
  /\ r \notin hung
  /\ server \in {"up", "draining"}
  /\ hung' = hung \cup {r}
  /\ UNCHANGED <<server, map, clock, active, pc, req, stale, history>>

(* revokeKey or unsuppress: one statement, if the form names a target and  *)
(* the pool is open or was when the statement began; it may fail, which is *)
(* only logged.                                                            *)
Change(r) ==
  /\ pc[r] = "act"
  /\ req[r].kind = "change"
  /\ \/ UNCHANGED active
     \/ (server # "closing" \/ r \in hung) /\ \E x \in Rows : active' = active \ {x}
  /\ Answer(r)
  /\ UNCHANGED <<server, map, clock, history>>

(* Mutant: only the browser's cookie is cleared. *)
LogoutMutant(r) ==
  /\ pc[r] = "act"
  /\ req[r].kind = "logout"
  /\ over' = over \cup {req[r].cookie}
  /\ Answer(r)
  /\ UNCHANGED <<server, map, clock, active, since>>

Logout(r) ==
  /\ pc[r] = "act"
  /\ req[r].kind = "logout"
  /\ live' = live \ {req[r].cookie}
  /\ over' = over \cup {req[r].cookie}
  /\ Answer(r)
  /\ UNCHANGED <<server, expires, issued, clock, active, since>>

(* login, after its delay: a bad form, a wrong password and a failed       *)
(* random source end it, else create prunes the map and adds a session.    *)
Login(r) ==
  /\ pc[r] = "arrived"
  /\ req[r].kind = "login"
  /\ \/ UNCHANGED <<map, since>>
     \/ /\ issued < MaxSessions
        /\ issued' = issued + 1
        /\ live' = Pruned \cup {issued'}
        /\ expires' = [expires EXCEPT ![issued'] = clock + SessionTTL]
        /\ since' = [since EXCEPT ![issued'] = clock]
  /\ Answer(r)
  /\ UNCHANGED <<server, clock, active, over>>

-----------------------------------------------------------------------------
(* The process and its surroundings.                                       *)

Tick ==
  /\ clock < MaxTime
  /\ clock' = clock + 1
  /\ over' = over \cup {s \in 1..issued : clock' > since[s] + SessionTTL}
  /\ UNCHANGED <<server, map, active, handler, since>>

(* A key is issued, or the worker or a reader's link suppresses an address. *)
RowAdded(x) ==
  /\ active' = active \cup {x}
  /\ UNCHANGED <<server, map, clock, handler, history>>

(* SIGTERM: srv.Shutdown closes the listener and waits for the handlers. *)
Signal ==
  /\ server = "up"
  /\ server' = "draining"
  /\ UNCHANGED <<map, clock, active, handler, history>>

(* Mutant: Shutdown has no limit, so that only a failed listener ends it. *)
ClosePoolMutant ==
  /\ server = "up"
  /\ server' = "closing"
  /\ UNCHANGED <<map, clock, active, handler, history>>

(* The listener fails, or ShutdownGrace passes: runServe returns and its   *)
(* deferred Close lets no handler take a connection any more.              *)
ClosePool ==
  /\ server \in {"up", "draining"}
  /\ server' = "closing"
  /\ UNCHANGED <<map, clock, active, handler, history>>

(* The process ends, and with it what its handlers were doing. *)
Stop ==
  /\ server' = "down"
  /\ pc' = [r \in Requests |-> "free"]
  /\ req' = [r \in Requests |-> NoReq]
  /\ hung' = {}
  /\ stale' = {}
  /\ over' = over \cup 1..issued
  /\ UNCHANGED <<map, clock, active, since>>

(* The handlers are done, or the pool has all its connections back: Close  *)
(* returns and then main.                                                  *)
EndShutdown ==
  /\ \/ server = "draining" /\ \A r \in Requests : pc[r] = "free"
     \/ server = "closing" /\ hung = {}
  /\ Stop

(* The process is killed, by a second signal too. *)
Crash == server # "down" /\ Stop

(* runServe again: newSessions is an empty map. *)
Start ==
  /\ server = "down"
  /\ server' = "up"
  /\ live' = {}
  /\ UNCHANGED <<expires, issued, clock, active, handler, history>>

-----------------------------------------------------------------------------
Handle(r) ==
  \/ Guard(r)
  \/ LoginForm(r)
  \/ ShowPage(r)
  \/ CheckForm(r)
  \/ Change(r)
  \/ Logout(r)
  \/ Login(r)

Next ==
  \/ \E r \in Requests :
       \/ \E kind \in Kinds, cookie, csrf \in 0..issued : Arrive(r, kind, cookie, csrf)
       \/ Handle(r)
       \/ Hang(r)
  \/ \E x \in Rows : RowAdded(x)
  \/ Tick
  \/ Signal
  \/ ClosePool
  \/ EndShutdown
  \/ Crash
  \/ Start

Spec == Init /\ [][Next]_vars

(* A handler runs until it answers (ReadTimeout bounds the wait for a      *)
(* body), unless it hangs in a statement, which may or may not be answered *)
(* later. ShutdownGrace runs out, and runServe returns once it can.        *)
FairSpec ==
  /\ Spec
  /\ \A r \in Requests : WF_vars(r \notin hung /\ Handle(r))
  /\ WF_vars(server = "draining" /\ ClosePool)
  /\ WF_vars(EndShutdown)

-----------------------------------------------------------------------------
(* Properties.                                                             *)

(* A request that comes when its session has been signed out, has run out  *)
(* or was lost with the process gets past guard and guardPost in no        *)
(* interleaving with logins, prunings, logouts and restarts.               *)
EndedSessionGetsNothing ==
  \A r \in stale : pc[r] \notin {"read", "form", "act"}

(* The state is well typed and an ended session gets nothing. *)
SessionInv == TypeOK /\ EndedSessionGetsNothing

(* The console ends a row only for a request whose session was there       *)
(* when it came and whose form carries the token of that very session.     *)
ChangesAreAuthorised ==
  [][~(active \subseteq active') =>
       \E r \in Requests :
         /\ pc[r] = "act" /\ pc'[r] = "free"
         /\ r \notin stale
         /\ req[r].cookie # 0 /\ req[r].csrf = req[r].cookie]_vars

(* Nothing in the map had run out when somebody last logged in, so the map *)
(* grows no larger than the logins of one lifetime.                        *)
LoginsBoundTheMap ==
  \A s \in live : issued > 0 => since[issued] <= since[s] + SessionTTL

(* The end of a session takes effect: requests of it that had passed the   *)
(* guard before finish, and from then on none is past it, but for those    *)
(* that hang in a statement. Under FairSpec.                               *)
EndOfSessionTakesEffect ==
  \A s \in Sessions :
    s \in over ~>
      [](\A r \in Requests \ hung : req[r].cookie = s => pc[r] \notin {"read", "form", "act"})

(* SIGTERM ends the process even when handlers hang: the grace runs out    *)
(* and the pool is closed. Only a statement that is never answered keeps   *)
(* the process, in Close, which waits for its connection. Under FairSpec.  *)
SignalEndsServer ==
  server = "draining" ~>
    (server = "down" \/ [](server = "closing" /\ hung # {}))
=============================================================================
