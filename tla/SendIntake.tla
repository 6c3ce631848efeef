------------------------------ MODULE SendIntake ------------------------------
(***************************************************************************)
(* Accepting mail: POST /v1/emails from authentication to the              *)
(* transaction that stores the message and its idempotency record          *)
(* (internal/httpapi/auth.go, internal/httpapi/send.go,                    *)
(* internal/store/messages.go, keys.go, suppressions.go).                  *)
(*                                                                         *)
(* Handlers serve calls concurrently. Every database read of a handler is  *)
(* a step of its own, so what it read may be stale when it writes. The     *)
(* transaction of EnqueueMessage holds the idempotency row it inserted:    *)
(* another handler's INSERT of the same key waits until the row is         *)
(* committed or rolled back (READ COMMITTED).                              *)
(*                                                                         *)
(* A call carries an API key, an idempotency key (or none) and a body;     *)
(* bodies that differ have different hashes. What is checked of a body     *)
(* alone is in MailContent; the bodies here pass those checks, and sending *)
(* is enabled (Config.SendEnabled).                                        *)
(***************************************************************************)
EXTENDS Naturals, FiniteSets

CONSTANTS
  Handlers,       \* concurrent request handlers
  Keys,           \* API keys
  SendScope,      \* the keys that hold the send scope
  IdemKeys,       \* idempotency keys clients use
  NoIdem,         \* the call carries no Idempotency-Key
  Bodies,         \* request bodies that pass validation
  Scheduled,      \* the bodies that carry a scheduled_at
  Addresses,      \* recipient addresses
  To,             \* the recipients of each body
  Quota,          \* quota_per_hour of every key, 0 for none
  MaxCalls,       \* bound on the calls clients make
  MaxFaults,      \* bound on failed statements and lost acknowledgements
  Nobody          \* no handler: the row is committed

ASSUME ConstantsAssumption ==
  /\ IsFiniteSet(Handlers)
  /\ SendScope \subseteq Keys
  /\ NoIdem \notin IdemKeys
  /\ Scheduled \subseteq Bodies
  /\ To \in [Bodies -> SUBSET Addresses]
  /\ Quota \in Nat
  /\ MaxCalls \in Nat
  /\ MaxFaults \in Nat
  /\ Nobody \notin Handlers

VARIABLES
  active,         \* the api_keys neither revoked nor expired
  suppressed,     \* suppressions
  verified,       \* whether domains.status is 'verified'
  late,           \* the bodies whose scheduled_at has passed
  messages,       \* the committed rows of messages
  aged,           \* ids of messages older than an hour
  records,        \* idempotency_records, with the transaction that holds a row
  calls,          \* calls made so far
  faults,         \* faults so far
  pc,             \* what each handler does next
  call,           \* the call a handler serves
  kept,           \* the recipients that survived FilterSuppressed
  reply,          \* the last answer of each handler
  known           \* history: the message this exact call had been given before

env   == <<active, suppressed, verified, late, aged>>
store == <<messages, records>>
mine  == <<pc, call, kept, reply>>
counts == <<calls, faults>>
vars  == <<env, store, counts, mine, known>>

-----------------------------------------------------------------------------
Calls     == [n : 1..MaxCalls, key : Keys, idem : IdemKeys \cup {NoIdem}, body : Bodies]
MessageRow == [id : 1..MaxCalls, key : Keys, idem : IdemKeys \cup {NoIdem},
               body : Bodies, recipients : SUBSET Addresses]
RecordRow == [key : Keys, idem : IdemKeys, body : Bodies, message : 0..MaxCalls,
              tx : Handlers \cup {Nobody}]
NoCall    == [n |-> 0]
Codes     == {"none", "202", "401", "403", "409", "422", "429", "500", "mismatch"}
Steps     == {"idle", "auth", "filter", "domain", "quota", "claim", "insert"}

TypeOK ==
  /\ active \subseteq Keys
  /\ suppressed \subseteq Addresses
  /\ verified \in BOOLEAN
  /\ late \subseteq Scheduled
  /\ messages \subseteq MessageRow
  /\ aged \subseteq {m.id : m \in messages}
  /\ records \subseteq RecordRow
  /\ calls \in 0..MaxCalls
  /\ faults \in 0..MaxFaults
  /\ pc \in [Handlers -> Steps]
  /\ call \in [Handlers -> Calls \cup {NoCall}]
  /\ kept \in [Handlers -> SUBSET Addresses]
  /\ reply \in [Handlers -> [code : Codes, id : 0..MaxCalls]]
  /\ known \in [Handlers -> 0..MaxCalls]

NoReply == [code |-> "none", id |-> 0]

Init ==
  /\ active = Keys
  /\ suppressed = {}
  /\ verified = TRUE
  /\ late = {}
  /\ messages = {}
  /\ aged = {}
  /\ records = {}
  /\ calls = 0
  /\ faults = 0
  /\ pc = [h \in Handlers |-> "idle"]
  /\ call = [h \in Handlers |-> NoCall]
  /\ kept = [h \in Handlers |-> {}]
  /\ reply = [h \in Handlers |-> NoReply]
  /\ known = [h \in Handlers |-> 0]

-----------------------------------------------------------------------------
(* The rest of the deployment, and the clock.                              *)

(* RevokeAPIKey sets revoked_at, or now() reaches expires_at; neither is   *)
(* ever undone.                                                            *)
KeyEnds(k) ==
  /\ active' = active \ {k}
  /\ UNCHANGED <<suppressed, verified, late, aged, store, counts, mine, known>>

(* The insert of Suppress and the delete of Unsuppress. *)
Suppress(a) ==
  /\ suppressed' = suppressed \cup {a}
  /\ UNCHANGED <<active, verified, late, aged, store, counts, mine, known>>

Unsuppress(a) ==
  /\ suppressed' = suppressed \ {a}
  /\ UNCHANGED <<active, verified, late, aged, store, counts, mine, known>>

(* The domain checker suspends or verifies the sending domain. *)
DomainChanges ==
  /\ verified' = ~verified
  /\ UNCHANGED <<active, suppressed, late, aged, store, counts, mine, known>>

ScheduledTimePasses(b) ==
  /\ b \in Scheduled
  /\ late' = late \cup {b}
  /\ UNCHANGED <<active, suppressed, verified, aged, store, counts, mine, known>>

(* A message's created_at falls out of the quota window, which matters     *)
(* only where there is a quota.                                            *)
MessageAges ==
  /\ Quota > 0
  /\ \E m \in messages : aged' = aged \cup {m.id}
  /\ UNCHANGED <<active, suppressed, verified, late, store, counts, mine, known>>

-----------------------------------------------------------------------------
(* One call.                                                               *)

Goto(h, step) == pc' = [pc EXCEPT ![h] = step]

Answer(h, code, id) ==
  /\ Goto(h, "idle")
  /\ reply' = [reply EXCEPT ![h] = [code |-> code, id |-> id]]
  /\ kept' = [kept EXCEPT ![h] = {}]

Fault ==
  /\ faults < MaxFaults
  /\ faults' = faults + 1

(* The committed record of an idempotency key, as a set of at most one.    *)
Committed(k, i) == {r \in records : r.key = k /\ r.idem = i /\ r.tx = Nobody}

(* A client makes a call, for the first time or again.                     *)
Receive(h, c) ==
  /\ pc[h] = "idle"
  /\ calls < MaxCalls
  /\ c.n = calls + 1
  /\ calls' = calls + 1
  /\ call' = [call EXCEPT ![h] = c]
  /\ reply' = [reply EXCEPT ![h] = NoReply]
  /\ known' = [known EXCEPT ![h] =
                 LET same == {r \in Committed(c.key, c.idem) : r.body = c.body}
                 IN IF same = {} THEN 0 ELSE (CHOOSE r \in same : TRUE).message]
  /\ Goto(h, "auth")
  /\ UNCHANGED <<env, store, kept, faults>>

(* requireKey; recordKeyUse only notes when the key was used, which no      *)
(* decision reads.                                                         *)
Authenticate(h) ==
  /\ pc[h] = "auth"
  /\ call[h].key \in active
  /\ call[h].key \in SendScope
  /\ Goto(h, "filter")
  /\ UNCHANGED <<env, store, counts, call, kept, reply, known>>

RejectKey(h) ==
  /\ pc[h] = "auth"
  /\ \/ call[h].key \notin active /\ Answer(h, "401", 0)
     \/ /\ call[h].key \in active
        /\ call[h].key \notin SendScope
        /\ Answer(h, "403", 0)
  /\ UNCHANGED <<env, store, counts, call, known>>

(* What Store.FilterSuppressed leaves of a body's recipients. *)
Allowed(b) == To[b] \ suppressed

(* buildMessage drops suppressed recipients; a call with none left is      *)
(* refused, and so is one scheduled in the past.                           *)
FilterSuppressed(h) ==
  /\ pc[h] = "filter"
  /\ IF Allowed(call[h].body) = {} \/ call[h].body \in late
     THEN Answer(h, "422", 0)
     ELSE /\ kept' = [kept EXCEPT ![h] = Allowed(call[h].body)]
          /\ Goto(h, "domain")
          /\ UNCHANGED reply
  /\ UNCHANGED <<env, store, counts, call, known>>

CheckDomain(h) ==
  /\ pc[h] = "domain"
  /\ IF verified THEN Goto(h, "quota") /\ UNCHANGED <<kept, reply>>
                 ELSE Answer(h, "422", 0)
  /\ UNCHANGED <<env, store, counts, call, known>>

SendsInLastHour(k) == Cardinality({m \in messages : m.key = k /\ m.id \notin aged})

(* Mutant: the quota is compared with one message too few. *)
CheckQuotaMutant(h) ==
  /\ pc[h] = "quota"
  /\ IF Quota > 0 /\ SendsInLastHour(call[h].key) > Quota
     THEN Answer(h, "429", 0)
     ELSE Goto(h, "claim") /\ UNCHANGED <<kept, reply>>
  /\ UNCHANGED <<env, store, counts, call, known>>

CheckQuota(h) ==
  /\ pc[h] = "quota"
  /\ IF Quota > 0 /\ SendsInLastHour(call[h].key) >= Quota
     THEN Answer(h, "429", 0)
     ELSE Goto(h, "claim") /\ UNCHANGED <<kept, reply>>
  /\ UNCHANGED <<env, store, counts, call, known>>

(* A row of the key, committed or not. *)
Existing(c) == {r \in records : r.key = c.key /\ r.idem = c.idem}

(* Mutant: a row another transaction still holds is not waited for. *)
ClaimIdempotencyNoWaitMutant(h) ==
  LET c == call[h] IN
  /\ pc[h] = "claim"
  /\ IF c.idem = NoIdem
     THEN UNCHANGED records
     ELSE /\ Committed(c.key, c.idem) = {}
          /\ records' = records \cup
               {[key |-> c.key, idem |-> c.idem, body |-> c.body, message |-> 0, tx |-> h]}
  /\ Goto(h, "insert")
  /\ UNCHANGED <<env, messages, counts, call, kept, reply, known>>

(* Mutant: the record is inserted outside the transaction. *)
ClaimIdempotencyAutocommitMutant(h) ==
  LET c == call[h] IN
  /\ pc[h] = "claim"
  /\ IF c.idem = NoIdem
     THEN UNCHANGED records
     ELSE /\ Existing(c) = {}
          /\ records' = records \cup
               {[key |-> c.key, idem |-> c.idem, body |-> c.body, message |-> 0,
                 tx |-> Nobody]}
  /\ Goto(h, "insert")
  /\ UNCHANGED <<env, messages, counts, call, kept, reply, known>>

(* claimIdempotency inserts the record; without an idempotency key there   *)
(* is nothing to claim.                                                    *)
ClaimIdempotency(h) ==
  LET c == call[h] IN
  /\ pc[h] = "claim"
  /\ IF c.idem = NoIdem
     THEN UNCHANGED records
     ELSE /\ Existing(c) = {}
          /\ records' = records \cup
               {[key |-> c.key, idem |-> c.idem, body |-> c.body, message |-> 0, tx |-> h]}
  /\ Goto(h, "insert")
  /\ UNCHANGED <<env, messages, counts, call, kept, reply, known>>

(* Mutant: the request hash is not compared. *)
RecalledMutant(r, c) == [code |-> "202", id |-> r.message]

(* Mutant: a replay is answered with the id made for the new call. *)
RecalledFreshIdMutant(r, c) ==
  IF r.body # c.body THEN [code |-> "mismatch", id |-> 0]
  ELSE [code |-> "202", id |-> c.n]

(* What an existing record answers a call that uses its key again. *)
Recalled(r, c) ==
  CASE r.body # c.body                    -> [code |-> "mismatch", id |-> 0]
    [] r.body = c.body /\ r.message = 0   -> [code |-> "409", id |-> 0]
    [] r.body = c.body /\ r.message # 0   -> [code |-> "202", id |-> r.message]

(* The insert conflicts with a committed row, which is loaded instead.     *)
Replay(h) ==
  /\ pc[h] = "claim"
  /\ \E r \in Committed(call[h].key, call[h].idem) :
       LET old == Recalled(r, call[h]) IN Answer(h, old.code, old.id)
  /\ UNCHANGED <<env, store, counts, call, known>>

(* insertMessage, the link from the record, and the commit that makes both *)
(* visible at once.                                                        *)
Store(h) ==
  LET c == call[h] IN
  /\ messages' = messages \cup
       {[id |-> c.n, key |-> c.key, idem |-> c.idem, body |-> c.body,
         recipients |-> kept[h]]}
  /\ records' = {IF r.tx = h THEN [r EXCEPT !.message = c.n, !.tx = Nobody] ELSE r :
                   r \in records}

Commit(h) ==
  /\ pc[h] = "insert"
  /\ Store(h)
  /\ Answer(h, "202", call[h].n)
  /\ UNCHANGED <<env, counts, call, known>>

(* The commit lands, and its acknowledgement is lost. *)
CommitUnacknowledged(h) ==
  /\ pc[h] = "insert"
  /\ Fault
  /\ Store(h)
  /\ Answer(h, "500", 0)
  /\ UNCHANGED <<env, calls, call, known>>

(* Mutant: the row of a failed transaction stays behind. *)
RollbackMutant(h) ==
  /\ pc[h] = "insert"
  /\ Fault
  /\ Answer(h, "500", 0)
  /\ UNCHANGED <<env, messages, records, calls, call, known>>

(* A statement of the transaction fails, the client goes away or the       *)
(* process dies: the transaction is rolled back and its row disappears.    *)
Rollback(h) ==
  /\ pc[h] = "insert"
  /\ Fault
  /\ records' = {r \in records : r.tx # h}
  /\ Answer(h, "500", 0)
  /\ UNCHANGED <<env, messages, calls, call, known>>

(* A read fails before the transaction has written anything. A failed key  *)
(* lookup is answered like an unknown key, and a failed check of the       *)
(* recipients or the domain like an invalid request.                       *)
ReadFails(h) ==
  /\ Fault
  /\ \/ pc[h] = "auth" /\ Answer(h, "401", 0)
     \/ pc[h] \in {"filter", "domain"} /\ Answer(h, "422", 0)
     \/ pc[h] \in {"quota", "claim"} /\ Answer(h, "500", 0)
  /\ UNCHANGED <<env, store, calls, call, known>>

-----------------------------------------------------------------------------
Progress(h) ==
  \/ Authenticate(h)
  \/ RejectKey(h)
  \/ FilterSuppressed(h)
  \/ CheckDomain(h)
  \/ CheckQuota(h)
  \/ ClaimIdempotency(h)
  \/ Replay(h)
  \/ Commit(h)

Trouble(h) ==
  \/ CommitUnacknowledged(h)
  \/ Rollback(h)
  \/ ReadFails(h)

Environment ==
  \/ \E k \in Keys : KeyEnds(k)
  \/ \E a \in Addresses : Suppress(a) \/ Unsuppress(a)
  \/ DomainChanges
  \/ \E b \in Bodies : ScheduledTimePasses(b)
  \/ MessageAges

Next ==
  \/ Environment
  \/ \E h \in Handlers :
       \/ \E c \in Calls : Receive(h, c)
       \/ Progress(h)
       \/ Trouble(h)

Spec == Init /\ [][Next]_vars

-----------------------------------------------------------------------------
(* Properties.                                                             *)

(* One idempotency key of one API key never yields two messages, whatever  *)
(* handlers race on it and however their transactions end.                 *)
OneMessagePerIdempotencyKey ==
  \A m, n \in messages :
    m.idem # NoIdem /\ m.key = n.key /\ m.idem = n.idem => m = n

(* The state is well typed and an idempotency key is used once. *)
IntakeInv == TypeOK /\ OneMessagePerIdempotencyKey

(* Either both land or neither does: a committed idempotency record names  *)
(* a stored message of the same key and body, and every message sent with  *)
(* an idempotency key has its record. The 409 answer is thus never given.  *)
AcceptanceIsAtomic ==
  /\ \A r \in records : r.tx = Nobody =>
       \E m \in messages : /\ m.id = r.message
                           /\ m.key = r.key /\ m.idem = r.idem /\ m.body = r.body
  /\ \A m \in messages : m.idem # NoIdem =>
       \E r \in records : r.tx = Nobody /\ r.message = m.id
  /\ \A h \in Handlers : reply[h].code # "409"

(* A 202 names a stored message with the caller's own key and body, and    *)
(* for a call that had been accepted before it is that very message.       *)
AcceptedNamesItsMessage ==
  \A h \in Handlers : reply[h].code = "202" =>
    /\ \E m \in messages : /\ m.id = reply[h].id
                           /\ m.key = call[h].key /\ m.body = call[h].body
    /\ known[h] # 0 => reply[h].id = known[h]

(* The quota is read before the insert, so each concurrent handler can     *)
(* exceed it by one message and no more.                                   *)
QuotaOvershootBounded ==
  Quota > 0 =>
    \A k \in Keys : SendsInLastHour(k) <= (Quota - 1) + Cardinality(Handlers)

(* A handler waits only for a transaction that is still at work: whatever  *)
(* ends the transaction, the idempotency row it holds is committed or gone *)
(* with it, so no later call of the key waits for ever.                    *)
NoOrphanedClaim ==
  \A r \in records : r.tx # Nobody =>
    /\ pc[r.tx] = "insert"
    /\ call[r.tx].key = r.key /\ call[r.tx].idem = r.idem
=============================================================================
