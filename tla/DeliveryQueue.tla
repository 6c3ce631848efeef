---------------------------- MODULE DeliveryQueue ----------------------------
(***************************************************************************)
(* The delivery queue: the messages table of Postgres, the message_events  *)
(* log, and any number of worker processes that claim due messages, sign   *)
(* them, hand them to the sending engine and record the outcome            *)
(* (internal/worker/worker.go, internal/store/queue.go,                    *)
(* internal/delivery/engine.go).                                           *)
(*                                                                         *)
(* One action is one statement against the database or one call to the     *)
(* engine: between two of them another worker may run, the clock may move, *)
(* and the process may die.  A failed statement, a lost batch and a dead   *)
(* worker are faults; MaxFaults bounds how many happen in a behaviour.     *)
(*                                                                         *)
(* Timestamps are abstracted to what the guards compare them with:         *)
(*   due[m]      scheduled_at IS NULL OR scheduled_at <= now()             *)
(*   lock[m]     locked_until: "null", "held" (> now()) or "expired"       *)
(*   recentSent  the email.sent events younger than one hour               *)
(* Columns that only people read (last_error, updated_at, signed_at)       *)
(* and the contents of a message are left out.                             *)
(***************************************************************************)
EXTENDS Naturals, Sequences, FiniteSets

CONSTANTS
  Workers,        \* the running `aiemail worker` processes
  MessageCount,   \* messages are 1..MessageCount in the order of created_at
  BatchSize,      \* worker.batchSize
  MaxAttempts,    \* worker.MaxAttempts
  MaxPerHour,     \* Worker.maxPerHour, 0 for no ceiling
  MaxFaults       \* bound on crashes and failed statements

ASSUME ConstantsAssumption ==
  /\ IsFiniteSet(Workers)
  /\ MessageCount \in Nat
  /\ BatchSize \in Nat \ {0}
  /\ MaxAttempts \in Nat \ {0}
  /\ MaxPerHour \in Nat
  /\ MaxFaults \in Nat

VARIABLES
  status,         \* messages.status, "new" before the row exists
  attempts,       \* messages.attempts
  due,            \* whether scheduled_at lets the message be claimed now
  lock,           \* messages.locked_until
  events,         \* message_events: the types recorded for each message
  recentSent,     \* what SentInLastHour counts
  accepted,       \* messages the sending engine has taken
  suppressed,     \* messages whose recipients were put on the suppression list
  published,      \* event ids queued for the webhook endpoints
  pc,             \* what each worker does next
  batch,          \* claimed messages a worker has not started on
  cur,            \* the message a worker is delivering
  verdict,        \* the outcome a worker is about to record
  faults          \* faults so far

table == <<status, attempts, due, lock>>
log   == <<events, recentSent, published>>
local == <<pc, batch, cur, verdict>>
vars  == <<table, log, accepted, suppressed, local, faults>>

-----------------------------------------------------------------------------
Messages == 1..MessageCount
Waiting  == {"queued", "deferred"}
Final    == {"sent", "failed"}
Verdicts == Final \cup {"deferred"}
Statuses == {"new", "sending"} \cup Waiting \cup Final
Steps    == {"idle", "claim", "next", "sign", "send", "suppress",
             "update", "record", "publish"}

(* store.Claimed: the row as the claim returned it. *)
Claimed  == [id : Messages, attempts : Nat]
NoClaim  == [id |-> 0, attempts |-> 0]

(* The id publish derives from the message, the event type and the attempt. *)
EventIds == [message : Messages, type : Verdicts, attempt : Nat]

TypeOK ==
  /\ status \in [Messages -> Statuses]
  /\ attempts \in [Messages -> Nat]
  /\ due \in [Messages -> BOOLEAN]
  /\ lock \in [Messages -> {"null", "held", "expired"}]
  /\ events \in [Messages -> Seq(Verdicts)]
  /\ recentSent \in Nat
  /\ accepted \subseteq Messages
  /\ suppressed \subseteq Messages
  /\ published \subseteq EventIds
  /\ pc \in [Workers -> Steps]
  /\ batch \in [Workers -> SUBSET Claimed]
  /\ cur \in [Workers -> Claimed \cup {NoClaim}]
  /\ verdict \in [Workers -> Verdicts]
  /\ faults \in 0..MaxFaults

Init ==
  /\ status = [m \in Messages |-> "new"]
  /\ attempts = [m \in Messages |-> 0]
  /\ due = [m \in Messages |-> FALSE]
  /\ lock = [m \in Messages |-> "null"]
  /\ events = [m \in Messages |-> <<>>]
  /\ recentSent = 0
  /\ accepted = {}
  /\ suppressed = {}
  /\ published = {}
  /\ pc = [w \in Workers |-> "idle"]
  /\ batch = [w \in Workers |-> {}]
  /\ cur = [w \in Workers |-> NoClaim]
  /\ verdict = [w \in Workers |-> "failed"]
  /\ faults = 0

-----------------------------------------------------------------------------
(* The environment: accepted mail and the clock.                           *)

(* The API commits a new message, to be sent now or at a later time. Rows  *)
(* become visible in commit order, which need not be created_at order.     *)
Enqueue(m) ==
  /\ status[m] = "new"
  /\ status' = [status EXCEPT ![m] = "queued"]
  /\ \E now \in BOOLEAN : due' = [due EXCEPT ![m] = now]
  /\ UNCHANGED <<attempts, lock, log, accepted, suppressed, local, faults>>

(* now() passes scheduled_at. *)
ComesDue(m) ==
  /\ status[m] \in Waiting
  /\ ~due[m]
  /\ due' = [due EXCEPT ![m] = TRUE]
  /\ UNCHANGED <<status, attempts, lock, log, accepted, suppressed, local, faults>>

(* now() passes locked_until. *)
LockExpires(m) ==
  /\ lock[m] = "held"
  /\ lock' = [lock EXCEPT ![m] = "expired"]
  /\ UNCHANGED <<status, attempts, due, log, accepted, suppressed, local, faults>>

(* The oldest email.sent event leaves the one-hour window. *)
SentAgesOut ==
  /\ recentSent > 0
  /\ recentSent' = recentSent - 1
  /\ UNCHANGED <<table, events, published, accepted, suppressed, local, faults>>

-----------------------------------------------------------------------------
(* A worker's tick.                                                        *)

Goto(w, step) == pc' = [pc EXCEPT ![w] = step]

(* deliver returns: the message in hand and its outcome go out of scope. *)
Leave(w, step) ==
  /\ Goto(w, step)
  /\ cur' = [cur EXCEPT ![w] = NoClaim]
  /\ verdict' = [verdict EXCEPT ![w] = "failed"]

Fault ==
  /\ faults < MaxFaults
  /\ faults' = faults + 1

(* The worker reads the count of recent dispatches and goes on to claim    *)
(* unless the ceiling is reached; then, or when the read fails, it waits   *)
(* and looks again.                                                        *)
CheckCeiling(w) ==
  /\ pc[w] = "idle"
  /\ MaxPerHour > 0 => recentSent < MaxPerHour
  /\ Goto(w, "claim")
  /\ UNCHANGED <<table, log, accepted, suppressed, batch, cur, verdict, faults>>

(* Mutant: an expired lock alone makes a row claimable again. *)
ClaimableExpiredMutant ==
  {m \in Messages : status[m] \in Waiting \cup {"sending"} /\ due[m] /\ lock[m] # "held"}

(* The rows the claim's inner SELECT accepts. *)
Claimable ==
  {m \in Messages : status[m] \in Waiting /\ due[m] /\ lock[m] # "held"}

(* ORDER BY created_at LIMIT n. *)
Oldest(rows, n) ==
  {m \in rows : Cardinality({k \in rows : k < m}) < n}

(* Rows another worker's insert into message_events or webhook_deliveries  *)
(* may have locked through its foreign key; SKIP LOCKED passes them over.  *)
RowsInUse(w) ==
  {m \in Messages : \E v \in Workers \ {w} :
                      pc[v] \in {"record", "publish"} /\ cur[v].id = m}

(* What the claim's UPDATE does to the chosen rows. *)
ClaimRows(rows) ==
  /\ status' = [m \in Messages |-> IF m \in rows THEN "sending" ELSE status[m]]
  /\ attempts' = [m \in Messages |->
                    IF m \in rows THEN attempts[m] + 1 ELSE attempts[m]]
  /\ lock' = [m \in Messages |-> IF m \in rows THEN "held" ELSE lock[m]]
  /\ UNCHANGED due

(* The rows one claim may take: rows locked by someone else are skipped.   *)
ClaimChoices(w) ==
  {Oldest(Claimable \ skipped, BatchSize) : skipped \in SUBSET RowsInUse(w)}

Claim(w) ==
  /\ pc[w] = "claim"
  /\ \E rows \in ClaimChoices(w) :
       /\ ClaimRows(rows)
       /\ batch' = [batch EXCEPT ![w] =
                      {[id |-> m, attempts |-> attempts[m] + 1] : m \in rows}]
  /\ Goto(w, "next")
  /\ UNCHANGED <<log, accepted, suppressed, cur, verdict, faults>>

(* The claim's UPDATE commits, but reading its rows fails: the connection  *)
(* drops, or one row's recipients cannot be decrypted. The whole batch is  *)
(* dropped and tick returns the error.                                     *)
ClaimLost(w) ==
  /\ pc[w] = "claim"
  /\ Fault
  /\ \E rows \in ClaimChoices(w) : ClaimRows(rows)
  /\ Goto(w, "idle")
  /\ UNCHANGED <<log, accepted, suppressed, batch, cur, verdict>>

(* The loop over the batch; RETURNING promises no order. *)
TakeNext(w) ==
  /\ pc[w] = "next"
  /\ \E c \in batch[w] :
       /\ cur' = [cur EXCEPT ![w] = c]
       /\ batch' = [batch EXCEPT ![w] = @ \ {c}]
  /\ Goto(w, "sign")
  /\ UNCHANGED <<table, log, accepted, suppressed, verdict, faults>>

(* Mutant: a full batch is followed by the next without a new check. *)
BatchDoneMutant(w) ==
  /\ pc[w] = "next"
  /\ batch[w] = {}
  /\ Goto(w, "claim")
  /\ UNCHANGED <<table, log, accepted, suppressed, batch, cur, verdict, faults>>

BatchDone(w) ==
  /\ pc[w] = "next"
  /\ batch[w] = {}
  /\ Goto(w, "idle")
  /\ UNCHANGED <<table, log, accepted, suppressed, batch, cur, verdict, faults>>

-----------------------------------------------------------------------------
(* deliver                                                                 *)

(* The message is built and signed, or any step of that fails (no active   *)
(* key, a failed lookup, a build or signing error), which fails the        *)
(* message for good.                                                       *)
Sign(w) ==
  /\ pc[w] = "sign"
  /\ Goto(w, "send")
  /\ UNCHANGED <<table, log, accepted, suppressed, batch, cur, verdict, faults>>

(* Mutant: the error is logged and the message dropped. *)
SignFailsMutant(w) ==
  /\ pc[w] = "sign"
  /\ Leave(w, "next")
  /\ UNCHANGED <<table, log, accepted, suppressed, batch, faults>>

SignFails(w) ==
  /\ pc[w] = "sign"
  /\ verdict' = [verdict EXCEPT ![w] = "failed"]
  /\ Goto(w, "update")
  /\ UNCHANGED <<table, log, accepted, suppressed, batch, cur, faults>>

Responses == {"Sent", "Temporary", "Permanent"}

(* Mutant: the last attempt is deferred once more. *)
OutcomeMutant(resp, n) ==
  CASE resp = "Sent"      -> "sent"
    [] resp = "Temporary" -> IF n > MaxAttempts THEN "failed" ELSE "deferred"
    [] resp = "Permanent" -> "failed"

(* What deliver makes of the engine's answer to attempt n. *)
Outcome(resp, n) ==
  CASE resp = "Sent"      -> "sent"
    [] resp = "Temporary" -> IF n >= MaxAttempts THEN "failed" ELSE "deferred"
    [] resp = "Permanent" -> "failed"

(* Mutant: recipients are suppressed for every failure. *)
SendMutant(w) ==
  /\ pc[w] = "send"
  /\ \E resp \in Responses, took \in BOOLEAN :
       /\ resp = "Sent" => took
       /\ resp = "Permanent" => ~took
       /\ accepted' = IF took THEN accepted \cup {cur[w].id} ELSE accepted
       /\ verdict' = [verdict EXCEPT ![w] = Outcome(resp, cur[w].attempts)]
       /\ Goto(w, IF resp # "Sent" THEN "suppress" ELSE "update")
  /\ UNCHANGED <<table, log, suppressed, batch, cur, faults>>

(* The hand-off. A 2xx answer means the engine took the message and a      *)
(* refusal means it did not; a timeout, a lost answer, 429 or 5xx          *)
(* ("Temporary") says nothing about it.                                    *)
Send(w) ==
  /\ pc[w] = "send"
  /\ \E resp \in Responses, took \in BOOLEAN :
       /\ resp = "Sent" => took
       /\ resp = "Permanent" => ~took
       /\ accepted' = IF took THEN accepted \cup {cur[w].id} ELSE accepted
       /\ verdict' = [verdict EXCEPT ![w] = Outcome(resp, cur[w].attempts)]
       /\ Goto(w, IF resp = "Permanent" THEN "suppress" ELSE "update")
  /\ UNCHANGED <<table, log, suppressed, batch, cur, faults>>

(* suppressIfAddressIsBad: the refusal's text decides whether the          *)
(* recipients are suppressed; a failed insert is logged and passed over.   *)
(* Either reading is allowed, for any Sender: what the texts of engine.go  *)
(* itself lead to is in BounceClassify.                                    *)
Suppress(w) ==
  /\ pc[w] = "suppress"
  /\ \E bad \in BOOLEAN :
       suppressed' = IF bad THEN suppressed \cup {cur[w].id} ELSE suppressed
  /\ Goto(w, "update")
  /\ UNCHANGED <<table, log, accepted, batch, cur, verdict, faults>>

(* Mutant: a deferral forgets the attempts already made. *)
WriteVerdictMutant(w) ==
  LET m == cur[w].id IN
  /\ status' = [status EXCEPT ![m] = verdict[w]]
  /\ lock' = [lock EXCEPT ![m] = "null"]
  /\ due' = [due EXCEPT ![m] = IF verdict[w] = "deferred" THEN FALSE ELSE @]
  /\ attempts' = [attempts EXCEPT ![m] = IF verdict[w] = "deferred" THEN 0 ELSE @]

(* The UPDATE of transition and MarkDeferred. A deferred message is due    *)
(* again only when its backoff has passed.                                 *)
WriteVerdict(w) ==
  LET m == cur[w].id IN
  /\ status' = [status EXCEPT ![m] = verdict[w]]
  /\ lock' = [lock EXCEPT ![m] = "null"]
  /\ due' = [due EXCEPT ![m] = IF verdict[w] = "deferred" THEN FALSE ELSE @]
  /\ UNCHANGED attempts

Update(w) ==
  /\ pc[w] = "update"
  /\ WriteVerdict(w)
  /\ Goto(w, "record")
  /\ UNCHANGED <<log, accepted, suppressed, batch, cur, verdict, faults>>

(* The UPDATE returns an error, having committed or not; the worker logs   *)
(* it and moves on without recording or publishing anything.               *)
UpdateFails(w) ==
  /\ pc[w] = "update"
  /\ Fault
  /\ WriteVerdict(w) \/ UNCHANGED table
  /\ Leave(w, "next")
  /\ UNCHANGED <<log, accepted, suppressed, batch>>

(* RecordEvent's INSERT. *)
InsertEvent(w) ==
  /\ events' = [events EXCEPT ![cur[w].id] = Append(@, verdict[w])]
  /\ recentSent' = IF verdict[w] = "sent" THEN recentSent + 1 ELSE recentSent
  /\ UNCHANGED published

(* Mutant: the event is recorded and the publish call left out. *)
RecordMutant(w) ==
  /\ pc[w] = "record"
  /\ InsertEvent(w)
  /\ Leave(w, "next")
  /\ UNCHANGED <<table, accepted, suppressed, batch, faults>>

Record(w) ==
  /\ pc[w] = "record"
  /\ InsertEvent(w)
  /\ Goto(w, "publish")
  /\ UNCHANGED <<table, accepted, suppressed, batch, cur, verdict, faults>>

(* Mutant: a failed insert is tried again. *)
RecordFailsRetryMutant(w) ==
  /\ pc[w] = "record"
  /\ Fault
  /\ InsertEvent(w) \/ UNCHANGED log
  /\ UNCHANGED <<table, accepted, suppressed, local>>

(* Mutant: the error is ignored and the event published. *)
RecordFailsPublishMutant(w) ==
  /\ pc[w] = "record"
  /\ Fault
  /\ InsertEvent(w) \/ UNCHANGED log
  /\ Goto(w, "publish")
  /\ UNCHANGED <<table, accepted, suppressed, batch, cur, verdict>>

RecordFails(w) ==
  /\ pc[w] = "record"
  /\ Fault
  /\ InsertEvent(w) \/ UNCHANGED log
  /\ Leave(w, "next")
  /\ UNCHANGED <<table, accepted, suppressed, batch>>

EventId(w) ==
  [message |-> cur[w].id, type |-> verdict[w], attempt |-> cur[w].attempts]

Publish(w) ==
  /\ pc[w] = "publish"
  /\ published' = published \cup {EventId(w)}
  /\ Leave(w, "next")
  /\ UNCHANGED <<table, events, recentSent, accepted, suppressed, batch, faults>>

(* EnqueueDelivery fails; the error is logged and nothing repeats it. *)
PublishFails(w) ==
  /\ pc[w] = "publish"
  /\ Fault
  /\ Leave(w, "next")
  /\ UNCHANGED <<table, log, accepted, suppressed, batch>>

(* The process dies and is started again, or it is told to stop: the       *)
(* cancelled context then fails every remaining statement of the batch.    *)
(* What it held in memory is gone.                                         *)
Crash(w) ==
  /\ pc[w] # "idle"
  /\ Fault
  /\ Leave(w, "idle")
  /\ batch' = [batch EXCEPT ![w] = {}]
  /\ UNCHANGED <<table, log, accepted, suppressed>>

-----------------------------------------------------------------------------
WorkerStep(w) ==
  \/ CheckCeiling(w)
  \/ Claim(w)
  \/ TakeNext(w)
  \/ BatchDone(w)
  \/ Sign(w)
  \/ SignFails(w)
  \/ Send(w)
  \/ Suppress(w)
  \/ Update(w)
  \/ Record(w)
  \/ Publish(w)

WorkerFault(w) ==
  \/ ClaimLost(w)
  \/ UpdateFails(w)
  \/ RecordFails(w)
  \/ PublishFails(w)
  \/ Crash(w)

Environment ==
  \/ \E m \in Messages : Enqueue(m) \/ ComesDue(m) \/ LockExpires(m)
  \/ SentAgesOut

Next ==
  \/ Environment
  \/ \E w \in Workers : WorkerStep(w) \/ WorkerFault(w)

Spec == Init /\ [][Next]_vars

(* A worker loops for as long as it runs, and time passes. Nothing is      *)
(* assumed of faults, and nothing of the engine's answers.                 *)
Fairness ==
  /\ \A w \in Workers : WF_vars(WorkerStep(w))
  /\ \A m \in Messages : WF_vars(ComesDue(m)) /\ WF_vars(LockExpires(m))
  /\ WF_vars(SentAgesOut)

FairSpec == Spec /\ Fairness

-----------------------------------------------------------------------------
(* Properties.                                                             *)

(* The messages a worker has claimed and not yet given a verdict. *)
InFlight == {"sign", "send", "suppress", "update"}
Holds(w) ==
  {c.id : c \in batch[w]} \cup (IF pc[w] \in InFlight THEN {cur[w].id} ELSE {})

(* No message is in the hands of two workers, and a worker that holds one  *)
(* finds it still 'sending': neither an expired lock, a skipped row nor a  *)
(* restarted worker lets ClaimMessages hand out the same row twice.        *)
ExclusiveDelivery ==
  /\ \A v, w \in Workers : v # w => Holds(v) \cap Holds(w) = {}
  /\ \A w \in Workers : \A m \in Holds(w) : status[m] = "sending"

(* The retry chain ends: deliver fails the message at MaxAttempts instead  *)
(* of deferring it, however many claims were lost on the way.              *)
AttemptsBounded == \A m \in Messages : attempts[m] <= MaxAttempts

(* A message reported 'sent' was taken by the engine at some attempt.      *)
SentWasHandedOver == \A m \in Messages : status[m] = "sent" => m \in accepted

(* The event log agrees with the table: a message has at most one email.sent *)
(* or email.failed event, and it names the status the row has for good.    *)
OneVerdictEvent ==
  \A m \in Messages :
    \A i \in 1..Len(events[m]) :
      events[m][i] \in Final =>
        /\ events[m][i] = status[m]
        /\ \A j \in 1..Len(events[m]) : events[m][j] \in Final => j = i

(* Every event id queued for the webhooks stands for an event of its own   *)
(* in the log: publish announces nothing that RecordEvent did not store.   *)
WebhookBackedByEvent ==
  \A m \in Messages, t \in Verdicts :
    Cardinality({p \in published : p.message = m /\ p.type = t})
      <= Cardinality({i \in 1..Len(events[m]) : events[m][i] = t})

(* Recipients are suppressed only for a message the engine refused for     *)
(* good, which is therefore never reported as sent.                        *)
SuppressedNeverSent == \A m \in suppressed : status[m] # "sent"

(* The hourly ceiling is checked once per batch, so each worker can exceed *)
(* it by at most the batch it claims after its check.                      *)
CeilingOvershootBounded ==
  MaxPerHour > 0 =>
    recentSent <= (MaxPerHour - 1) + BatchSize * Cardinality(Workers)

(* Rows left 'sending' that no worker holds: each fault strands at most    *)
(* one batch, and without faults none is stranded.                         *)
Stranded ==
  {m \in Messages : status[m] = "sending" /\ \A w \in Workers : m \notin Holds(w)}
StrandedOnlyByFaults == Cardinality(Stranded) <= faults * BatchSize

(* A verdict is never revised: no later claim, stale worker or retry       *)
(* touches the status or the attempts of a sent or failed message. The     *)
(* refinement below implies it; the proof reads it off there.              *)
VerdictIsFinal ==
  [][\A m \in Messages :
       status[m] \in Final => status'[m] = status[m] /\ attempts'[m] = attempts[m]]_vars

(* Every accepted message is sent or failed in the end, under FairSpec,    *)
(* unless a fault has stranded it: whatever the engine answers, and also   *)
(* when the hourly ceiling holds delivery back.                            *)
EveryMessageResolved ==
  \A m \in Messages :
    status[m] = "queued" ~> status[m] \in Final \/ (faults > 0 /\ m \in Stranded)

(* Verdicts no webhook will hear of: the row is sent or failed, nothing    *)
(* was published about it, and no worker is on the way to publish it.      *)
VerdictAnnounced(m) == \E p \in published : p.message = m /\ p.type = status[m]
WillAnnounce(w, m) ==
  pc[w] \in {"record", "publish"} /\ cur[w].id = m /\ verdict[w] = status[m]
Silent ==
  {m \in Messages : /\ status[m] \in Final
                    /\ ~VerdictAnnounced(m)
                    /\ \A w \in Workers : ~WillAnnounce(w, m)}

(* A verdict goes unannounced only where a fault came between its UPDATE   *)
(* and EnqueueDelivery, and one fault silences one verdict at most: the    *)
(* rest of the claimed batch is still announced. Nothing publishes a       *)
(* silenced verdict later, its recorded event included, although           *)
(* EventPublisher's comment says that cannot happen.                       *)
SilentOnlyByFaults == Cardinality(Silent) <= faults

(* Every verdict is announced to the webhooks in the end, under FairSpec,  *)
(* unless a fault has silenced that very verdict: a fault that hit another *)
(* message, another worker or an earlier step excuses nothing.             *)
EveryVerdictAnnounced ==
  \A m \in Messages :
    status[m] \in Final ~> VerdictAnnounced(m) \/ (faults > 0 /\ m \in Silent)

(* The inductive invariant behind the safety properties, in named parts.   *)

(* What a worker remembers of a claimed row is still what the row says, it *)
(* holds nothing before it has claimed, and no message twice.              *)
ClaimsAreCurrent ==
  \A w \in Workers :
    /\ pc[w] \in {"idle", "claim"} => batch[w] = {}
    /\ \A c \in batch[w] : c.attempts = attempts[c.id]
    /\ pc[w] \in InFlight => /\ cur[w].attempts = attempts[cur[w].id]
                            /\ \A c \in batch[w] : c.id # cur[w].id

(* A message that may still be claimed has an attempt left. *)
RetriesRemain ==
  \A m \in Messages : status[m] \in Waiting \cup {"new"} => attempts[m] < MaxAttempts

(* A worker about to write a verdict is entitled to it. *)
VerdictsAreEarned ==
  \A w \in Workers :
    /\ pc[w] = "suppress" => verdict[w] = "failed"
    /\ pc[w] = "update" /\ verdict[w] = "deferred" => cur[w].attempts < MaxAttempts
    /\ pc[w] = "update" /\ verdict[w] = "sent" => cur[w].id \in accepted

(* A message whose recipients were suppressed is failed, about to be       *)
(* failed, or stranded on the way there.                                   *)
SuppressedIsFailing ==
  \A m \in suppressed :
    /\ status[m] \in {"sending", "failed"}
    /\ \A w \in Workers : m \in Holds(w) =>
         pc[w] = "update" /\ cur[w].id = m /\ verdict[w] = "failed"

(* A worker about to record a final verdict wrote it to the row, nobody    *)
(* recorded one before and nobody else is about to.                        *)
RecordsOnce ==
  \A w \in Workers :
    pc[w] = "record" /\ verdict[w] \in Final =>
      LET m == cur[w].id IN
      /\ status[m] = verdict[w]
      /\ \A i \in 1..Len(events[m]) : events[m][i] \notin Final
      /\ \A v \in Workers \ {w} :
           ~(pc[v] = "record" /\ verdict[v] \in Final /\ cur[v].id = m)

(* What makes the queue correct, as one inductive invariant: at every      *)
(* interleaving of workers and faults the rows a worker remembers are the  *)
(* rows of the table, a row that may be claimed has an attempt left, a     *)
(* verdict about to be written is earned, and a final one is recorded once.*)
QueueInv ==
  /\ TypeOK
  /\ ClaimsAreCurrent
  /\ RetriesRemain
  /\ VerdictsAreEarned
  /\ SuppressedIsFailing
  /\ RecordsOnce

(* What the comment on ClaimMessages promises: when a worker dies and its  *)
(* lock expires, the message is retried.                                   *)
ExpiredLockIsRetried ==
  \A m \in Messages : lock[m] = "expired" ~> lock[m] # "expired"

(* The queue implements MessageLifecycle: hiding workers, locks, events    *)
(* and the clock, every step is a step of that specification or a stutter. *)
Lifecycle == INSTANCE MessageLifecycle
ImplementsLifecycle == Lifecycle!Spec
=============================================================================
