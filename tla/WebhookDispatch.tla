--------------------------- MODULE WebhookDispatch ---------------------------
(***************************************************************************)
(* The webhook queue: webhook_endpoints, webhook_deliveries and any number *)
(* of dispatchers, one per worker process, that claim due deliveries, POST *)
(* them and record the outcome (internal/worker/webhooks.go, Dispatcher;   *)
(* internal/store/webhooks.go; internal/webhook/sender.go).                *)
(*                                                                         *)
(* A delivery is the row of one endpoint and one event. One action is one  *)
(* statement or one POST. next_attempt is kept as "due now or not",        *)
(* locked_until as "null", "held" or "expired"; payloads, secrets and      *)
(* last_error are left out.                                                *)
(***************************************************************************)
EXTENDS Naturals, FiniteSets

CONSTANTS
  Dispatchers,    \* the running dispatcher loops
  Endpoints,      \* endpoints that may be registered
  Events,         \* event ids that may be published
  BatchSize,      \* worker.webhookBatch
  MaxTries,       \* worker.MaxWebhookTries
  MaxFaults,      \* bound on crashes and failed statements
  Nothing         \* the delivery in hand of a dispatcher that has none

ASSUME DispatchAssumption ==
  /\ IsFiniteSet(Endpoints)
  /\ IsFiniteSet(Events)
  /\ BatchSize \in Nat \ {0}
  /\ MaxTries \in Nat \ {0}
  /\ MaxFaults \in Nat

Deliveries == Endpoints \X Events
ASSUME NothingIsNoDelivery == Nothing \notin Deliveries

VARIABLES
  active,         \* webhook_endpoints with active = true
  status,         \* webhook_deliveries.status, "none" before the row exists
  tries,          \* webhook_deliveries.attempts
  due,            \* next_attempt <= now()
  lock,           \* webhook_deliveries.locked_until
  received,       \* deliveries whose POST the endpoint has taken
  refused,        \* deliveries Send told the dispatcher to drop
  pc,             \* what each dispatcher does next
  batch,          \* claimed deliveries a dispatcher has not started on
  cur,            \* the delivery a dispatcher is sending
  seen,           \* item.Attempts of the delivery in hand
  verdict,        \* the status a dispatcher is about to write
  faults          \* faults so far

table == <<status, tries, due, lock>>
local == <<pc, batch, cur, seen, verdict>>
vars  == <<active, table, received, refused, local, faults>>

Final    == {"delivered", "failed"}
Verdicts == Final \cup {"pending"}

TypeOK ==
  /\ active \subseteq Endpoints
  /\ status \in [Deliveries -> {"none", "delivering"} \cup Verdicts]
  /\ tries \in [Deliveries -> Nat]
  /\ due \in [Deliveries -> BOOLEAN]
  /\ lock \in [Deliveries -> {"null", "held", "expired"}]
  /\ received \subseteq Deliveries
  /\ refused \subseteq Deliveries
  /\ pc \in [Dispatchers -> {"claim", "next", "send", "mark"}]
  /\ batch \in [Dispatchers -> SUBSET (Deliveries \X Nat)]
  /\ cur \in [Dispatchers -> Deliveries \cup {Nothing}]
  /\ seen \in [Dispatchers -> Nat]
  /\ verdict \in [Dispatchers -> Verdicts]
  /\ faults \in 0..MaxFaults

Init ==
  /\ active = {}
  /\ status = [d \in Deliveries |-> "none"]
  /\ tries = [d \in Deliveries |-> 0]
  /\ due = [d \in Deliveries |-> TRUE]
  /\ lock = [d \in Deliveries |-> "null"]
  /\ received = {}
  /\ refused = {}
  /\ pc = [w \in Dispatchers |-> "claim"]
  /\ batch = [w \in Dispatchers |-> {}]
  /\ cur = [w \in Dispatchers |-> Nothing]
  /\ seen = [w \in Dispatchers |-> 0]
  /\ verdict = [w \in Dispatchers |-> "failed"]
  /\ faults = 0

-----------------------------------------------------------------------------
(* The rest of the system and the clock.                                   *)

(* `aiemail webhooks add` registers an endpoint; nothing deactivates one.  *)
CreateEndpoint(e) ==
  /\ e \notin active
  /\ active' = active \cup {e}
  /\ UNCHANGED <<table, received, refused, local, faults>>

(* Mutant: a repeated event starts its deliveries again. *)
EnqueueDeliveryMutant(ev) ==
  /\ status' = [d \in Deliveries |->
                  IF d[1] \in active /\ d[2] = ev THEN "pending" ELSE status[d]]
  /\ UNCHANGED <<active, tries, due, lock, received, refused, local, faults>>

(* A delivery worker publishes an event: one row for every active endpoint *)
(* that has none for it. The call may be repeated, also after an endpoint  *)
(* was added.                                                              *)
EnqueueDelivery(ev) ==
  /\ status' = [d \in Deliveries |->
                  IF d[1] \in active /\ d[2] = ev /\ status[d] = "none"
                  THEN "pending" ELSE status[d]]
  /\ UNCHANGED <<active, tries, due, lock, received, refused, local, faults>>

(* now() passes next_attempt. *)
ComesDue(d) ==
  /\ ~due[d]
  /\ due' = [due EXCEPT ![d] = TRUE]
  /\ UNCHANGED <<active, status, tries, lock, received, refused, local, faults>>

(* now() passes locked_until. *)
LockExpires(d) ==
  /\ lock[d] = "held"
  /\ lock' = [lock EXCEPT ![d] = "expired"]
  /\ UNCHANGED <<active, status, tries, due, received, refused, local, faults>>

-----------------------------------------------------------------------------
(* A dispatcher's tick.                                                    *)

Goto(w, step) == pc' = [pc EXCEPT ![w] = step]

(* deliver returns, or the process dies. *)
Leave(w, step) ==
  /\ Goto(w, step)
  /\ cur' = [cur EXCEPT ![w] = Nothing]
  /\ seen' = [seen EXCEPT ![w] = 0]
  /\ verdict' = [verdict EXCEPT ![w] = "failed"]

Fault ==
  /\ faults < MaxFaults
  /\ faults' = faults + 1

(* Mutant: a claim takes back rows whose lock has expired. *)
ClaimableMutant ==
  {d \in Deliveries : status[d] \in {"pending", "delivering"} /\ due[d] /\ lock[d] # "held"}

Claimable ==
  {d \in Deliveries : status[d] = "pending" /\ due[d] /\ lock[d] # "held"}

(* ORDER BY next_attempt LIMIT n: the order of the times is not modelled,  *)
(* so any rows may be the earliest; the claim takes n of them or all.      *)
ClaimChoices ==
  {rows \in SUBSET Claimable :
     \/ Cardinality(rows) = BatchSize
     \/ rows = Claimable /\ Cardinality(rows) < BatchSize}

ClaimRows(rows) ==
  /\ status' = [d \in Deliveries |-> IF d \in rows THEN "delivering" ELSE status[d]]
  /\ tries' = [d \in Deliveries |-> IF d \in rows THEN tries[d] + 1 ELSE tries[d]]
  /\ lock' = [d \in Deliveries |-> IF d \in rows THEN "held" ELSE lock[d]]
  /\ UNCHANGED due

ClaimDeliveries(w) ==
  /\ pc[w] = "claim"
  /\ \E rows \in ClaimChoices :
       /\ rows # {}
       /\ ClaimRows(rows)
       /\ batch' = [batch EXCEPT ![w] = {<<d, tries[d] + 1>> : d \in rows}]
  /\ Goto(w, "next")
  /\ UNCHANGED <<active, received, refused, cur, seen, verdict, faults>>

(* The UPDATE commits but its rows are not read; tick returns the error. *)
ClaimLost(w) ==
  /\ pc[w] = "claim"
  /\ Fault
  /\ \E rows \in ClaimChoices : rows # {} /\ ClaimRows(rows)
  /\ UNCHANGED <<active, received, refused, local>>

TakeNext(w) ==
  /\ pc[w] = "next"
  /\ \E c \in batch[w] :
       /\ cur' = [cur EXCEPT ![w] = c[1]]
       /\ seen' = [seen EXCEPT ![w] = c[2]]
       /\ batch' = [batch EXCEPT ![w] = @ \ {c}]
  /\ Goto(w, "send")
  /\ UNCHANGED <<active, table, received, refused, verdict, faults>>

BatchDone(w) ==
  /\ pc[w] = "next"
  /\ batch[w] = {}
  /\ Goto(w, "claim")
  /\ UNCHANGED <<active, table, received, refused, batch, cur, seen, verdict, faults>>

(* Mutant: the last try is never made. *)
OutcomeEarlyMutant(answer, n) ==
  CASE answer = "Delivered" -> "delivered"
    [] answer = "Drop"      -> "failed"
    [] answer = "Retry"     -> IF n + 1 >= MaxTries THEN "failed" ELSE "pending"

(* What deliver makes of Send's answer to try n. *)
Outcome(answer, n) ==
  CASE answer = "Delivered" -> "delivered"
    [] answer = "Drop"      -> "failed"
    [] answer = "Retry"     -> IF n >= MaxTries THEN "failed" ELSE "pending"

(* Send: "Drop" for a destination that is not allowed or answers 410, so   *)
(* not taken; "Delivered" for 2xx, so taken; "Retry" for every other       *)
(* status and for a failed request, which the endpoint may have taken.     *)
Send(w) ==
  /\ pc[w] = "send"
  /\ \E answer \in {"Delivered", "Retry", "Drop"}, took \in BOOLEAN :
       /\ answer = "Delivered" => took
       /\ answer = "Drop" => ~took
       /\ received' = IF took THEN received \cup {cur[w]} ELSE received
       /\ refused' = IF answer = "Drop" THEN refused \cup {cur[w]} ELSE refused
       /\ verdict' = [verdict EXCEPT ![w] = Outcome(answer, seen[w])]
  /\ Goto(w, "mark")
  /\ UNCHANGED <<active, table, batch, cur, seen, faults>>

(* The UPDATE of MarkDeliverySucceeded, MarkDeliveryFailed and             *)
(* RescheduleDelivery, by id whatever the row says by now.                 *)
WriteVerdict(w) ==
  LET d == cur[w] IN
  /\ status' = [status EXCEPT ![d] = verdict[w]]
  /\ lock' = [lock EXCEPT ![d] = "null"]
  /\ due' = [due EXCEPT ![d] = IF verdict[w] = "pending" THEN FALSE ELSE @]
  /\ UNCHANGED tries

(* Mutant: a delivery to be retried is logged and not rescheduled. *)
MarkMutant(w) ==
  /\ pc[w] = "mark"
  /\ WriteVerdict(w) \/ (verdict[w] = "pending" /\ UNCHANGED table)
  /\ Leave(w, "next")
  /\ UNCHANGED <<active, received, refused, batch, faults>>

Mark(w) ==
  /\ pc[w] = "mark"
  /\ WriteVerdict(w)
  /\ Leave(w, "next")
  /\ UNCHANGED <<active, received, refused, batch, faults>>

(* The UPDATE returns an error, committed or not; it is only logged. *)
MarkFails(w) ==
  /\ pc[w] = "mark"
  /\ Fault
  /\ WriteVerdict(w) \/ UNCHANGED table
  /\ Leave(w, "next")
  /\ UNCHANGED <<active, received, refused, batch>>

(* The process dies or is stopped, and is started again. *)
Crash(w) ==
  /\ pc[w] # "claim"
  /\ Fault
  /\ Leave(w, "claim")
  /\ batch' = [batch EXCEPT ![w] = {}]
  /\ UNCHANGED <<active, table, received, refused>>

-----------------------------------------------------------------------------
DispatcherStep(w) ==
  \/ ClaimDeliveries(w)
  \/ TakeNext(w)
  \/ BatchDone(w)
  \/ Send(w)
  \/ Mark(w)

DispatcherFault(w) ==
  \/ ClaimLost(w)
  \/ MarkFails(w)
  \/ Crash(w)

Environment ==
  \/ \E e \in Endpoints : CreateEndpoint(e)
  \/ \E ev \in Events : EnqueueDelivery(ev)
  \/ \E d \in Deliveries : ComesDue(d) \/ LockExpires(d)

Next ==
  \/ Environment
  \/ \E w \in Dispatchers : DispatcherStep(w) \/ DispatcherFault(w)

Spec == Init /\ [][Next]_vars

(* A dispatcher loops for as long as it runs, and time passes. *)
Fairness ==
  /\ \A w \in Dispatchers : WF_vars(DispatcherStep(w))
  /\ \A d \in Deliveries : WF_vars(ComesDue(d)) /\ WF_vars(LockExpires(d))

FairSpec == Spec /\ Fairness

-----------------------------------------------------------------------------
(* Properties.                                                             *)

(* The deliveries a dispatcher has claimed and not yet marked. *)
Holds(w) ==
  {c[1] : c \in batch[w]} \cup (IF pc[w] \in {"send", "mark"} THEN {cur[w]} ELSE {})

(* No delivery is in the hands of two dispatchers, and one that is held is *)
(* still 'delivering': the Mark statements, which test no status and no    *)
(* owner, never overwrite what another dispatcher wrote.                   *)
ExclusiveDispatch ==
  /\ \A v, w \in Dispatchers : v # w => Holds(v) \cap Holds(w) = {}
  /\ \A w \in Dispatchers : \A d \in Holds(w) : status[d] = "delivering"

(* The state is well typed and dispatch is exclusive. *)
DispatchInv == TypeOK /\ ExclusiveDispatch

(* The dispatcher gives up only on a refusal or after all MaxWebhookTries. *)
GivesUpOnlyWhenSpent ==
  \A d \in Deliveries :
    status[d] = "failed" => d \in refused \/ tries[d] = MaxTries

(* Without a fault no delivery is left 'delivering' in nobody's hands, and *)
(* each fault strands at most one batch.                                   *)
Stranded ==
  {d \in Deliveries :
     status[d] = "delivering" /\ \A w \in Dispatchers : d \notin Holds(w)}
StrandedOnlyByFaults == Cardinality(Stranded) <= faults * BatchSize

(* Every queued delivery is delivered or failed in the end, under          *)
(* FairSpec, unless a fault has stranded it, whatever the endpoints answer *)
(* and whatever happens to other deliveries.                               *)
EveryDeliveryResolved ==
  \A d \in Deliveries :
    status[d] = "pending" ~> status[d] \in Final \/ (faults > 0 /\ d \in Stranded)

(* The state of a delivery in the words of MessageLifecycle. *)
LifecycleStatus ==
  [d \in Deliveries |->
     CASE status[d] = "none"       -> "new"
       [] status[d] = "pending"    -> IF tries[d] = 0 THEN "queued" ELSE "deferred"
       [] status[d] = "delivering" -> "sending"
       [] status[d] = "delivered"  -> "sent"
       [] status[d] = "failed"     -> "failed"]

(* The webhook queue keeps the promise of the mail queue: a repeated       *)
(* publish, a late mark or a retry never reopens a finished delivery nor   *)
(* exceeds MaxWebhookTries.                                                *)
Lifecycle ==
  INSTANCE MessageLifecycle WITH
    Messages    <- Deliveries,
    MaxAttempts <- MaxTries,
    attempts    <- tries,
    accepted    <- received,
    status      <- LifecycleStatus
ImplementsLifecycle == Lifecycle!Spec
=============================================================================
