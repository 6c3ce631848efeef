------------------------- MODULE DeliveryQueueProofs -------------------------
(***************************************************************************)
(* Proofs about DeliveryQueue, for any number of workers, messages and     *)
(* faults, any batch size, any retry limit and any ceiling.                *)
(***************************************************************************)
EXTENDS DeliveryQueue, FiniteSetTheorems, WellFoundedInduction, TLAPS

(* Every row a claim may take is one its inner SELECT accepts. *)
LEMMA ChoicesAreClaimable ==
  ASSUME NEW w \in Workers, NEW rows \in ClaimChoices(w)
  PROVE  rows \subseteq Claimable
BY DEF ClaimChoices, Oldest

-----------------------------------------------------------------------------
(* Type correctness. cur is a claim from TakeNext until deliver returns.   *)

Delivering == InFlight \cup {"record", "publish"}

CurIsClaim == \A w \in Workers : pc[w] \in Delivering => cur[w] \in Claimed

TypeInv == TypeOK /\ CurIsClaim

(* Workers start idle, so there is no claim to be typed. *)
LEMMA InitType == Init => TypeInv
BY ConstantsAssumption DEF Init, TypeInv, TypeOK, CurIsClaim, Delivering, InFlight,
   Statuses, Waiting, Final, Verdicts, Steps, NoClaim

(* Every action keeps the state typed and its worker on a claim of its own. *)
LEMMA NextType == TypeInv /\ [Next]_vars => TypeInv'
<1> SUFFICES ASSUME TypeInv, [Next]_vars PROVE TypeInv'
  OBVIOUS
<1> USE ConstantsAssumption DEF TypeInv, TypeOK, CurIsClaim, Delivering, InFlight,
        table, log, local, Goto, Leave
<1>e. ASSUME NEW m \in Messages, Enqueue(m) \/ ComesDue(m) \/ LockExpires(m)
      PROVE  TypeInv'
  BY <1>e DEF Enqueue, ComesDue, LockExpires, Statuses, Waiting
<1>s. CASE SentAgesOut
  BY <1>s DEF SentAgesOut
<1>1. ASSUME NEW w \in Workers, CheckCeiling(w) PROVE TypeInv'
  BY <1>1 DEF CheckCeiling, Steps
<1>2. ASSUME NEW w \in Workers, NEW rows \in ClaimChoices(w), ClaimRows(rows)
      PROVE  /\ status' \in [Messages -> Statuses]
             /\ attempts' \in [Messages -> Nat]
             /\ lock' \in [Messages -> {"null", "held", "expired"}]
             /\ due' = due
             /\ {[id |-> m, attempts |-> attempts[m] + 1] : m \in rows} \subseteq Claimed
  BY <1>2, ChoicesAreClaimable DEF ClaimRows, Statuses, Claimed, Claimable
<1>3. ASSUME NEW w \in Workers, Claim(w) PROVE TypeInv'
  BY <1>3, <1>2 DEF Claim, Steps
<1>4. ASSUME NEW w \in Workers, ClaimLost(w) PROVE TypeInv'
  BY <1>4, <1>2 DEF ClaimLost, Fault, Steps
<1>5. ASSUME NEW w \in Workers, TakeNext(w) PROVE TypeInv'
  BY <1>5 DEF TakeNext, Steps
<1>6. ASSUME NEW w \in Workers, BatchDone(w) PROVE TypeInv'
  BY <1>6 DEF BatchDone, Steps
<1>7. ASSUME NEW w \in Workers, Sign(w) \/ SignFails(w) PROVE TypeInv'
  BY <1>7 DEF Sign, SignFails, Steps, Verdicts, Final
<1>8. ASSUME NEW w \in Workers, Send(w) PROVE TypeInv'
  BY <1>8 DEF Send, Outcome, Responses, Steps, Verdicts, Final, Claimed
<1>9. ASSUME NEW w \in Workers, Suppress(w) PROVE TypeInv'
  BY <1>9 DEF Suppress, Steps, Claimed
<1>10. ASSUME NEW w \in Workers, WriteVerdict(w)
       PROVE  /\ status' \in [Messages -> Statuses]
              /\ lock' \in [Messages -> {"null", "held", "expired"}]
              /\ due' \in [Messages -> BOOLEAN]
              /\ attempts' = attempts
  BY <1>10 DEF WriteVerdict, Verdicts, Statuses, Final, Waiting
<1>11. ASSUME NEW w \in Workers, Update(w) PROVE TypeInv'
  BY <1>11, <1>10 DEF Update, Steps
<1>12. ASSUME NEW w \in Workers, UpdateFails(w) PROVE TypeInv'
  BY <1>12, <1>10 DEF UpdateFails, Fault, Steps, Verdicts, Final
<1>13. ASSUME NEW w \in Workers, pc[w] = "record", InsertEvent(w)
       PROVE  /\ events' \in [Messages -> Seq(Verdicts)]
              /\ recentSent' \in Nat
              /\ published' = published
  <2>1. cur[w].id \in Messages
    BY <1>13 DEF Claimed
  <2>2. Append(events[cur[w].id], verdict[w]) \in Seq(Verdicts)
    BY <2>1
  <2> QED
    BY <1>13, <2>1, <2>2 DEF InsertEvent
<1>14. ASSUME NEW w \in Workers, Record(w) PROVE TypeInv'
  BY <1>14, <1>13 DEF Record, Steps
<1>15. ASSUME NEW w \in Workers, RecordFails(w) PROVE TypeInv'
  BY <1>15, <1>13 DEF RecordFails, Fault, Steps, Verdicts, Final
<1>16. ASSUME NEW w \in Workers, Publish(w) PROVE TypeInv'
  BY <1>16 DEF Publish, EventId, EventIds, Claimed, Steps, Verdicts, Final
<1>17. ASSUME NEW w \in Workers, PublishFails(w) PROVE TypeInv'
  BY <1>17 DEF PublishFails, Fault, Steps, Verdicts, Final
<1>18. ASSUME NEW w \in Workers, Crash(w) PROVE TypeInv'
  BY <1>18 DEF Crash, Fault, Steps, Verdicts, Final
<1>19. CASE UNCHANGED vars
  BY <1>19 DEF vars
<1> QED
  BY <1>e, <1>s, <1>1, <1>3, <1>4, <1>5, <1>6, <1>7, <1>8, <1>9, <1>11, <1>12,
     <1>14, <1>15, <1>16, <1>17, <1>18, <1>19
     DEF Next, Environment, WorkerStep, WorkerFault

(* Every reachable state of the queue and its workers is well typed.       *)
THEOREM TypeCorrect == Spec => []TypeOK
<1>1. Spec => []TypeInv
  BY InitType, NextType, PTL DEF Spec
<1>2. TypeInv => TypeOK
  BY DEF TypeInv
<1> QED
  BY <1>1, <1>2, PTL
-----------------------------------------------------------------------------
(* Exclusive delivery. Except for a claim, no step adds to what a worker   *)
(* holds; a claim adds only rows that wait, which nobody holds.            *)

ClaimInv == ExclusiveDelivery /\ ClaimsAreCurrent

(* No worker starts with a claim. *)
LEMMA InitClaims == Init => ClaimInv
BY DEF Init, ClaimInv, ExclusiveDelivery, ClaimsAreCurrent, Holds, InFlight

(* A claim is determined by the row it was read from. *)
LEMMA SameClaim ==
  ASSUME NEW c \in Claimed, NEW d \in Claimed, c.id = d.id, c.attempts = d.attempts
  PROVE  c = d
BY DEF Claimed

(* A step that lets no worker hold more and changes no row still held.     *)
LEMMA HoldsShrink ==
  ASSUME ClaimInv,
         \A w \in Workers : Holds(w)' \subseteq Holds(w),
         \A w \in Workers : \A m \in Holds(w)' : status'[m] = status[m]
  PROVE  ExclusiveDelivery'
BY DEF ClaimInv, ExclusiveDelivery

(* Every action keeps claims exclusive and current: a row in flight is never
   claimable, and what a worker holds is as the claim left it. *)
LEMMA NextClaims == TypeInv /\ ClaimInv /\ [Next]_vars => ClaimInv'
<1> SUFFICES ASSUME TypeInv, ClaimInv, [Next]_vars PROVE ClaimInv'
  OBVIOUS
<1> USE DEF TypeInv, TypeOK, table, log, local, Goto, Leave
<1>e. ASSUME NEW m \in Messages, Enqueue(m) PROVE ClaimInv'
  <2>1. status[m] = "new" /\ status' = [status EXCEPT ![m] = "queued"]
    BY <1>e DEF Enqueue
  <2>2. \A w \in Workers : Holds(w)' = Holds(w) /\ m \notin Holds(w)
    BY <1>e, <2>1 DEF Enqueue, Holds, ClaimInv, ExclusiveDelivery
  <2>3. ExclusiveDelivery'
    BY <2>1, <2>2 DEF ClaimInv, ExclusiveDelivery
  <2> QED
    BY <1>e, <2>3 DEF Enqueue, ClaimInv, ClaimsAreCurrent
<1>t. ASSUME UNCHANGED <<status, attempts, local>> PROVE ClaimInv'
  <2>1. \A w \in Workers : Holds(w)' = Holds(w)
    BY <1>t DEF Holds
  <2> QED
    BY <1>t, <2>1, HoldsShrink DEF ClaimInv, ClaimsAreCurrent
<1>w. ASSUME NEW w \in Workers, WorkerStep(w) \/ WorkerFault(w) PROVE ClaimInv'
  <2>1. CASE CheckCeiling(w)
    <3>1. \A v \in Workers : Holds(v)' = Holds(v)
      BY <2>1 DEF CheckCeiling, Holds, InFlight
    <3> QED
      BY <2>1, <3>1, HoldsShrink DEF CheckCeiling, ClaimInv, ClaimsAreCurrent, InFlight
  <2>2. ASSUME NEW rows \in ClaimChoices(w), ClaimRows(rows), pc[w] = "claim"
        PROVE  /\ rows \subseteq Messages
               /\ \A v \in Workers : Holds(v) \cap rows = {}
               /\ \A v \in Workers : \A m \in Holds(v) :
                    m \in Messages /\ status'[m] = "sending" /\ attempts'[m] = attempts[m]
               /\ \A m \in rows : status'[m] = "sending" /\ attempts'[m] = attempts[m] + 1
               /\ batch[w] = {} /\ Holds(w) = {}
    <3>1. rows \subseteq Messages /\ \A m \in rows : status[m] \in Waiting
      BY ChoicesAreClaimable DEF Claimable
    <3>2. \A v \in Workers : Holds(v) \subseteq Messages
      BY DEF Holds, Claimed, CurIsClaim, Delivering
    <3>3. \A v \in Workers : Holds(v) \cap rows = {}
      BY <3>1 DEF ClaimInv, ExclusiveDelivery, Waiting
    <3>4. batch[w] = {} /\ Holds(w) = {}
      BY <2>2 DEF ClaimInv, ClaimsAreCurrent, Holds, InFlight
    <3> QED
      BY <2>2, <3>1, <3>2, <3>3, <3>4 DEF ClaimRows, ClaimInv, ExclusiveDelivery
  <2>3. CASE Claim(w)
    <3>1. PICK rows \in ClaimChoices(w) :
            /\ ClaimRows(rows)
            /\ batch' = [batch EXCEPT ![w] =
                           {[id |-> m, attempts |-> attempts[m] + 1] : m \in rows}]
      BY <2>3 DEF Claim
    <3>2. pc[w] = "claim" /\ pc' = [pc EXCEPT ![w] = "next"] /\ cur' = cur
      BY <2>3 DEF Claim
    <3>3. \A v \in Workers \ {w} : Holds(v)' = Holds(v)
      BY <3>1, <3>2 DEF Holds
    <3>4. \A v \in Workers : v = w => Holds(v)' = rows
      <4> DEFINE new == {[id |-> m, attempts |-> attempts[m] + 1] : m \in rows}
      <4>1. {c.id : c \in new} = rows
        <5>1. ASSUME NEW m \in rows PROVE \E c \in new : c.id = m
          <6> WITNESS [id |-> m, attempts |-> attempts[m] + 1] \in new
          <6> QED
            OBVIOUS
        <5>2. \A c \in new : c.id \in rows
          OBVIOUS
        <5> HIDE DEF new
        <5> QED
          BY <5>1, <5>2
      <4>2. batch'[w] = new /\ pc'[w] = "next"
        BY <3>1, <3>2
      <4> HIDE DEF new
      <4> QED
        BY <4>1, <4>2 DEF Holds, InFlight
    <3>a. /\ \A v \in Workers : Holds(v) \cap rows = {}
          /\ \A v \in Workers : \A m \in Holds(v) : status'[m] = "sending"
          /\ \A m \in rows : status'[m] = "sending"
      BY <2>2, <3>1, <3>2
    <3>b. ASSUME NEW u \in Workers, NEW v \in Workers, u # v
          PROVE  Holds(u)' \cap Holds(v)' = {}
      <4>1. CASE u # w /\ v # w
        BY <3>3, <3>b, <4>1 DEF ClaimInv, ExclusiveDelivery
      <4>2. CASE u = w
        BY <3>3, <3>4, <3>a, <3>b, <4>2
      <4>3. CASE v = w
        BY <3>3, <3>4, <3>a, <3>b, <4>3
      <4> QED
        BY <4>1, <4>2, <4>3
    <3>c. ASSUME NEW v \in Workers, NEW m \in Holds(v)' PROVE status'[m] = "sending"
      <4>1. CASE v # w
        BY <3>3, <3>a, <3>c, <4>1
      <4>2. CASE v = w
        BY <3>4, <3>a, <3>c, <4>2
      <4> QED
        BY <4>1, <4>2
    <3>5. ExclusiveDelivery'
      BY <3>b, <3>c DEF ExclusiveDelivery
    <3>6. \A v \in Workers \ {w} : \A c \in batch'[v] : c.attempts = attempts'[c.id]
      BY <2>2, <3>1, <3>2 DEF ClaimInv, ClaimsAreCurrent, Holds
    <3>7. \A c \in batch'[w] : c.attempts = attempts'[c.id]
      BY <2>2, <3>1, <3>2
    <3>8. \A v \in Workers : pc'[v] \in InFlight => cur'[v].attempts = attempts'[cur'[v].id]
      BY <2>2, <3>1, <3>2 DEF ClaimInv, ClaimsAreCurrent, Holds, InFlight
    <3> QED
      BY <3>1, <3>2, <3>5, <3>6, <3>7, <3>8 DEF ClaimInv, ClaimsAreCurrent, InFlight
  <2>4. CASE ClaimLost(w)
    <3>1. PICK rows \in ClaimChoices(w) : ClaimRows(rows)
      BY <2>4 DEF ClaimLost
    <3>2. pc[w] = "claim" /\ pc' = [pc EXCEPT ![w] = "idle"] /\ batch' = batch /\ cur' = cur
      BY <2>4 DEF ClaimLost
    <3>3. \A v \in Workers : Holds(v)' = Holds(v)
      BY <3>2 DEF Holds, InFlight
    <3>4. ExclusiveDelivery'
      BY <2>2, <3>1, <3>2, <3>3 DEF ClaimInv, ExclusiveDelivery
    <3> QED
      BY <2>2, <3>1, <3>2, <3>4 DEF ClaimInv, ClaimsAreCurrent, Holds, InFlight
  <2>5. CASE TakeNext(w)
    <3>1. PICK c \in batch[w] : /\ cur' = [cur EXCEPT ![w] = c]
                               /\ batch' = [batch EXCEPT ![w] = batch[w] \ {c}]
      BY <2>5 DEF TakeNext
    <3>2. /\ pc[w] = "next" /\ pc' = [pc EXCEPT ![w] = "sign"]
          /\ UNCHANGED <<status, attempts>>
      BY <2>5 DEF TakeNext
    <3>3. \A v \in Workers : Holds(v)' \subseteq Holds(v)
      BY <3>1, <3>2 DEF Holds, InFlight
    <3>4. ASSUME NEW d \in batch[w] \ {c} PROVE d.id # c.id
      <4>1. c \in Claimed /\ d \in Claimed
        OBVIOUS
      <4>2. c.attempts = attempts[c.id] /\ d.attempts = attempts[d.id]
        BY DEF ClaimInv, ClaimsAreCurrent
      <4> QED
        BY <4>1, <4>2, SameClaim
    <3> QED
      BY <3>1, <3>2, <3>3, <3>4, HoldsShrink DEF ClaimInv, ClaimsAreCurrent, InFlight
  <2>6. CASE BatchDone(w) \/ Sign(w) \/ SignFails(w) \/ Send(w) \/ Suppress(w)
    <3>1. /\ UNCHANGED <<status, attempts, batch, cur>>
          /\ \E to \in Steps : pc' = [pc EXCEPT ![w] = to]
          /\ pc'[w] \in InFlight => pc[w] \in InFlight
          /\ pc'[w] \in {"idle", "claim"} => batch[w] = {}
      BY <2>6 DEF BatchDone, Sign, SignFails, Send, Suppress, InFlight, Steps
    <3>2. \A v \in Workers : Holds(v)' \subseteq Holds(v)
      BY <3>1 DEF Holds
    <3> QED
      BY <3>1, <3>2, HoldsShrink DEF ClaimInv, ClaimsAreCurrent
  <2>7. CASE Update(w) \/ UpdateFails(w)
    <3> DEFINE m == cur[w].id
    <3>1. /\ pc[w] = "update" /\ m \in Messages
          /\ attempts' = attempts /\ batch' = batch
          /\ \E to \in {"record", "next"} : pc' = [pc EXCEPT ![w] = to]
          /\ \A v \in Workers \ {w} : cur'[v] = cur[v]
          /\ \A k \in Messages \ {m} : status'[k] = status[k]
      BY <2>7 DEF Update, UpdateFails, WriteVerdict, Claimed, CurIsClaim, Delivering, InFlight
    <3>2. \A v \in Workers \ {w} : Holds(v)' = Holds(v)
      BY <3>1 DEF Holds
    <3>3. \A v \in Workers : v = w =>
            Holds(v)' \subseteq Holds(v) /\ m \in Holds(v) /\ m \notin Holds(v)'
      BY <3>1 DEF Holds, InFlight, ClaimInv, ClaimsAreCurrent
    <3>4. \A v \in Workers : Holds(v) \subseteq Messages
      BY DEF Holds, Claimed, CurIsClaim, Delivering
    <3>a. \A v \in Workers : Holds(v)' \subseteq Holds(v)
      BY <3>2, <3>3
    <3>b. \A v \in Workers : m \notin Holds(v)'
      BY <3>2, <3>3 DEF ClaimInv, ExclusiveDelivery
    <3>5. ExclusiveDelivery'
      BY <3>1, <3>4, <3>a, <3>b, HoldsShrink
    <3> QED
      BY <3>1, <3>5 DEF ClaimInv, ClaimsAreCurrent, InFlight
  <2>8. CASE Record(w) \/ RecordFails(w) \/ Publish(w) \/ PublishFails(w)
    <3>1. /\ UNCHANGED <<status, attempts, batch>>
          /\ \E to \in {"publish", "next"} : pc' = [pc EXCEPT ![w] = to]
          /\ \A v \in Workers \ {w} : cur'[v] = cur[v]
      BY <2>8 DEF Record, RecordFails, Publish, PublishFails
    <3>2. \A v \in Workers : Holds(v)' \subseteq Holds(v)
      BY <3>1 DEF Holds, InFlight
    <3> QED
      BY <3>1, <3>2, HoldsShrink DEF ClaimInv, ClaimsAreCurrent, InFlight
  <2>9. CASE Crash(w)
    <3>1. /\ UNCHANGED <<status, attempts>>
          /\ pc' = [pc EXCEPT ![w] = "idle"] /\ batch' = [batch EXCEPT ![w] = {}]
          /\ \A v \in Workers \ {w} : cur'[v] = cur[v]
      BY <2>9 DEF Crash
    <3>2. \A v \in Workers : Holds(v)' \subseteq Holds(v)
      BY <3>1 DEF Holds, InFlight
    <3> QED
      BY <3>1, <3>2, HoldsShrink DEF ClaimInv, ClaimsAreCurrent, InFlight
  <2> QED
    BY <1>w, <2>1, <2>3, <2>4, <2>5, <2>6, <2>7, <2>8, <2>9 DEF WorkerStep, WorkerFault
<1> QED
  BY <1>e, <1>t, <1>w DEF Next, Environment, ComesDue, LockExpires, SentAgesOut, vars

(* No message is ever in the hands of two workers: any number of workers,  *)
(* crashes, lost batches and expired locks notwithstanding.                *)
THEOREM DeliveryIsExclusive == Spec => []ExclusiveDelivery
<1>1. Spec => [](TypeInv /\ ClaimInv)
  BY InitType, NextType, InitClaims, NextClaims, PTL DEF Spec
<1>2. ClaimInv => ExclusiveDelivery
  BY DEF ClaimInv
<1> QED
  BY <1>1, <1>2, PTL
-----------------------------------------------------------------------------
(* Retry budget and hand-over. A worker's copy of attempts decides whether *)
(* it defers or fails; the copy is current, so the row's count is bounded. *)

BudgetInv ==
  RetriesRemain /\ VerdictsAreEarned /\ AttemptsBounded /\ SentWasHandedOver

(* Nothing has been attempted at the start. *)
LEMMA InitBudget == Init => BudgetInv
BY ConstantsAssumption DEF Init, BudgetInv, RetriesRemain, VerdictsAreEarned,
   AttemptsBounded, SentWasHandedOver, Waiting

(* What a claim does to the table, whether or not its rows arrive.         *)
LEMMA ClaimKeepsBudget ==
  ASSUME TypeInv, BudgetInv, NEW w \in Workers, NEW rows \in ClaimChoices(w),
         ClaimRows(rows), accepted' = accepted
  PROVE  RetriesRemain' /\ AttemptsBounded' /\ SentWasHandedOver'
<1>1. \A m \in rows : m \in Messages /\ attempts[m] < MaxAttempts
  BY ChoicesAreClaimable DEF Claimable, BudgetInv, RetriesRemain
<1> QED
  BY <1>1, ConstantsAssumption DEF ClaimRows, BudgetInv, RetriesRemain, AttemptsBounded,
     SentWasHandedOver, TypeInv, TypeOK, Waiting

(* What writing a verdict does to the table.                               *)
LEMMA VerdictKeepsBudget ==
  ASSUME TypeInv, ClaimInv, BudgetInv, NEW w \in Workers, pc[w] = "update",
         WriteVerdict(w), accepted' = accepted
  PROVE  RetriesRemain' /\ AttemptsBounded' /\ SentWasHandedOver'
<1>1. cur[w].id \in Messages /\ cur[w].attempts = attempts[cur[w].id]
  BY DEF TypeInv, CurIsClaim, Delivering, InFlight, Claimed, ClaimInv, ClaimsAreCurrent
<1>2. /\ verdict[w] = "deferred" => attempts[cur[w].id] < MaxAttempts
      /\ verdict[w] = "sent" => cur[w].id \in accepted
      /\ verdict[w] \in Verdicts
  BY <1>1 DEF BudgetInv, VerdictsAreEarned, TypeInv, TypeOK
<1> QED
  BY <1>1, <1>2 DEF WriteVerdict, BudgetInv, RetriesRemain, AttemptsBounded,
     SentWasHandedOver, TypeInv, TypeOK, Waiting, Verdicts, Final

(* Every action keeps attempts within the budget and verdicts earned. *)
LEMMA NextBudget == TypeInv /\ ClaimInv /\ BudgetInv /\ [Next]_vars => BudgetInv'
<1> SUFFICES ASSUME TypeInv, ClaimInv, BudgetInv, [Next]_vars PROVE BudgetInv'
  OBVIOUS
<1> USE DEF table, log, local, Goto, Leave
<1>t. ASSUME UNCHANGED <<status, attempts, accepted>> 
      PROVE  RetriesRemain' /\ AttemptsBounded' /\ SentWasHandedOver'
  BY <1>t DEF BudgetInv, RetriesRemain, AttemptsBounded, SentWasHandedOver
<1>v. ASSUME NEW w \in Workers, UNCHANGED accepted,
             \A v \in Workers \ {w} : cur'[v] = cur[v] /\ verdict'[v] = verdict[v],
             \E to \in Steps \ {"suppress", "update"} : pc' = [pc EXCEPT ![w] = to]
      PROVE  VerdictsAreEarned'
  BY <1>v DEF BudgetInv, VerdictsAreEarned, TypeInv, TypeOK
<1>e. ASSUME NEW m \in Messages, Enqueue(m) PROVE BudgetInv'
  BY <1>e DEF Enqueue, BudgetInv, RetriesRemain, VerdictsAreEarned, AttemptsBounded,
     SentWasHandedOver, TypeInv, TypeOK
<1>o. ASSUME UNCHANGED <<status, attempts, accepted, local>> PROVE BudgetInv'
  BY <1>o, <1>t DEF BudgetInv, VerdictsAreEarned
<1>w. ASSUME NEW w \in Workers, WorkerStep(w) \/ WorkerFault(w) PROVE BudgetInv'
  <2>1. CASE CheckCeiling(w) \/ TakeNext(w) \/ BatchDone(w) \/ Sign(w) \/ Record(w)
             \/ RecordFails(w) \/ Publish(w) \/ PublishFails(w) \/ Crash(w)
    BY <2>1, <1>t, <1>v DEF CheckCeiling, TakeNext, BatchDone, Sign, Record, RecordFails,
       Publish, PublishFails, Crash, BudgetInv, Steps, TypeInv, TypeOK
  <2>2. CASE Claim(w)
    BY <2>2, <1>v, ClaimKeepsBudget DEF Claim, BudgetInv, Steps
  <2>3. CASE ClaimLost(w)
    BY <2>3, <1>v, ClaimKeepsBudget DEF ClaimLost, BudgetInv, Steps
  <2>4. CASE SignFails(w)
    BY <2>4, <1>t DEF SignFails, BudgetInv, VerdictsAreEarned, TypeInv, TypeOK
  <2>5. CASE Send(w)
    <3>1. cur[w].id \in Messages /\ cur[w].attempts \in Nat
      BY <2>5 DEF Send, TypeInv, CurIsClaim, Delivering, InFlight, Claimed
    <3>2. PICK resp \in Responses, took \in BOOLEAN :
            /\ resp = "Sent" => took
            /\ accepted' = IF took THEN accepted \cup {cur[w].id} ELSE accepted
            /\ verdict' = [verdict EXCEPT ![w] = Outcome(resp, cur[w].attempts)]
            /\ pc' = [pc EXCEPT ![w] = IF resp = "Permanent" THEN "suppress" ELSE "update"]
      BY <2>5 DEF Send
    <3>3. UNCHANGED <<status, attempts, cur>>
      BY <2>5 DEF Send
    <3>4. RetriesRemain' /\ AttemptsBounded' /\ SentWasHandedOver'
      BY <3>2, <3>3 DEF BudgetInv, RetriesRemain, AttemptsBounded, SentWasHandedOver
    <3>5. VerdictsAreEarned'
      BY <3>1, <3>2, <3>3, ConstantsAssumption DEF BudgetInv, VerdictsAreEarned, Outcome,
         Responses, TypeInv, TypeOK
    <3> QED
      BY <3>4, <3>5 DEF BudgetInv
  <2>6. CASE Suppress(w)
    BY <2>6, <1>t DEF Suppress, BudgetInv, VerdictsAreEarned, TypeInv, TypeOK
  <2>7. CASE Update(w)
    BY <2>7, <1>v, VerdictKeepsBudget DEF Update, BudgetInv, Steps
  <2>8. CASE UpdateFails(w)
    <3>1. RetriesRemain' /\ AttemptsBounded' /\ SentWasHandedOver'
      BY <2>8, <1>t, VerdictKeepsBudget DEF UpdateFails
    <3>2. VerdictsAreEarned'
      BY <2>8, <1>v DEF UpdateFails, Steps, TypeInv, TypeOK
    <3> QED
      BY <3>1, <3>2 DEF BudgetInv
  <2> QED
    BY <1>w, <2>1, <2>2, <2>3, <2>4, <2>5, <2>6, <2>7, <2>8 DEF WorkerStep, WorkerFault
<1> QED
  BY <1>e, <1>o, <1>w DEF Next, Environment, ComesDue, LockExpires, SentAgesOut, vars

(* The inductive invariant the theorems below are read off from. *)
LEMMA SafetyInvariant == Spec => [](TypeInv /\ ClaimInv /\ BudgetInv)
BY InitType, NextType, InitClaims, NextClaims, InitBudget, NextBudget, PTL DEF Spec

(* No message is attempted more than MaxAttempts times.                    *)
THEOREM AttemptsAreBounded == Spec => []AttemptsBounded
<1>1. BudgetInv => AttemptsBounded
  BY DEF BudgetInv
<1> QED
  BY <1>1, SafetyInvariant, PTL

(* A message marked sent was taken by the engine.                          *)
THEOREM SentIsTruthful == Spec => []SentWasHandedOver
<1>1. BudgetInv => SentWasHandedOver
  BY DEF BudgetInv
<1> QED
  BY <1>1, SafetyInvariant, PTL
-----------------------------------------------------------------------------
(* Refinement. The claim's UPDATE, the hand-off and the verdict's UPDATE   *)
(* are the visible steps; every other step of a worker is a stutter.       *)

(* Every initial state is one of the abstract life cycle. *)
LEMMA InitImplements == Init => Lifecycle!Init
BY DEF Init, Lifecycle!Init

(* A claim is a visible attempt, even when its rows never arrive.          *)
LEMMA ClaimImplements ==
  ASSUME NEW w \in Workers, NEW rows \in ClaimChoices(w), ClaimRows(rows),
         accepted' = accepted
  PROVE  \E b \in SUBSET Messages : Lifecycle!Attempt(b)
<1>1. rows \in SUBSET Messages /\ \A m \in rows : status[m] \in Waiting
  BY ChoicesAreClaimable DEF Claimable
<1>2. Lifecycle!Attempt(rows)
  BY <1>1 DEF ClaimRows, Lifecycle!Attempt, Lifecycle!Waiting, Waiting
<1> QED
  BY <1>1, <1>2

(* A verdict is written for a message that is being attempted, and only    *)
(* one the attempt has earned.                                             *)
LEMMA VerdictImplements ==
  ASSUME TypeInv, ClaimInv, BudgetInv, NEW w \in Workers, pc[w] = "update",
         WriteVerdict(w), accepted' = accepted
  PROVE  \E m \in Messages, v \in Final \cup {"deferred"} : Lifecycle!Resolve(m, v)
<1>1. cur[w].id \in Messages /\ cur[w].attempts = attempts[cur[w].id]
  BY DEF TypeInv, CurIsClaim, Delivering, InFlight, Claimed, ClaimInv, ClaimsAreCurrent
<1>2. status[cur[w].id] = "sending"
  BY DEF ClaimInv, ExclusiveDelivery, Holds, InFlight
<1>3. verdict[w] \in Final \cup {"deferred"}
  BY DEF TypeInv, TypeOK, Verdicts
<1>4. Lifecycle!Resolve(cur[w].id, verdict[w])
  BY <1>1, <1>2 DEF Lifecycle!Resolve, WriteVerdict, BudgetInv, VerdictsAreEarned
<1> QED
  BY <1>1, <1>3, <1>4

(* Every step is a step of the abstract life cycle or leaves it alone. *)
LEMMA NextImplements ==
  TypeInv /\ ClaimInv /\ BudgetInv /\ [Next]_vars => [Lifecycle!Next]_(Lifecycle!vars)
<1> SUFFICES ASSUME TypeInv, ClaimInv, BudgetInv, [Next]_vars
             PROVE  Lifecycle!Next \/ UNCHANGED Lifecycle!vars
  OBVIOUS
<1> USE DEF table, log, local, Lifecycle!vars
<1>e. ASSUME NEW m \in Messages, Enqueue(m) PROVE Lifecycle!Next
  <2>1. Lifecycle!Accept({m})
    BY <1>e DEF Enqueue, Lifecycle!Accept, TypeInv, TypeOK
  <2> QED
    BY <2>1 DEF Lifecycle!Next
<1>w. ASSUME NEW w \in Workers, WorkerStep(w) \/ WorkerFault(w)
      PROVE  Lifecycle!Next \/ UNCHANGED Lifecycle!vars
  <2>1. CASE CheckCeiling(w) \/ TakeNext(w) \/ BatchDone(w) \/ Sign(w) \/ SignFails(w)
             \/ Suppress(w) \/ Record(w) \/ RecordFails(w) \/ Publish(w)
             \/ PublishFails(w) \/ Crash(w)
    BY <2>1 DEF CheckCeiling, TakeNext, BatchDone, Sign, SignFails, Suppress, Record,
       RecordFails, Publish, PublishFails, Crash
  <2>2. CASE Claim(w) \/ ClaimLost(w)
    BY <2>2, ClaimImplements DEF Claim, ClaimLost, Lifecycle!Next
  <2>3. CASE Send(w)
    <3>1. cur[w].id \in Messages /\ status[cur[w].id] = "sending"
      BY <2>3 DEF Send, TypeInv, CurIsClaim, Delivering, Claimed, ClaimInv,
         ExclusiveDelivery, Holds, InFlight
    <3>2. /\ UNCHANGED <<status, attempts>>
          /\ accepted' = accepted \/ accepted' = accepted \cup {cur[w].id}
      BY <2>3 DEF Send
    <3>3. UNCHANGED Lifecycle!vars \/ Lifecycle!HandOver(cur[w].id)
      BY <3>1, <3>2 DEF Lifecycle!HandOver
    <3> QED
      BY <3>1, <3>3 DEF Lifecycle!Next
  <2>4. CASE Update(w) \/ UpdateFails(w)
    <3>1. /\ pc[w] = "update" /\ accepted' = accepted
          /\ WriteVerdict(w) \/ UNCHANGED <<status, attempts>>
      BY <2>4 DEF Update, UpdateFails
    <3> QED
      BY <3>1, VerdictImplements DEF Lifecycle!Next, Lifecycle!Final, Final
  <2> QED
    BY <1>w, <2>1, <2>2, <2>3, <2>4 DEF WorkerStep, WorkerFault
<1> QED
  BY <1>e, <1>w DEF Next, Environment, ComesDue, LockExpires, SentAgesOut, vars

(* The delivery queue implements the abstract life cycle of a message.     *)
THEOREM QueueImplementsLifecycle == Spec => ImplementsLifecycle
BY SafetyInvariant, InitImplements, NextImplements, PTL
   DEF Spec, ImplementsLifecycle, Lifecycle!Spec

(* No step of the abstract life cycle touches a message that has its       *)
(* verdict.                                                                *)
LEMMA LifecycleKeepsVerdict ==
  ASSUME TypeOK, [Lifecycle!Next]_(Lifecycle!vars), NEW m \in Messages, status[m] \in Final
  PROVE  status'[m] = status[m] /\ attempts'[m] = attempts[m]
BY DEF Lifecycle!Next, Lifecycle!vars, Lifecycle!Accept, Lifecycle!Attempt,
   Lifecycle!HandOver, Lifecycle!Resolve, Lifecycle!Waiting, Final, TypeOK

(* A verdict is never revised.                                             *)
THEOREM VerdictsAreFinal == Spec => VerdictIsFinal
<1> DEFINE Kept == \A m \in Messages : status[m] \in Final =>
                      status'[m] = status[m] /\ attempts'[m] = attempts[m]
<1>1. TypeInv /\ ClaimInv /\ BudgetInv /\ [Next]_vars => [Kept]_vars
  BY NextImplements, LifecycleKeepsVerdict DEF TypeInv
<1> QED
  BY <1>1, SafetyInvariant, PTL DEF Spec, VerdictIsFinal
-----------------------------------------------------------------------------
(* Suppression. The recipients of a message are suppressed between the     *)
(* engine's refusal and the verdict "failed"; nobody else can get hold of  *)
(* the message in between.                                                 *)

(* Nobody is suppressed at the start. *)
LEMMA InitSuppressed == Init => SuppressedIsFailing
BY DEF Init, SuppressedIsFailing

(* Every action keeps a message with suppressed recipients on its way to
   failed. *)
LEMMA NextSuppressed ==
  TypeInv /\ ClaimInv /\ BudgetInv /\ SuppressedIsFailing /\ [Next]_vars
    => SuppressedIsFailing'
<1> SUFFICES ASSUME TypeInv, ClaimInv, BudgetInv, SuppressedIsFailing, [Next]_vars
             PROVE  SuppressedIsFailing'
  OBVIOUS
<1> USE DEF table, log, local, Goto, Leave, TypeInv, TypeOK, InFlight
<1>e. ASSUME NEW m \in Messages, Enqueue(m) PROVE SuppressedIsFailing'
  <2>1. \A w \in Workers : Holds(w)' = Holds(w)
    BY <1>e DEF Enqueue, Holds
  <2> QED
    BY <1>e, <2>1 DEF Enqueue, SuppressedIsFailing
<1>o. ASSUME UNCHANGED <<status, suppressed, local>> PROVE SuppressedIsFailing'
  <2>1. \A w \in Workers : Holds(w)' = Holds(w)
    BY <1>o DEF Holds
  <2> QED
    BY <1>o, <2>1 DEF SuppressedIsFailing
<1>w. ASSUME NEW w \in Workers, WorkerStep(w) \/ WorkerFault(w)
      PROVE  SuppressedIsFailing'
  <2>c. ASSUME NEW rows \in ClaimChoices(w), ClaimRows(rows)
        PROVE  /\ rows \cap suppressed = {}
               /\ \A m \in suppressed : status'[m] = status[m]
    <3>1. \A m \in rows : status[m] \in Waiting
      BY ChoicesAreClaimable DEF Claimable
    <3>2. rows \cap suppressed = {}
      BY <3>1 DEF Waiting, SuppressedIsFailing
    <3> QED
      BY <2>c, <3>2 DEF ClaimRows
  <2>1. CASE Claim(w)
    <3>1. PICK rows \in ClaimChoices(w) :
            /\ ClaimRows(rows)
            /\ batch' = [batch EXCEPT ![w] =
                           {[id |-> m, attempts |-> attempts[m] + 1] : m \in rows}]
      BY <2>1 DEF Claim
    <3>2. \A v \in Workers : v # w => Holds(v)' = Holds(v)
      BY <2>1, <3>1 DEF Claim, Holds
    <3>3. \A v \in Workers : v = w => Holds(v)' \subseteq rows
      BY <2>1, <3>1 DEF Claim, Holds
    <3>4. /\ rows \cap suppressed = {}
          /\ \A m \in suppressed : status'[m] = status[m]
      BY <2>c, <3>1
    <3> QED
      BY <2>1, <3>2, <3>3, <3>4 DEF Claim, SuppressedIsFailing
  <2>2. CASE ClaimLost(w)
    <3>1. \A v \in Workers : Holds(v)' = Holds(v)
      BY <2>2 DEF ClaimLost, Holds
    <3>2. \A m \in suppressed : status'[m] = status[m]
      BY <2>2, <2>c DEF ClaimLost
    <3> QED
      BY <2>2, <3>1, <3>2 DEF ClaimLost, SuppressedIsFailing
  <2>3. CASE CheckCeiling(w) \/ TakeNext(w) \/ BatchDone(w) \/ Sign(w) \/ SignFails(w)
             \/ Send(w) \/ Record(w) \/ RecordFails(w) \/ Publish(w) \/ PublishFails(w)
             \/ Crash(w)
    <3>1. /\ UNCHANGED <<status, suppressed>>
          /\ \A v \in Workers : v # w =>
               pc'[v] = pc[v] /\ cur'[v] = cur[v] /\ verdict'[v] = verdict[v]
      BY <2>3 DEF CheckCeiling, TakeNext, BatchDone, Sign, SignFails, Send, Record,
         RecordFails, Publish, PublishFails, Crash
    <3>2. \A v \in Workers : v # w => Holds(v)' = Holds(v)
      BY <2>3, <3>1 DEF CheckCeiling, TakeNext, BatchDone, Sign, SignFails, Send, Record,
         RecordFails, Publish, PublishFails, Crash, Holds
    <3>3. \A v \in Workers : v = w => Holds(v)' = {} \/ (Holds(v)' \subseteq Holds(v) /\ pc[v] # "update")
      <4>1. CASE TakeNext(w)
        BY <4>1 DEF TakeNext, Holds
      <4>2. CASE Crash(w)
        BY <4>2 DEF Crash, Holds
      <4> QED
        BY <2>3, <4>1, <4>2 DEF CheckCeiling, BatchDone, Sign, SignFails, Send, Record,
           RecordFails, Publish, PublishFails, Holds
    <3>4. ASSUME NEW m \in suppressed, NEW v \in Workers, m \in Holds(v)'
          PROVE  pc'[v] = "update" /\ cur'[v].id = m /\ verdict'[v] = "failed"
      <4>1. CASE v = w
        BY <3>3, <3>4, <4>1 DEF SuppressedIsFailing
      <4>2. CASE v # w
        BY <3>1, <3>2, <3>4, <4>2 DEF SuppressedIsFailing
      <4> QED
        BY <4>1, <4>2
    <3> QED
      BY <3>1, <3>4 DEF SuppressedIsFailing
  <2>4. CASE Suppress(w)
    <3>1. /\ pc[w] = "suppress" /\ pc' = [pc EXCEPT ![w] = "update"]
          /\ UNCHANGED <<status, cur, verdict, batch>>
          /\ suppressed' \subseteq suppressed \cup {cur[w].id}
      BY <2>4 DEF Suppress
    <3>2. \A v \in Workers : Holds(v)' = Holds(v)
      BY <3>1 DEF Holds
    <3>3. cur[w].id \in Holds(w) /\ status[cur[w].id] = "sending" /\ verdict[w] = "failed"
      BY <3>1 DEF Holds, ClaimInv, ExclusiveDelivery, BudgetInv, VerdictsAreEarned
    <3>4. \A v \in Workers : v # w => cur[w].id \notin Holds(v)
      BY <3>3 DEF ClaimInv, ExclusiveDelivery
    <3> QED
      BY <3>1, <3>2, <3>3, <3>4 DEF SuppressedIsFailing
  <2>5. CASE Update(w) \/ UpdateFails(w)
    <3> DEFINE m == cur[w].id
    <3>1. /\ pc[w] = "update" /\ suppressed' = suppressed /\ batch' = batch
          /\ pc' = [pc EXCEPT ![w] = "record"] \/ pc' = [pc EXCEPT ![w] = "next"]
          /\ \A v \in Workers : v # w => cur'[v] = cur[v] /\ verdict'[v] = verdict[v]
      BY <2>5 DEF Update, UpdateFails
    <3>2. \A v \in Workers : v # w => Holds(v)' = Holds(v)
      BY <3>1 DEF Holds
    <3>3. \A v \in Workers : v = w => Holds(v)' \subseteq Holds(v) /\ m \in Holds(v) /\ m \notin Holds(v)'
      BY <3>1 DEF Holds, ClaimInv, ClaimsAreCurrent
    <3>4. \A k \in suppressed : status'[k] \in {"sending", "failed"}
      <4> SUFFICES ASSUME NEW k \in suppressed PROVE status'[k] \in {"sending", "failed"}
        OBVIOUS
      <4>1. k = m => verdict[w] = "failed"
        BY <3>3 DEF SuppressedIsFailing
      <4>2. status'[k] = status[k] \/ (k = m /\ status'[k] = verdict[w])
        BY <2>5 DEF Update, UpdateFails, WriteVerdict
      <4> QED
        BY <4>1, <4>2 DEF SuppressedIsFailing
    <3>5. ASSUME NEW k \in suppressed, NEW v \in Workers, k \in Holds(v)'
          PROVE  pc'[v] = "update" /\ cur'[v].id = k /\ verdict'[v] = "failed"
      <4>1. CASE v = w
        BY <3>3, <3>5, <4>1 DEF SuppressedIsFailing
      <4>2. CASE v # w
        BY <3>1, <3>2, <3>5, <4>2 DEF SuppressedIsFailing
      <4> QED
        BY <4>1, <4>2
    <3> QED
      BY <3>1, <3>4, <3>5 DEF SuppressedIsFailing
  <2> QED
    BY <1>w, <2>1, <2>2, <2>3, <2>4, <2>5 DEF WorkerStep, WorkerFault
<1> QED
  BY <1>e, <1>o, <1>w DEF Next, Environment, ComesDue, LockExpires, SentAgesOut, vars

(* A message whose recipients were suppressed is never reported as sent.   *)
THEOREM SuppressedIsNeverSent == Spec => []SuppressedNeverSent
<1>1. SuppressedIsFailing => SuppressedNeverSent
  BY DEF SuppressedIsFailing, SuppressedNeverSent
<1> QED
  BY <1>1, SafetyInvariant, InitSuppressed, NextSuppressed, PTL DEF Spec
-----------------------------------------------------------------------------
(* The event log. The UPDATE of the row and the INSERT of its event are    *)
(* two statements; between them the row already has its final status, so   *)
(* no other worker can claim it and record a second verdict.               *)

EventInv == OneVerdictEvent /\ RecordsOnce

(* The log starts empty. *)
LEMMA InitEvents == Init => EventInv
BY DEF Init, EventInv, OneVerdictEvent, RecordsOnce

(* A step that records nothing, rewrites no final status and brings no     *)
(* worker to the point of recording keeps the log consistent.              *)
LEMMA QuietStep ==
  ASSUME EventInv, events' = events,
         \A m \in Messages : status[m] \in Final => status'[m] = status[m],
         \A w \in Workers : pc'[w] = "record" =>
           pc[w] = "record" /\ cur'[w] = cur[w] /\ verdict'[w] = verdict[w],
         TypeInv
  PROVE  EventInv'
<1>1. OneVerdictEvent'
  BY DEF EventInv, OneVerdictEvent
<1>2. \A w \in Workers : pc[w] = "record" => cur[w].id \in Messages
  BY DEF TypeInv, CurIsClaim, Delivering, Claimed
<1>3. RecordsOnce'
  BY <1>2 DEF EventInv, RecordsOnce
<1> QED
  BY <1>1, <1>3 DEF EventInv

(* RecordEvent's insert by a worker that has written its verdict.          *)
LEMMA InsertKeepsLog ==
  ASSUME TypeInv, EventInv, NEW w \in Workers, pc[w] = "record", InsertEvent(w),
         status' = status,
         pc'[w] # "record",
         \A v \in Workers \ {w} :
           pc'[v] = pc[v] /\ cur'[v] = cur[v] /\ verdict'[v] = verdict[v]
  PROVE  EventInv'
<1> DEFINE m == cur[w].id
           n == Len(events[m])
<1>1. m \in Messages /\ events[m] \in Seq(Verdicts) /\ verdict[w] \in Verdicts
  BY DEF TypeInv, TypeOK, CurIsClaim, Delivering, Claimed
<1>2. /\ n \in Nat
      /\ Len(Append(events[m], verdict[w])) = n + 1
      /\ \A i \in 1..n : Append(events[m], verdict[w])[i] = events[m][i]
      /\ Append(events[m], verdict[w])[n + 1] = verdict[w]
  BY <1>1
<1>3. /\ Len(events'[m]) = n + 1
      /\ \A i \in 1..n : events'[m][i] = events[m][i]
      /\ events'[m][n + 1] = verdict[w]
      /\ \A k \in Messages \ {m} : events'[k] = events[k]
  BY <1>1, <1>2 DEF InsertEvent, TypeInv, TypeOK
<1>4. verdict[w] \in Final =>
        /\ status[m] = verdict[w]
        /\ \A i \in 1..n : events[m][i] \notin Final
        /\ \A v \in Workers \ {w} :
             ~(pc[v] = "record" /\ verdict[v] \in Final /\ cur[v].id = m)
  BY DEF EventInv, RecordsOnce
<1>s. \A j \in 1..(n + 1) : j \in 1..n \/ j = n + 1
  BY <1>2
<1>5. ASSUME NEW i \in 1..(n + 1), events'[m][i] \in Final
      PROVE  /\ events'[m][i] = status'[m]
             /\ \A j \in 1..(n + 1) : events'[m][j] \in Final => j = i
  <2>1. CASE i = n + 1
    <3>1. verdict[w] \in Final /\ events'[m][i] = status'[m]
      BY <1>3, <1>4, <1>5, <2>1
    <3>2. \A j \in 1..n : events'[m][j] \notin Final
      BY <1>3, <1>4, <3>1
    <3> HIDE DEF m, n
    <3> QED
      BY <1>s, <3>1, <3>2, <2>1
  <2>2. CASE i # n + 1
    <3>1. i \in 1..n /\ events[m][i] \in Final
      BY <1>2, <1>3, <1>5, <2>2
    <3>2. verdict[w] \notin Final
      BY <1>4, <3>1
    <3>3. /\ events[m][i] = status[m]
          /\ \A j \in 1..n : events[m][j] \in Final => j = i
      BY <1>1, <3>1 DEF EventInv, OneVerdictEvent
    <3>4. /\ events'[m][i] = status'[m]
          /\ events'[m][n + 1] \notin Final
          /\ \A j \in 1..n : events'[m][j] \in Final => j = i
      BY <1>3, <3>1, <3>2, <3>3
    <3> HIDE DEF m, n
    <3> QED
      BY <1>s, <3>4
  <2> QED
    BY <2>1, <2>2
<1>6. ASSUME NEW k \in Messages, NEW i \in 1..Len(events'[k]), events'[k][i] \in Final
      PROVE  /\ events'[k][i] = status'[k]
             /\ \A j \in 1..Len(events'[k]) : events'[k][j] \in Final => j = i
  <2>1. CASE k = m
    BY <1>3, <1>5, <1>6, <2>1
  <2>2. CASE k # m
    BY <1>3, <1>6, <2>2 DEF EventInv, OneVerdictEvent
  <2> QED
    BY <2>1, <2>2
<1>7. OneVerdictEvent'
  BY <1>6 DEF OneVerdictEvent
<1>8. ASSUME NEW v \in Workers, pc'[v] = "record", verdict'[v] \in Final
      PROVE  /\ status'[cur'[v].id] = verdict'[v]
             /\ \A i \in 1..Len(events'[cur'[v].id]) : events'[cur'[v].id][i] \notin Final
             /\ \A u \in Workers \ {v} :
                  ~(pc'[u] = "record" /\ verdict'[u] \in Final /\ cur'[u].id = cur'[v].id)
  <2>1. v # w /\ pc[v] = "record" /\ verdict[v] \in Final /\ cur'[v] = cur[v]
        /\ verdict'[v] = verdict[v]
    BY <1>8
  <2>2. /\ status[cur[v].id] = verdict[v]
        /\ \A i \in 1..Len(events[cur[v].id]) : events[cur[v].id][i] \notin Final
        /\ \A u \in Workers \ {v} :
             ~(pc[u] = "record" /\ verdict[u] \in Final /\ cur[u].id = cur[v].id)
    BY <2>1 DEF EventInv, RecordsOnce
  <2>3. cur[v].id \in Messages
    BY <2>1 DEF TypeInv, CurIsClaim, Delivering, Claimed
  <2>4. \A i \in 1..Len(events'[cur[v].id]) : events'[cur[v].id][i] \notin Final
    <3>1. CASE cur[v].id # m
      BY <1>3, <2>2, <2>3, <3>1
    <3>2. CASE cur[v].id = m
      <4>1. verdict[w] \notin Final
        BY <2>1, <2>2, <3>2
      <4> QED
        BY <1>2, <1>3, <2>2, <3>2, <4>1
    <3> QED
      BY <3>1, <3>2
  <2> QED
    BY <2>1, <2>2, <2>4
<1>9. RecordsOnce'
  BY <1>8 DEF RecordsOnce
<1> QED
  BY <1>7, <1>9 DEF EventInv

(* Every action keeps the log at one final event per message. *)
LEMMA NextEvents ==
  TypeInv /\ ClaimInv /\ BudgetInv /\ EventInv /\ [Next]_vars => EventInv'
<1> SUFFICES ASSUME TypeInv, ClaimInv, BudgetInv, EventInv, [Next]_vars PROVE EventInv'
  OBVIOUS
<1> USE DEF table, log, local, Goto, Leave
<1>f. \A m \in Messages : status[m] \in Final => status'[m] = status[m]
  BY NextImplements, LifecycleKeepsVerdict DEF TypeInv
<1>q. ASSUME events' = events, UNCHANGED local PROVE EventInv'
  BY <1>f, <1>q, QuietStep
<1>w. ASSUME NEW w \in Workers, WorkerStep(w) \/ WorkerFault(w) PROVE EventInv'
  <2>1. ASSUME events' = events,
               \A v \in Workers \ {w} :
                 pc'[v] = pc[v] /\ cur'[v] = cur[v] /\ verdict'[v] = verdict[v],
               pc'[w] # "record"
        PROVE  EventInv'
    BY <1>f, <2>1, QuietStep
  <2>2. CASE CheckCeiling(w) \/ Claim(w) \/ ClaimLost(w) \/ TakeNext(w) \/ BatchDone(w)
             \/ Sign(w) \/ SignFails(w) \/ Send(w) \/ Suppress(w) \/ UpdateFails(w)
             \/ Publish(w) \/ PublishFails(w) \/ Crash(w)
    BY <2>1, <2>2 DEF CheckCeiling, Claim, ClaimLost, TakeNext, BatchDone, Sign, SignFails,
       Send, Suppress, UpdateFails, Publish, PublishFails, Crash, TypeInv, TypeOK
  <2>3. CASE Update(w)
    <3> DEFINE m == cur[w].id
    <3>1. /\ pc[w] = "update" /\ pc' = [pc EXCEPT ![w] = "record"]
          /\ UNCHANGED <<events, cur, verdict>>
          /\ m \in Messages /\ status[m] = "sending"
      BY <2>3 DEF Update, TypeInv, CurIsClaim, Delivering, InFlight, Claimed, ClaimInv,
         ExclusiveDelivery, Holds
    <3>2. status' = [status EXCEPT ![m] = verdict[w]]
      BY <2>3 DEF Update, WriteVerdict
    <3>3. \A i \in 1..Len(events[m]) : events[m][i] \notin Final
      BY <3>1 DEF EventInv, OneVerdictEvent, Final
    <3>4. \A v \in Workers : ~(pc[v] = "record" /\ verdict[v] \in Final /\ cur[v].id = m)
      BY <3>1 DEF EventInv, RecordsOnce, Final
    <3>5. OneVerdictEvent'
      BY <1>f, <3>1 DEF EventInv, OneVerdictEvent
    <3>6. ASSUME NEW v \in Workers, pc'[v] = "record", verdict'[v] \in Final
          PROVE  /\ status'[cur'[v].id] = verdict'[v]
                 /\ \A i \in 1..Len(events'[cur'[v].id]) : events'[cur'[v].id][i] \notin Final
                 /\ \A u \in Workers \ {v} :
                      ~(pc'[u] = "record" /\ verdict'[u] \in Final /\ cur'[u].id = cur'[v].id)
      <4>1. CASE v = w
        BY <3>1, <3>2, <3>3, <3>4, <3>6, <4>1 DEF TypeInv, TypeOK
      <4>2. CASE v # w
        <5>1. pc[v] = "record" /\ verdict[v] \in Final
          BY <3>1, <3>6, <4>2 DEF TypeInv, TypeOK
        <5>2. /\ status[cur[v].id] = verdict[v]
              /\ \A i \in 1..Len(events[cur[v].id]) : events[cur[v].id][i] \notin Final
              /\ \A u \in Workers \ {v} :
                   ~(pc[u] = "record" /\ verdict[u] \in Final /\ cur[u].id = cur[v].id)
          BY <5>1 DEF EventInv, RecordsOnce
        <5>3. cur[v].id # m
          BY <3>4, <5>1
        <5> QED
          BY <3>1, <3>2, <4>2, <5>1, <5>2, <5>3 DEF TypeInv, TypeOK
      <4> QED
        BY <4>1, <4>2
    <3>7. RecordsOnce'
      BY <3>6 DEF RecordsOnce
    <3> QED
      BY <3>5, <3>7 DEF EventInv
  <2>4. CASE Record(w) \/ RecordFails(w)
    <3>1. /\ pc[w] = "record" /\ status' = status /\ pc'[w] # "record"
          /\ \A v \in Workers \ {w} :
               pc'[v] = pc[v] /\ cur'[v] = cur[v] /\ verdict'[v] = verdict[v]
          /\ InsertEvent(w) \/ events' = events
      BY <2>4 DEF Record, RecordFails, TypeInv, TypeOK
    <3> QED
      BY <2>1, <3>1, InsertKeepsLog
  <2> QED
    BY <1>w, <2>2, <2>3, <2>4 DEF WorkerStep, WorkerFault
<1> QED
  BY <1>q, <1>w DEF Next, Environment, Enqueue, ComesDue, LockExpires, SentAgesOut, vars

(* At most one final event is ever recorded for a message, and it agrees   *)
(* with the message's status.                                              *)
THEOREM OneVerdictIsRecorded == Spec => []OneVerdictEvent
<1>1. EventInv => OneVerdictEvent
  BY DEF EventInv
<1> QED
  BY <1>1, SafetyInvariant, InitEvents, NextEvents, PTL DEF Spec

(* The inductive invariant of the queue holds for any number of workers,   *)
(* messages, attempts and faults.                                          *)
THEOREM QueueStaysConsistent == Spec => []QueueInv
<1>1. TypeInv /\ ClaimInv /\ BudgetInv /\ SuppressedIsFailing /\ EventInv => QueueInv
  BY DEF TypeInv, ClaimInv, BudgetInv, EventInv, QueueInv
<1> QED
  BY <1>1, SafetyInvariant, InitSuppressed, NextSuppressed, InitEvents, NextEvents, PTL DEF Spec
-----------------------------------------------------------------------------
(* Stranded messages. A worker holds at most one batch, and only a fault   *)
(* takes a row out of its hands without a verdict.                         *)

(* The table is finite, and so is every part of it. *)
LEMMA FiniteTable ==
  ASSUME NEW S \in SUBSET Messages
  PROVE  IsFiniteSet(S) /\ Cardinality(S) \in Nat
<1>1. IsFiniteSet(Messages)
  BY ConstantsAssumption, FS_Interval DEF Messages
<1> QED
  BY <1>1, FS_Subset, FS_CardinalityType

(* Any rows have a youngest. *)
LEMMA HasYoungest ==
  ASSUME NEW S \in SUBSET Messages, S # {}
  PROVE  \E x \in S : \A y \in S : y <= x
<1> DEFINE T == {MessageCount - y : y \in S}
           R == {p \in Nat \X Nat : p[1] < p[2]}
<1>1. T \subseteq Nat /\ T # {}
  <2>1. \A y \in S : MessageCount - y \in Nat
    BY ConstantsAssumption DEF Messages
  <2> QED
    BY <2>1
<1>2. IsWellFoundedOn(R, Nat)
  BY NatLessThanWellFounded DEF OpToRel
<1>w. \E t \in T : \A u \in T : ~(<<u, t>> \in R)
  <2> HIDE DEF T, R
  <2> QED
    BY <1>1, <1>2, WFMin
<1>3. PICK t \in T : \A u \in T : ~(u < t)
  BY <1>1, <1>w
<1>4. PICK x \in S : t = MessageCount - x
  BY <1>3
<1>5. ASSUME NEW y \in S PROVE y <= x
  <2>1. MessageCount - y \in T
    OBVIOUS
  <2>2. ~(MessageCount - y < MessageCount - x)
    BY <1>3, <1>4, <2>1
  <2> QED
    BY <2>2, ConstantsAssumption DEF Messages
<1> QED
  BY <1>5

(* ORDER BY created_at LIMIT n returns at most n rows. *)
LEMMA OldestAreFew ==
  ASSUME NEW S \in SUBSET Messages, NEW n \in Nat \ {0}
  PROVE  Cardinality(Oldest(S, n)) <= n
<1>1. Oldest(S, n) \in SUBSET Messages
  BY DEF Oldest
<1>2. CASE Oldest(S, n) = {}
  BY <1>2, FS_EmptySet
<1>3. CASE Oldest(S, n) # {}
  <2>1. PICK x \in Oldest(S, n) : \A y \in Oldest(S, n) : y <= x
    BY <1>1, <1>3, HasYoungest
  <2> DEFINE before == {k \in S : k < x}
  <2>2. before \in SUBSET Messages /\ Cardinality(before) < n
    BY <2>1 DEF Oldest
  <2>3. Oldest(S, n) \ {x} \in SUBSET before
    BY <1>1, <2>1 DEF Oldest, Messages
  <2> HIDE DEF before
  <2>4. /\ IsFiniteSet(Oldest(S, n)) /\ Cardinality(Oldest(S, n)) \in Nat
        /\ IsFiniteSet(before) /\ Cardinality(before) \in Nat
    BY <1>1, <2>2, FiniteTable
  <2>5. Cardinality(Oldest(S, n) \ {x}) = Cardinality(Oldest(S, n)) - 1
    BY <2>1, <2>4, FS_RemoveElement
  <2>6. Cardinality(Oldest(S, n) \ {x}) <= Cardinality(before)
    BY <2>3, <2>4, FS_Subset
  <2> QED
    BY <2>2, <2>4, <2>5, <2>6
<1> QED
  BY <1>2, <1>3

(* A claim takes at most a batch. *)
LEMMA ChoicesAreSmall ==
  ASSUME NEW w \in Workers, NEW rows \in ClaimChoices(w)
  PROVE  rows \in SUBSET Messages /\ Cardinality(rows) <= BatchSize
<1>1. PICK skipped \in SUBSET RowsInUse(w) : rows = Oldest(Claimable \ skipped, BatchSize)
  BY DEF ClaimChoices
<1>2. Claimable \ skipped \in SUBSET Messages
  BY DEF Claimable
<1> QED
  BY <1>1, <1>2, OldestAreFew, ConstantsAssumption DEF Oldest

HoldsABatch == \A w \in Workers : Cardinality(Holds(w)) <= BatchSize

CountInv == HoldsABatch /\ StrandedOnlyByFaults

(* What is held is a row of the table. *)
LEMMA HeldAreMessages ==
  ASSUME TypeInv, NEW w \in Workers
  PROVE  Holds(w) \in SUBSET Messages
BY DEF TypeInv, TypeOK, CurIsClaim, Delivering, Holds, Claimed

(* A worker that has read its claim holds exactly the rows it took. *)
LEMMA ClaimIsHeld ==
  ASSUME NEW w \in Workers, NEW rows, pc'[w] = "next",
         batch'[w] = {[id |-> m, attempts |-> attempts[m] + 1] : m \in rows}
  PROVE  Holds(w)' = rows
<1> DEFINE new == {[id |-> m, attempts |-> attempts[m] + 1] : m \in rows}
<1>1. ASSUME NEW m \in rows PROVE \E c \in new : c.id = m
  <2> WITNESS [id |-> m, attempts |-> attempts[m] + 1] \in new
  <2> QED
    OBVIOUS
<1>2. \A c \in new : c.id \in rows
  OBVIOUS
<1>3. Holds(w)' = {c.id : c \in new}
  BY DEF Holds, InFlight
<1> HIDE DEF new
<1> QED
  BY <1>1, <1>2, <1>3

(* Parts of what a worker holds are no larger. *)
LEMMA HoldsNoMore ==
  ASSUME TypeInv, NEW w \in Workers, HoldsABatch, Holds(w)' \subseteq Holds(w)
  PROVE  Cardinality(Holds(w)') <= BatchSize
<1>1. /\ IsFiniteSet(Holds(w)) /\ Cardinality(Holds(w)) \in Nat
      /\ Cardinality(Holds(w)') \in Nat
  BY HeldAreMessages, FiniteTable
<1>2. Cardinality(Holds(w)') <= Cardinality(Holds(w))
  BY <1>1, FS_Subset
<1> QED
  BY <1>1, <1>2, ConstantsAssumption DEF HoldsABatch

(* A step without a fault that strands nothing new. *)
LEMMA NothingStranded ==
  ASSUME StrandedOnlyByFaults, Stranded' \subseteq Stranded, faults' = faults, faults \in Nat
  PROVE  StrandedOnlyByFaults'
<1>1. Stranded \in SUBSET Messages
  BY DEF Stranded
<1>2. /\ IsFiniteSet(Stranded) /\ Cardinality(Stranded) \in Nat
      /\ Cardinality(Stranded') \in Nat
  BY <1>1, FiniteTable
<1>3. Cardinality(Stranded') <= Cardinality(Stranded)
  BY <1>2, FS_Subset
<1>4. faults * BatchSize \in Nat
  BY ConstantsAssumption
<1> QED
  BY <1>2, <1>3, <1>4 DEF StrandedOnlyByFaults

(* A fault that strands at most a batch. *)
LEMMA BatchStranded ==
  ASSUME StrandedOnlyByFaults, NEW lost \in SUBSET Messages, Cardinality(lost) <= BatchSize,
         Stranded' \subseteq Stranded \cup lost, faults' = faults + 1, faults \in Nat
  PROVE  StrandedOnlyByFaults'
<1>1. Stranded \in SUBSET Messages /\ Stranded \cup lost \in SUBSET Messages
  BY DEF Stranded
<1>2. /\ IsFiniteSet(Stranded) /\ IsFiniteSet(lost) /\ IsFiniteSet(Stranded \cup lost)
      /\ Cardinality(Stranded) \in Nat /\ Cardinality(lost) \in Nat
      /\ Cardinality(Stranded \cup lost) \in Nat /\ Cardinality(Stranded \cap lost) \in Nat
      /\ Cardinality(Stranded') \in Nat
  BY <1>1, FiniteTable
<1>3. Cardinality(Stranded \cup lost)
        = Cardinality(Stranded) + Cardinality(lost) - Cardinality(Stranded \cap lost)
  BY <1>2, FS_Union
<1>4. Cardinality(Stranded') <= Cardinality(Stranded \cup lost)
  BY <1>2, FS_Subset
<1>5. (faults + 1) * BatchSize = faults * BatchSize + BatchSize /\ faults * BatchSize \in Nat
  BY ConstantsAssumption
<1> QED
  BY <1>2, <1>3, <1>4, <1>5, ConstantsAssumption DEF StrandedOnlyByFaults

(* Nothing is held and nothing stranded at the start. *)
LEMMA InitCount == Init => CountInv
<1> SUFFICES ASSUME Init PROVE CountInv
  OBVIOUS
<1>1. Stranded = {} /\ \A w \in Workers : Holds(w) = {}
  BY DEF Init, Stranded, Holds, InFlight
<1>2. HoldsABatch
  BY <1>1, FS_EmptySet, ConstantsAssumption DEF HoldsABatch
<1>3. faults * BatchSize = 0
  BY ConstantsAssumption DEF Init
<1>4. StrandedOnlyByFaults
  BY <1>1, <1>3, FS_EmptySet DEF StrandedOnlyByFaults
<1> QED
  BY <1>2, <1>4 DEF CountInv

(* A step in which no worker holds more, only w may hold less and no row   *)
(* becomes 'sending' strands at most what w let go of.                     *)
LEMMA LetGo ==
  ASSUME TypeInv, CountInv, NEW w \in Workers,
         Holds(w)' \subseteq Holds(w),
         \A v \in Workers \ {w} : Holds(v)' = Holds(v),
         \A m \in Messages : status'[m] = "sending" => status[m] = "sending"
  PROVE  /\ HoldsABatch'
         /\ Stranded' \subseteq Stranded \cup (Holds(w) \ Holds(w)')
<1>1. \A v \in Workers : Cardinality(Holds(v)') <= BatchSize
  BY HoldsNoMore DEF CountInv
<1>2. HoldsABatch'
  BY <1>1 DEF HoldsABatch
<1>3. ASSUME NEW m \in Stranded', m \notin Stranded PROVE m \in Holds(w) \ Holds(w)'
  <2>1. m \in Messages /\ status[m] = "sending" /\ \A v \in Workers : m \notin Holds(v)'
    BY DEF Stranded
  <2>2. PICK v \in Workers : m \in Holds(v)
    BY <1>3, <2>1 DEF Stranded
  <2> QED
    BY <2>1, <2>2
<1> QED
  BY <1>2, <1>3

(* Every action keeps a batch to its size and every stranded row paid for  *)
(* by a fault.                                                             *)
LEMMA NextCount ==
  TypeInv /\ ClaimInv /\ CountInv /\ [Next]_vars => CountInv'
<1> SUFFICES ASSUME TypeInv, ClaimInv, CountInv, [Next]_vars PROVE CountInv'
  OBVIOUS
<1> USE DEF table, log, local, Goto, Leave, InFlight
<1>f. faults \in Nat
  BY ConstantsAssumption DEF TypeInv, TypeOK
<1>q. ASSUME UNCHANGED <<local, faults>>,
             \A m \in Messages : status'[m] = "sending" => status[m] = "sending"
      PROVE  CountInv'
  <2>1. \A w \in Workers : Holds(w)' = Holds(w)
    BY <1>q DEF Holds
  <2>2. HoldsABatch'
    BY <2>1 DEF CountInv, HoldsABatch
  <2>3. Stranded' \subseteq Stranded
    BY <1>q, <2>1 DEF Stranded
  <2> QED
    BY <1>q, <1>f, <2>2, <2>3, NothingStranded DEF CountInv
<1>e. ASSUME NEW m \in Messages, Enqueue(m) PROVE CountInv'
  BY <1>e, <1>q DEF Enqueue, TypeInv, TypeOK
<1>1. ASSUME NEW w \in Workers, Claim(w) PROVE CountInv'
  <2>1. PICK rows \in ClaimChoices(w) :
          /\ ClaimRows(rows)
          /\ batch' = [batch EXCEPT ![w] =
                         {[id |-> m, attempts |-> attempts[m] + 1] : m \in rows}]
    BY <1>1 DEF Claim
  <2>2. pc[w] = "claim" /\ pc' = [pc EXCEPT ![w] = "next"] /\ UNCHANGED <<cur, faults>>
    BY <1>1 DEF Claim
  <2>3. Holds(w)' = rows /\ Holds(w) = {}
    <3>1. pc'[w] = "next" /\ batch[w] = {}
          /\ batch'[w] = {[id |-> m, attempts |-> attempts[m] + 1] : m \in rows}
      BY <2>1, <2>2 DEF TypeInv, TypeOK, ClaimInv, ClaimsAreCurrent
    <3> QED
      BY <2>2, <3>1, ClaimIsHeld DEF Holds
  <2>4. \A v \in Workers \ {w} : Holds(v)' = Holds(v)
    BY <2>1, <2>2 DEF Holds, TypeInv, TypeOK
  <2>5. HoldsABatch'
    BY <2>3, <2>4, ChoicesAreSmall DEF CountInv, HoldsABatch
  <2>6. Stranded' \subseteq Stranded
    <3>1. \A m \in Messages \ rows : status'[m] = status[m]
      BY <2>1 DEF ClaimRows
    <3> QED
      BY <2>3, <2>4, <3>1 DEF Stranded
  <2> QED
    BY <1>f, <2>2, <2>5, <2>6, NothingStranded DEF CountInv
<1>2. ASSUME NEW w \in Workers, ClaimLost(w) PROVE CountInv'
  <2>1. PICK rows \in ClaimChoices(w) : ClaimRows(rows)
    BY <1>2 DEF ClaimLost
  <2>2. /\ pc[w] = "claim" /\ pc' = [pc EXCEPT ![w] = "idle"]
        /\ UNCHANGED <<batch, cur>> /\ faults' = faults + 1
    BY <1>2 DEF ClaimLost, Fault
  <2>3. \A v \in Workers : Holds(v)' = Holds(v)
    BY <2>2 DEF Holds, TypeInv, TypeOK
  <2>4. HoldsABatch'
    BY <2>3 DEF CountInv, HoldsABatch
  <2>5. Stranded' \subseteq Stranded \cup rows
    BY <2>1, <2>3 DEF ClaimRows, Stranded
  <2> QED
    BY <1>f, <2>2, <2>4, <2>5, BatchStranded, ChoicesAreSmall DEF CountInv
<1>3. ASSUME NEW w \in Workers,
             CheckCeiling(w) \/ TakeNext(w) \/ BatchDone(w) \/ Sign(w) \/ SignFails(w)
             \/ Send(w) \/ Suppress(w) \/ Record(w) \/ Publish(w)
             \/ RecordFails(w) \/ PublishFails(w)
      PROVE  CountInv'
  <2>1. status' = status /\ faults' \in {faults, faults + 1}
    BY <1>3 DEF CheckCeiling, TakeNext, BatchDone, Sign, SignFails, Send, Suppress, Record,
       Publish, RecordFails, PublishFails, Fault
  <2>2. \A v \in Workers \ {w} : Holds(v)' = Holds(v)
    BY <1>3 DEF CheckCeiling, TakeNext, BatchDone, Sign, SignFails, Send, Suppress, Record,
       Publish, RecordFails, PublishFails, Holds, TypeInv, TypeOK
  <2>3. Holds(w)' = Holds(w)
    <3>1. CASE TakeNext(w)
      <4>1. PICK c \in batch[w] : /\ cur' = [cur EXCEPT ![w] = c]
                                 /\ batch' = [batch EXCEPT ![w] = batch[w] \ {c}]
        BY <3>1 DEF TakeNext
      <4>2. pc[w] = "next" /\ pc'[w] = "sign" /\ cur'[w] = c /\ batch'[w] = batch[w] \ {c}
        BY <3>1, <4>1 DEF TakeNext, TypeInv, TypeOK
      <4> QED
        BY <4>2 DEF Holds
    <3>2. CASE CheckCeiling(w) \/ BatchDone(w) \/ Sign(w) \/ SignFails(w) \/ Send(w)
               \/ Suppress(w)
      BY <3>2 DEF CheckCeiling, BatchDone, Sign, SignFails, Send, Suppress, Holds,
         TypeInv, TypeOK
    <3>3. CASE Record(w) \/ Publish(w) \/ RecordFails(w) \/ PublishFails(w)
      BY <3>3 DEF Record, Publish, RecordFails, PublishFails, Holds, TypeInv, TypeOK
    <3> QED
      BY <1>3, <3>1, <3>2, <3>3
  <2>4. HoldsABatch' /\ Stranded' \subseteq Stranded
    BY <2>1, <2>2, <2>3, LetGo
  <2>5. CASE faults' = faults
    BY <1>f, <2>4, <2>5, NothingStranded DEF CountInv
  <2>6. CASE faults' = faults + 1
    <3>1. {} \in SUBSET Messages /\ Cardinality({}) <= BatchSize
      BY FS_EmptySet, ConstantsAssumption
    <3>2. Stranded' \subseteq Stranded \cup {}
      BY <2>4
    <3> QED
      BY <1>f, <2>4, <2>6, <3>1, <3>2, BatchStranded DEF CountInv
  <2> QED
    BY <2>1, <2>5, <2>6
<1>4. ASSUME NEW w \in Workers, Update(w) \/ UpdateFails(w) PROVE CountInv'
  <2> DEFINE m == cur[w].id
  <2>1. /\ pc[w] = "update" /\ batch' = batch
        /\ \E to \in {"record", "next"} : pc' = [pc EXCEPT ![w] = to]
        /\ \A v \in Workers \ {w} : cur'[v] = cur[v]
        /\ \/ WriteVerdict(w) /\ faults' \in {faults, faults + 1}
           \/ status' = status /\ faults' = faults + 1
    BY <1>4 DEF Update, UpdateFails, Fault, TypeInv, TypeOK
  <2>2. \A v \in Workers \ {w} : Holds(v)' = Holds(v)
    BY <2>1 DEF Holds, TypeInv, TypeOK
  <2>3. Holds(w)' \subseteq Holds(w) /\ Holds(w) \ Holds(w)' \subseteq {m}
    BY <2>1 DEF Holds, TypeInv, TypeOK
  <2>4. /\ m \in Messages
        /\ \A k \in Messages : status'[k] = "sending" => status[k] = "sending"
        /\ WriteVerdict(w) => status'[m] # "sending"
    <3>1. m \in Messages /\ status[m] = "sending" /\ verdict[w] # "sending"
      BY <2>1 DEF TypeInv, TypeOK, CurIsClaim, Delivering, Claimed, ClaimInv,
         ExclusiveDelivery, Holds, Verdicts, Final
    <3> QED
      BY <2>1, <3>1 DEF WriteVerdict, TypeInv, TypeOK
  <2>5. HoldsABatch' /\ Stranded' \subseteq Stranded \cup {m}
    BY <2>2, <2>3, <2>4, LetGo
  <2>6. CASE WriteVerdict(w) /\ faults' = faults
    <3>1. m \notin Stranded'
      BY <2>4, <2>6 DEF Stranded
    <3> QED
      BY <1>f, <2>5, <2>6, <3>1, NothingStranded DEF CountInv
  <2>7. CASE faults' = faults + 1
    <3>0. m \in Messages /\ Cardinality({m}) = 1
      BY <2>4, FS_Singleton
    <3>1. {m} \in SUBSET Messages /\ Cardinality({m}) <= BatchSize
      BY <3>0, ConstantsAssumption
    <3> QED
      BY <1>f, <2>5, <2>7, <3>1, BatchStranded DEF CountInv
  <2> QED
    BY <2>1, <2>6, <2>7
<1>5. ASSUME NEW w \in Workers, Crash(w) PROVE CountInv'
  <2>1. /\ UNCHANGED status /\ faults' = faults + 1
        /\ pc' = [pc EXCEPT ![w] = "idle"] /\ batch' = [batch EXCEPT ![w] = {}]
        /\ \A v \in Workers \ {w} : cur'[v] = cur[v]
    BY <1>5 DEF Crash, Fault, TypeInv, TypeOK
  <2>2. \A v \in Workers \ {w} : Holds(v)' = Holds(v)
    BY <2>1 DEF Holds, TypeInv, TypeOK
  <2>3. Holds(w)' = {}
    BY <2>1 DEF Holds, TypeInv, TypeOK
  <2>4. HoldsABatch' /\ Stranded' \subseteq Stranded \cup Holds(w)
    BY <2>1, <2>2, <2>3, LetGo
  <2>5. Holds(w) \in SUBSET Messages /\ Cardinality(Holds(w)) <= BatchSize
    BY HeldAreMessages DEF CountInv, HoldsABatch
  <2> QED
    BY <1>f, <2>1, <2>4, <2>5, BatchStranded DEF CountInv
<1> QED
  BY <1>q, <1>e, <1>1, <1>2, <1>3, <1>4, <1>5 DEF Next, Environment, ComesDue, LockExpires,
     SentAgesOut, WorkerStep, WorkerFault, vars

(* Each fault strands at most one batch of messages, and without a fault   *)
(* none is stranded.                                                       *)
THEOREM StrandingNeedsFaults == Spec => []StrandedOnlyByFaults
<1>1. CountInv => StrandedOnlyByFaults
  BY DEF CountInv
<1> QED
  BY <1>1, SafetyInvariant, InitCount, NextCount, PTL DEF Spec

(* A stranded row that keeps its status, and that no worker takes up,      *)
(* stays stranded.                                                         *)
LEMMA StaysStranded ==
  ASSUME NEW m \in Stranded, status'[m] = status[m],
         \A w \in Workers : m \in Holds(w)' => m \in Holds(w)
  PROVE  m \in Stranded'
BY DEF Stranded

(* No action of a worker or of the clock takes up a stranded row: a claim  *)
(* asks for a waiting status, and a verdict is written by its holder.      *)
LEMMA NextStranded ==
  TypeInv /\ [Next]_vars => Stranded \subseteq Stranded'
<1> SUFFICES ASSUME TypeInv, [Next]_vars, NEW m \in Stranded PROVE m \in Stranded'
  OBVIOUS
<1> USE DEF table, log, local, Goto, Leave, InFlight
<1>m. m \in Messages /\ status[m] = "sending" /\ \A w \in Workers : m \notin Holds(w)
  BY DEF Stranded
<1>q. ASSUME UNCHANGED local, status'[m] = status[m] PROVE m \in Stranded'
  BY <1>q, StaysStranded DEF Holds
<1>e. ASSUME NEW k \in Messages, Enqueue(k) PROVE m \in Stranded'
  <2>1. UNCHANGED local /\ status'[m] = status[m]
    BY <1>e, <1>m DEF Enqueue, TypeInv, TypeOK
  <2> QED
    BY <2>1, <1>q
<1>c. ASSUME NEW w \in Workers, NEW rows \in ClaimChoices(w), ClaimRows(rows)
      PROVE  m \notin rows /\ status'[m] = status[m]
  <2>1. m \notin rows
    BY <1>m, ChoicesAreClaimable DEF Claimable, Waiting
  <2> QED
    BY <1>c, <1>m, <2>1 DEF ClaimRows
<1>1. ASSUME NEW w \in Workers, Claim(w) PROVE m \in Stranded'
  <2>1. PICK rows \in ClaimChoices(w) :
          /\ ClaimRows(rows)
          /\ batch' = [batch EXCEPT ![w] =
                         {[id |-> k, attempts |-> attempts[k] + 1] : k \in rows}]
    BY <1>1 DEF Claim
  <2>2. pc' = [pc EXCEPT ![w] = "next"] /\ UNCHANGED cur
    BY <1>1 DEF Claim
  <2>3. pc'[w] = "next"
        /\ batch'[w] = {[id |-> k, attempts |-> attempts[k] + 1] : k \in rows}
    BY <2>1, <2>2 DEF TypeInv, TypeOK
  <2>4. Holds(w)' = rows
    BY <2>3, ClaimIsHeld
  <2>5. \A v \in Workers \ {w} : Holds(v)' = Holds(v)
    BY <2>1, <2>2 DEF Holds, TypeInv, TypeOK
  <2> QED
    BY <1>c, <2>1, <2>4, <2>5, StaysStranded
<1>2. ASSUME NEW w \in Workers, ClaimLost(w) PROVE m \in Stranded'
  <2>1. PICK rows \in ClaimChoices(w) : ClaimRows(rows)
    BY <1>2 DEF ClaimLost
  <2>2. pc[w] = "claim" /\ pc' = [pc EXCEPT ![w] = "idle"] /\ UNCHANGED <<batch, cur>>
    BY <1>2 DEF ClaimLost
  <2>3. \A v \in Workers : Holds(v)' = Holds(v)
    BY <2>2 DEF Holds, TypeInv, TypeOK
  <2> QED
    BY <1>c, <2>1, <2>3, StaysStranded
<1>3. ASSUME NEW w \in Workers,
             CheckCeiling(w) \/ BatchDone(w) \/ Sign(w) \/ SignFails(w) \/ Send(w)
             \/ Suppress(w) \/ Record(w) \/ Publish(w) \/ RecordFails(w) \/ PublishFails(w)
      PROVE  m \in Stranded'
  <2>1. status' = status
    BY <1>3 DEF CheckCeiling, BatchDone, Sign, SignFails, Send, Suppress, Record, Publish,
       RecordFails, PublishFails
  <2>2. \A v \in Workers \ {w} : Holds(v)' = Holds(v)
    BY <1>3 DEF CheckCeiling, BatchDone, Sign, SignFails, Send, Suppress, Record, Publish,
       RecordFails, PublishFails, Holds, TypeInv, TypeOK
  <2>3. CASE CheckCeiling(w) \/ BatchDone(w) \/ Sign(w) \/ SignFails(w) \/ Send(w)
             \/ Suppress(w)
    <3>1. Holds(w)' = Holds(w)
      BY <2>3 DEF CheckCeiling, BatchDone, Sign, SignFails, Send, Suppress, Holds,
         TypeInv, TypeOK
    <3> QED
      BY <2>1, <2>2, <3>1, StaysStranded
  <2>4. CASE Record(w) \/ Publish(w) \/ RecordFails(w) \/ PublishFails(w)
    <3>1. Holds(w)' = Holds(w)
      BY <2>4 DEF Record, Publish, RecordFails, PublishFails, Holds, TypeInv, TypeOK
    <3> QED
      BY <2>1, <2>2, <3>1, StaysStranded
  <2> QED
    BY <1>3, <2>3, <2>4
<1>4. ASSUME NEW w \in Workers, TakeNext(w) PROVE m \in Stranded'
  <2>1. PICK c \in batch[w] : /\ cur' = [cur EXCEPT ![w] = c]
                             /\ batch' = [batch EXCEPT ![w] = batch[w] \ {c}]
    BY <1>4 DEF TakeNext
  <2>2. pc' = [pc EXCEPT ![w] = "sign"] /\ status' = status
    BY <1>4 DEF TakeNext
  <2>3. cur'[w] = c /\ batch'[w] = batch[w] \ {c}
    BY <2>1 DEF TypeInv, TypeOK
  <2>4. Holds(w)' \subseteq Holds(w)
    BY <2>3 DEF Holds
  <2>5. \A v \in Workers \ {w} : Holds(v)' = Holds(v)
    BY <2>1, <2>2 DEF Holds, TypeInv, TypeOK
  <2> QED
    BY <2>2, <2>4, <2>5, StaysStranded
<1>5. ASSUME NEW w \in Workers, Update(w) \/ UpdateFails(w) PROVE m \in Stranded'
  <2>1. /\ pc[w] = "update" /\ batch' = batch
        /\ \E to \in {"record", "next"} : pc' = [pc EXCEPT ![w] = to]
        /\ \A v \in Workers \ {w} : cur'[v] = cur[v]
        /\ WriteVerdict(w) \/ status' = status
    BY <1>5 DEF Update, UpdateFails, TypeInv, TypeOK
  <2>2. \A v \in Workers \ {w} : Holds(v)' = Holds(v)
    BY <2>1 DEF Holds, TypeInv, TypeOK
  <2>3. Holds(w)' \subseteq Holds(w)
    BY <2>1 DEF Holds, TypeInv, TypeOK
  <2>4. cur[w].id # m
    BY <1>m, <2>1 DEF Holds
  <2>5. status'[m] = status[m]
    BY <1>m, <2>1, <2>4 DEF WriteVerdict, TypeInv, TypeOK
  <2> QED
    BY <2>2, <2>3, <2>5, StaysStranded
<1>6. ASSUME NEW w \in Workers, Crash(w) PROVE m \in Stranded'
  <2>1. /\ UNCHANGED status
        /\ pc' = [pc EXCEPT ![w] = "idle"] /\ batch' = [batch EXCEPT ![w] = {}]
        /\ \A v \in Workers \ {w} : cur'[v] = cur[v]
    BY <1>6 DEF Crash, TypeInv, TypeOK
  <2>2. \A v \in Workers \ {w} : Holds(v)' = Holds(v)
    BY <2>1 DEF Holds, TypeInv, TypeOK
  <2>3. Holds(w)' = {}
    BY <2>1 DEF Holds, TypeInv, TypeOK
  <2> QED
    BY <2>1, <2>2, <2>3, StaysStranded
<1> QED
  BY <1>q, <1>e, <1>1, <1>2, <1>3, <1>4, <1>5, <1>6 DEF Next, Environment, ComesDue,
     LockExpires, SentAgesOut, WorkerStep, WorkerFault, vars

(* A stranded message is lost: ClaimMessages asks for 'queued' or          *)
(* 'deferred' whatever locked_until says, so no later step of any worker,  *)
(* restarted or not, takes it up, and it is never sent or failed.          *)
THEOREM StrandedIsLost == Spec => [][Stranded \subseteq Stranded']_vars
BY SafetyInvariant, NextStranded, PTL DEF Spec
-----------------------------------------------------------------------------
(* The hourly ceiling. A worker that has passed the check may record as    *)
(* many email.sent events as its batch has messages without a new check;   *)
(* what it may still record and what is recorded stay below the bound.     *)

(* The messages of a batch not started on. *)
Unstarted(w) == {c.id : c \in batch[w]}

(* How many events a worker may still record before it checks again. *)
Allowance(w) ==
  IF pc[w] = "claim" THEN BatchSize
  ELSE IF pc[w] \in InFlight \cup {"record"} THEN Cardinality(Unstarted(w)) + 1
  ELSE Cardinality(Unstarted(w))

(* One token for each event that may still be recorded. *)
Tokens == {t \in (1..BatchSize) \X Workers : t[1] <= Allowance(t[2])}

AllowancesFit == \A w \in Workers : Allowance(w) <= BatchSize

CeilingInv ==
  /\ AllowancesFit
  /\ MaxPerHour > 0 =>
       recentSent + Cardinality(Tokens) <= (MaxPerHour - 1) + BatchSize * Cardinality(Workers)

(* Batches are parts of the table. *)
LEMMA FiniteBatches ==
  ASSUME TypeOK, NEW w \in Workers
  PROVE  /\ Unstarted(w) \in SUBSET Messages /\ IsFiniteSet(Unstarted(w))
         /\ Cardinality(Unstarted(w)) \in Nat /\ Allowance(w) \in Nat
<1>1. Unstarted(w) \in SUBSET Messages
  BY DEF Unstarted, TypeOK, Claimed
<1>2. IsFiniteSet(Unstarted(w)) /\ Cardinality(Unstarted(w)) \in Nat
  BY <1>1, FiniteTable
<1> QED
  BY <1>1, <1>2, ConstantsAssumption DEF Allowance

(* There are never more tokens than workers times the size of a batch. *)
LEMMA TokensAreBounded ==
  ASSUME NEW T \in SUBSET ((1..BatchSize) \X Workers)
  PROVE  /\ IsFiniteSet(T) /\ Cardinality(T) \in Nat
         /\ Cardinality(T) <= BatchSize * Cardinality(Workers)
         /\ BatchSize * Cardinality(Workers) \in Nat
<1>1. /\ IsFiniteSet(1..BatchSize) /\ Cardinality(1..BatchSize) = BatchSize
      /\ IsFiniteSet(Workers) /\ Cardinality(Workers) \in Nat
  <2>1. BatchSize \in Int /\ 1 \in Int /\ ~(1 > BatchSize) /\ BatchSize - 1 + 1 = BatchSize
    BY ConstantsAssumption
  <2>2. IsFiniteSet(1..BatchSize) /\ Cardinality(1..BatchSize) = BatchSize
    BY <2>1, FS_Interval
  <2> QED
    BY <2>2, ConstantsAssumption, FS_CardinalityType
<1>2. /\ IsFiniteSet((1..BatchSize) \X Workers)
      /\ Cardinality((1..BatchSize) \X Workers) = BatchSize * Cardinality(Workers)
  BY <1>1, FS_Product
<1>3. IsFiniteSet(T) /\ Cardinality(T) <= BatchSize * Cardinality(Workers)
  BY <1>2, FS_Subset
<1>4. BatchSize * Cardinality(Workers) \in Nat
  BY <1>1, ConstantsAssumption
<1> QED
  BY <1>3, <1>4, FS_CardinalityType

(* At the start nothing may be recorded and nothing is. *)
LEMMA InitCeiling == Init => CeilingInv
<1> SUFFICES ASSUME Init PROVE CeilingInv
  OBVIOUS
<1>1. \A w \in Workers : Unstarted(w) = {} /\ pc[w] = "idle"
  BY DEF Init, Unstarted
<1>2. \A w \in Workers : Allowance(w) = 0
  BY <1>1, FS_EmptySet DEF Allowance, InFlight
<1>3. Tokens \in SUBSET ((1..BatchSize) \X Workers) /\ recentSent = 0
  BY DEF Tokens, Init
<1>4. AllowancesFit
  BY <1>2, ConstantsAssumption DEF AllowancesFit
<1>5. /\ Cardinality(Tokens) \in Nat
      /\ Cardinality(Tokens) <= BatchSize * Cardinality(Workers)
      /\ BatchSize * Cardinality(Workers) \in Nat
  BY <1>3, TokensAreBounded
<1> QED
  BY <1>3, <1>4, <1>5, ConstantsAssumption DEF CeilingInv

(* A step in which no worker may record more than before, and nothing is   *)
(* recorded.                                                               *)
LEMMA AllowanceKept ==
  ASSUME TypeOK, CeilingInv, recentSent' <= recentSent, recentSent' \in Nat,
         \A w \in Workers : Allowance(w)' \in Nat /\ Allowance(w)' <= Allowance(w)
  PROVE  CeilingInv'
<1>1. \A w \in Workers : Allowance(w) \in Nat /\ Allowance(w) <= BatchSize
  BY FiniteBatches DEF CeilingInv, AllowancesFit
<1>2. \A w \in Workers : Allowance(w)' <= BatchSize
  BY <1>1, ConstantsAssumption
<1>3. /\ Tokens' \in SUBSET Tokens
      /\ Tokens \in SUBSET ((1..BatchSize) \X Workers)
      /\ Tokens' \in SUBSET ((1..BatchSize) \X Workers)
  BY <1>1 DEF Tokens
<1>4. /\ IsFiniteSet(Tokens) /\ Cardinality(Tokens) \in Nat /\ Cardinality(Tokens') \in Nat
      /\ BatchSize * Cardinality(Workers) \in Nat
  BY <1>3, TokensAreBounded
<1>5. Cardinality(Tokens') <= Cardinality(Tokens)
  BY <1>3, <1>4, FS_Subset
<1>6. recentSent \in Nat
  BY DEF TypeOK
<1>7. MaxPerHour > 0 =>
        recentSent' + Cardinality(Tokens')
          <= (MaxPerHour - 1) + BatchSize * Cardinality(Workers)
  BY <1>4, <1>5, <1>6, ConstantsAssumption DEF CeilingInv
<1> QED
  BY <1>2, <1>7 DEF CeilingInv, AllowancesFit

(* A worker records one event, or fails to, and gives up a token. *)
LEMMA TokenSpent ==
  ASSUME TypeOK, CeilingInv, NEW w \in Workers,
         recentSent' \in Nat, recentSent' <= recentSent + 1,
         Allowance(w) > 0, Allowance(w)' = Allowance(w) - 1,
         \A v \in Workers \ {w} : Allowance(v)' = Allowance(v)
  PROVE  CeilingInv'
<1>1. \A v \in Workers : Allowance(v) \in Nat /\ Allowance(v) <= BatchSize
  BY FiniteBatches DEF CeilingInv, AllowancesFit
<1>2. \A v \in Workers : Allowance(v)' \in Nat /\ Allowance(v)' <= Allowance(v)
  BY <1>1
<1>3. \A v \in Workers : Allowance(v)' <= BatchSize
  BY <1>1, <1>2, ConstantsAssumption
<1> DEFINE spent == <<Allowance(w), w>>
<1>4. spent \in Tokens /\ spent \notin Tokens'
  BY <1>1, ConstantsAssumption DEF Tokens
<1>5. Tokens' \in SUBSET (Tokens \ {spent})
  <2>1. Tokens' \subseteq Tokens
    BY <1>1, <1>2 DEF Tokens
  <2> QED
    BY <1>4, <2>1
<1>6. Tokens \in SUBSET ((1..BatchSize) \X Workers)
      /\ Tokens' \in SUBSET ((1..BatchSize) \X Workers)
  BY DEF Tokens
<1>7. /\ IsFiniteSet(Tokens) /\ Cardinality(Tokens) \in Nat /\ Cardinality(Tokens') \in Nat
      /\ BatchSize * Cardinality(Workers) \in Nat
  BY <1>6, TokensAreBounded
<1> HIDE DEF spent
<1>8. IsFiniteSet(Tokens \ {spent}) /\ Cardinality(Tokens \ {spent}) = Cardinality(Tokens) - 1
  BY <1>4, <1>7, FS_RemoveElement
<1>9. Cardinality(Tokens') <= Cardinality(Tokens) - 1
  BY <1>5, <1>8, FS_Subset
<1>10. recentSent \in Nat
  BY DEF TypeOK
<1>11. MaxPerHour > 0 =>
         recentSent' + Cardinality(Tokens')
           <= (MaxPerHour - 1) + BatchSize * Cardinality(Workers)
  BY <1>7, <1>9, <1>10, ConstantsAssumption DEF CeilingInv
<1> QED
  BY <1>3, <1>11 DEF CeilingInv, AllowancesFit

(* Every action keeps what is recorded and what may still be recorded      *)
(* below the bound: only the check gives tokens, and it counts first.      *)
LEMMA NextCeiling ==
  TypeInv /\ TypeInv' /\ ClaimInv /\ CeilingInv /\ [Next]_vars => CeilingInv'
<1> SUFFICES ASSUME TypeInv, TypeInv', ClaimInv, CeilingInv, [Next]_vars PROVE CeilingInv'
  OBVIOUS
<1> USE DEF table, log, local, Goto, Leave
<1>n. /\ TypeOK /\ recentSent \in Nat /\ recentSent' \in Nat
      /\ pc \in [Workers -> Steps] /\ batch \in [Workers -> SUBSET Claimed]
  BY DEF TypeInv, TypeOK
<1>a. \A w \in Workers : /\ Allowance(w) \in Nat /\ Allowance(w)' \in Nat
                         /\ Cardinality(Unstarted(w)) \in Nat
                         /\ Allowance(w) <= BatchSize
  <2>1. \A w \in Workers : Unstarted(w)' \in SUBSET Messages
    BY DEF Unstarted, TypeInv, TypeOK, Claimed
  <2>2. \A w \in Workers : Allowance(w)' \in Nat
    BY <2>1, FiniteTable, ConstantsAssumption DEF Allowance
  <2> QED
    BY <1>n, <2>2, FiniteBatches DEF CeilingInv, AllowancesFit
<1>o. ASSUME NEW w \in Workers, pc'[w] = pc[w], batch'[w] = batch[w]
      PROVE  Allowance(w)' = Allowance(w)
  BY <1>o DEF Allowance, Unstarted
<1>z. ASSUME NEW w \in Workers, batch'[w] = {}, pc'[w] \in {"idle", "next"}
      PROVE  Allowance(w)' = 0
  <2>1. Unstarted(w)' = {}
    BY <1>z DEF Unstarted
  <2> QED
    BY <1>z, <2>1, FS_EmptySet DEF Allowance, InFlight
<1>q. ASSUME UNCHANGED local, recentSent' <= recentSent PROVE CeilingInv'
  <2>1. \A w \in Workers : Allowance(w)' = Allowance(w)
    BY <1>q, <1>o
  <2> QED
    BY <1>q, <1>n, <1>a, <2>1, AllowanceKept
<1>w. ASSUME NEW w \in Workers, recentSent' = recentSent,
             \A v \in Workers \ {w} : pc'[v] = pc[v] /\ batch'[v] = batch[v],
             Allowance(w)' <= Allowance(w)
      PROVE  CeilingInv'
  <2>1. \A v \in Workers : Allowance(v)' <= Allowance(v)
    BY <1>w, <1>o, <1>a
  <2>2. recentSent' <= recentSent
    BY <1>w, <1>n
  <2> QED
    BY <1>n, <1>a, <2>1, <2>2, AllowanceKept
<1>1. ASSUME NEW w \in Workers, CheckCeiling(w) PROVE CeilingInv'
  <2>1. MaxPerHour > 0 => recentSent <= MaxPerHour - 1
    BY <1>1, <1>n, ConstantsAssumption DEF CheckCeiling
  <2>2. /\ recentSent' = recentSent /\ pc'[w] = "claim"
        /\ \A v \in Workers \ {w} : pc'[v] = pc[v] /\ batch'[v] = batch[v]
    BY <1>1, <1>n DEF CheckCeiling
  <2>3. Allowance(w)' = BatchSize
    BY <2>2 DEF Allowance
  <2>4. \A v \in Workers : Allowance(v)' <= BatchSize
    BY <1>a, <1>o, <2>2, <2>3, ConstantsAssumption
  <2>5. Tokens' \in SUBSET ((1..BatchSize) \X Workers)
    BY DEF Tokens
  <2>6. /\ Cardinality(Tokens') \in Nat
        /\ Cardinality(Tokens') <= BatchSize * Cardinality(Workers)
        /\ BatchSize * Cardinality(Workers) \in Nat
    BY <2>5, TokensAreBounded
  <2>7. MaxPerHour > 0 =>
          recentSent' + Cardinality(Tokens')
            <= (MaxPerHour - 1) + BatchSize * Cardinality(Workers)
    BY <1>n, <2>1, <2>2, <2>6, ConstantsAssumption
  <2> QED
    BY <2>4, <2>7 DEF CeilingInv, AllowancesFit
<1>2. ASSUME NEW w \in Workers, Claim(w) PROVE CeilingInv'
  <2>1. PICK rows \in ClaimChoices(w) :
          batch' = [batch EXCEPT ![w] =
                      {[id |-> m, attempts |-> attempts[m] + 1] : m \in rows}]
    BY <1>2 DEF Claim
  <2>2. /\ recentSent' = recentSent /\ pc[w] = "claim" /\ pc'[w] = "next"
        /\ batch'[w] = {[id |-> m, attempts |-> attempts[m] + 1] : m \in rows}
        /\ \A v \in Workers \ {w} : pc'[v] = pc[v] /\ batch'[v] = batch[v]
    BY <1>2, <1>n, <2>1 DEF Claim
  <2>3. Unstarted(w)' = rows
    <3>1. Holds(w)' = rows
      BY <2>2, ClaimIsHeld
    <3> QED
      BY <2>2, <3>1 DEF Holds, Unstarted, InFlight
  <2>4. Allowance(w) = BatchSize /\ Allowance(w)' = Cardinality(rows)
    BY <2>2, <2>3 DEF Allowance, InFlight
  <2>5. Allowance(w)' <= Allowance(w)
    BY <2>4, ChoicesAreSmall
  <2> QED
    BY <1>w, <2>2, <2>5
<1>3. ASSUME NEW w \in Workers, TakeNext(w) PROVE CeilingInv'
  <2>1. PICK c \in batch[w] : batch' = [batch EXCEPT ![w] = batch[w] \ {c}]
    BY <1>3 DEF TakeNext
  <2>2. /\ recentSent' = recentSent /\ pc[w] = "next" /\ pc'[w] = "sign"
        /\ batch'[w] = batch[w] \ {c}
        /\ \A v \in Workers \ {w} : pc'[v] = pc[v] /\ batch'[v] = batch[v]
    BY <1>3, <1>n, <2>1 DEF TakeNext
  <2>3. ASSUME NEW d \in batch[w] \ {c} PROVE d.id # c.id
    <3>1. c \in Claimed /\ d \in Claimed
      BY <1>n
    <3>2. c.attempts = attempts[c.id] /\ d.attempts = attempts[d.id]
      BY DEF ClaimInv, ClaimsAreCurrent
    <3> QED
      BY <3>1, <3>2, SameClaim
  <2>4. Unstarted(w)' = Unstarted(w) \ {c.id} /\ c.id \in Unstarted(w)
    BY <2>2, <2>3 DEF Unstarted
  <2>5. IsFiniteSet(Unstarted(w)) /\ Cardinality(Unstarted(w)) \in Nat
    BY <1>n, FiniteBatches
  <2>6. Cardinality(Unstarted(w)') = Cardinality(Unstarted(w)) - 1
    BY <2>4, <2>5, FS_RemoveElement
  <2>7. Allowance(w)' = Cardinality(Unstarted(w)') + 1 /\ Allowance(w) = Cardinality(Unstarted(w))
    BY <2>2 DEF Allowance, InFlight
  <2>8. Allowance(w)' <= Allowance(w)
    BY <2>5, <2>6, <2>7
  <2> QED
    BY <1>w, <2>2, <2>8
<1>4. ASSUME NEW w \in Workers, Sign(w) \/ SignFails(w) \/ Send(w) \/ Suppress(w) \/ Update(w)
      PROVE  CeilingInv'
  <2>1. /\ recentSent' = recentSent /\ batch' = batch
        /\ pc[w] \in InFlight /\ pc'[w] \in InFlight \cup {"record"}
        /\ \A v \in Workers \ {w} : pc'[v] = pc[v] /\ batch'[v] = batch[v]
    BY <1>4, <1>n DEF Sign, SignFails, Send, Suppress, Update, InFlight
  <2>2. Allowance(w)' = Allowance(w)
    BY <2>1 DEF Allowance, Unstarted, InFlight
  <2>3. Allowance(w)' <= Allowance(w)
    BY <1>a, <2>2
  <2> QED
    BY <1>w, <2>1, <2>3
<1>5. ASSUME NEW w \in Workers, Publish(w) \/ PublishFails(w) PROVE CeilingInv'
  <2>1. /\ recentSent' = recentSent /\ batch' = batch
        /\ pc[w] = "publish" /\ pc'[w] = "next"
        /\ \A v \in Workers \ {w} : pc'[v] = pc[v] /\ batch'[v] = batch[v]
    BY <1>5, <1>n DEF Publish, PublishFails
  <2>2. Allowance(w)' = Allowance(w)
    BY <2>1 DEF Allowance, Unstarted, InFlight
  <2>3. Allowance(w)' <= Allowance(w)
    BY <1>a, <2>2
  <2> QED
    BY <1>w, <2>1, <2>3
<1>6. ASSUME NEW w \in Workers, ClaimLost(w) \/ BatchDone(w) \/ Crash(w) PROVE CeilingInv'
  <2>1. /\ recentSent' = recentSent /\ pc'[w] = "idle"
        /\ \A v \in Workers \ {w} : pc'[v] = pc[v] /\ batch'[v] = batch[v]
    BY <1>6, <1>n DEF ClaimLost, BatchDone, Crash
  <2>2. batch'[w] = {}
    BY <1>6, <1>n DEF ClaimLost, BatchDone, Crash, ClaimInv, ClaimsAreCurrent
  <2>3. Allowance(w)' <= Allowance(w)
    BY <1>a, <1>z, <2>1, <2>2
  <2> QED
    BY <1>w, <2>1, <2>3
<1>7. ASSUME NEW w \in Workers, UpdateFails(w) \/ Record(w) \/ RecordFails(w) PROVE CeilingInv'
  <2>1. /\ batch' = batch
        /\ pc[w] \in {"update", "record"} /\ pc'[w] \in {"publish", "next"}
        /\ \A v \in Workers \ {w} : pc'[v] = pc[v] /\ batch'[v] = batch[v]
    BY <1>7, <1>n DEF UpdateFails, Record, RecordFails
  <2>2. recentSent' <= recentSent + 1
    BY <1>7, <1>n DEF UpdateFails, Record, RecordFails, InsertEvent
  <2>3. /\ Allowance(w) = Cardinality(Unstarted(w)) + 1
        /\ Allowance(w)' = Cardinality(Unstarted(w))
    BY <2>1 DEF Allowance, Unstarted, InFlight
  <2>4. Allowance(w) > 0 /\ Allowance(w)' = Allowance(w) - 1
    BY <1>a, <2>3
  <2>5. \A v \in Workers \ {w} : Allowance(v)' = Allowance(v)
    BY <1>o, <2>1
  <2> QED
    BY <1>n, <2>2, <2>4, <2>5, TokenSpent
<1>8. CASE SentAgesOut
  BY <1>8, <1>n, <1>q DEF SentAgesOut
<1>9. ASSUME UNCHANGED local, recentSent' = recentSent PROVE CeilingInv'
  BY <1>9, <1>n, <1>q
<1> QED
  BY <1>1, <1>2, <1>3, <1>4, <1>5, <1>6, <1>7, <1>8, <1>9 DEF Next, Environment, Enqueue,
     ComesDue, LockExpires, WorkerStep, WorkerFault, vars

(* Each worker exceeds the hourly ceiling by at most the batch it claims   *)
(* after its check, however the workers' checks and claims interleave.     *)
THEOREM CeilingOvershootIsBounded == Spec => []CeilingOvershootBounded
<1>1. TypeInv /\ CeilingInv => CeilingOvershootBounded
  <2> SUFFICES ASSUME TypeInv, CeilingInv, MaxPerHour > 0
               PROVE  recentSent <= (MaxPerHour - 1) + BatchSize * Cardinality(Workers)
    BY DEF CeilingOvershootBounded
  <2>1. Tokens \in SUBSET ((1..BatchSize) \X Workers) /\ recentSent \in Nat
    BY DEF Tokens, TypeInv, TypeOK
  <2>2. Cardinality(Tokens) \in Nat /\ BatchSize * Cardinality(Workers) \in Nat
    BY <2>1, TokensAreBounded
  <2> QED
    BY <2>1, <2>2, ConstantsAssumption DEF CeilingInv
<1> QED
  BY <1>1, SafetyInvariant, NextType, InitCeiling, NextCeiling, PTL DEF Spec
-----------------------------------------------------------------------------
(* Webhook announcements. The event is stored before it is announced, so   *)
(* what is announced and what is about to be is covered by the log.        *)

Logged(m, t)    == {i \in 1..Len(events[m]) : events[m][i] = t}
Announced(m, t) == {p \in published : p.message = m /\ p.type = t}
AboutTo(m, t)   == {w \in Workers : pc[w] = "publish" /\ cur[w].id = m /\ verdict[w] = t}

BackedInv ==
  /\ IsFiniteSet(published)
  /\ \A m \in Messages, t \in Verdicts :
       Cardinality(Announced(m, t)) + Cardinality(AboutTo(m, t)) <= Cardinality(Logged(m, t))

(* A part of a finite set, and its size. *)
LEMMA FinitePart ==
  ASSUME NEW S, IsFiniteSet(S), NEW T \in SUBSET S
  PROVE  /\ IsFiniteSet(T) /\ Cardinality(T) \in Nat
         /\ Cardinality(S) \in Nat /\ Cardinality(T) <= Cardinality(S)
BY FS_Subset, FS_CardinalityType

(* The three sets are finite. *)
LEMMA FiniteCounts ==
  ASSUME TypeOK, BackedInv, NEW m \in Messages, NEW t \in Verdicts
  PROVE  /\ IsFiniteSet(Logged(m, t)) /\ Cardinality(Logged(m, t)) \in Nat
         /\ IsFiniteSet(Announced(m, t)) /\ Cardinality(Announced(m, t)) \in Nat
         /\ IsFiniteSet(AboutTo(m, t)) /\ Cardinality(AboutTo(m, t)) \in Nat
<1>1. Len(events[m]) \in Nat
  BY DEF TypeOK
<1>2. IsFiniteSet(1..Len(events[m])) /\ Logged(m, t) \in SUBSET (1..Len(events[m]))
  BY <1>1, FS_Interval DEF Logged
<1>3. IsFiniteSet(published) /\ Announced(m, t) \in SUBSET published
  BY DEF BackedInv, Announced
<1>4. IsFiniteSet(Workers) /\ AboutTo(m, t) \in SUBSET Workers
  BY ConstantsAssumption DEF AboutTo
<1> QED
  BY <1>2, <1>3, <1>4, FinitePart

(* The log starts empty, and nothing is announced. *)
LEMMA InitBacked == Init => BackedInv
<1> SUFFICES ASSUME Init, NEW m \in Messages, NEW t \in Verdicts
             PROVE  Cardinality(Announced(m, t)) + Cardinality(AboutTo(m, t))
                      <= Cardinality(Logged(m, t))
  BY FS_EmptySet DEF BackedInv, Init
<1>1. events[m] = <<>> /\ published = {}
  BY DEF Init
<1>2. Announced(m, t) = {} /\ AboutTo(m, t) = {}
  BY <1>1 DEF Init, Announced, AboutTo
<1>3. Logged(m, t) = {}
  BY <1>1 DEF Logged
<1> QED
  BY <1>2, <1>3, FS_EmptySet

(* A step that announces nothing, brings nobody to the point of announcing *)
(* and removes nothing from the log.                                       *)
LEMMA BackedKept ==
  ASSUME TypeOK, TypeOK', BackedInv, published' = published,
         \A m \in Messages, t \in Verdicts :
           AboutTo(m, t)' \subseteq AboutTo(m, t) /\ Logged(m, t) \subseteq Logged(m, t)'
  PROVE  BackedInv'
<1>1. ASSUME NEW m \in Messages, NEW t \in Verdicts
      PROVE  Cardinality(Announced(m, t)') + Cardinality(AboutTo(m, t)')
               <= Cardinality(Logged(m, t)')
  <2>1. Announced(m, t)' = Announced(m, t)
    BY DEF Announced
  <2>2. /\ Cardinality(AboutTo(m, t)') \in Nat
        /\ Cardinality(AboutTo(m, t)') <= Cardinality(AboutTo(m, t))
    BY FiniteCounts, FinitePart
  <2>3. /\ Cardinality(Logged(m, t)') \in Nat
        /\ Cardinality(Logged(m, t)) <= Cardinality(Logged(m, t)')
    <3>1. events'[m] \in Seq(Verdicts) /\ Len(events'[m]) \in Nat
      BY DEF TypeOK
    <3>2. IsFiniteSet(1..Len(events'[m])) /\ Logged(m, t)' \in SUBSET (1..Len(events'[m]))
      BY <3>1, FS_Interval DEF Logged
    <3> QED
      BY <3>2, FinitePart
  <2>4. Cardinality(Announced(m, t)) + Cardinality(AboutTo(m, t)) <= Cardinality(Logged(m, t))
    BY DEF BackedInv
  <2> QED
    BY <2>1, <2>2, <2>3, <2>4, FiniteCounts
<1> QED
  BY <1>1 DEF BackedInv

(* What RecordEvent's insert does to the log. *)
LEMMA InsertGrowsLog ==
  ASSUME TypeInv, NEW w \in Workers, pc[w] = "record", InsertEvent(w),
         NEW m \in Messages, NEW t \in Verdicts
  PROVE  /\ Logged(m, t) \subseteq Logged(m, t)'
         /\ m = cur[w].id /\ t = verdict[w] =>
              \E i : i \notin Logged(m, t) /\ Logged(m, t)' = Logged(m, t) \cup {i}
<1> DEFINE k == cur[w].id
           n == Len(events[k])
<1>1. k \in Messages /\ events[k] \in Seq(Verdicts) /\ verdict[w] \in Verdicts
  BY DEF TypeInv, TypeOK, CurIsClaim, Delivering, Claimed
<1>2. /\ n \in Nat
      /\ Len(Append(events[k], verdict[w])) = n + 1
      /\ \A i \in 1..n : Append(events[k], verdict[w])[i] = events[k][i]
      /\ Append(events[k], verdict[w])[n + 1] = verdict[w]
  BY <1>1
<1>3. /\ Len(events'[k]) = n + 1
      /\ \A i \in 1..n : events'[k][i] = events[k][i]
      /\ events'[k][n + 1] = verdict[w]
      /\ \A j \in Messages \ {k} : events'[j] = events[j]
  BY <1>1, <1>2 DEF InsertEvent, TypeInv, TypeOK
<1>4. CASE m # k
  BY <1>3, <1>4 DEF Logged
<1>5. CASE m = k
  <2>1. 1..(n + 1) = (1..n) \cup {n + 1} /\ n + 1 \notin 1..n
    BY <1>2
  <2>2. Logged(m, t)' = {i \in 1..(n + 1) : events'[k][i] = t}
    BY <1>3, <1>5 DEF Logged
  <2>3. Logged(m, t) = {i \in 1..n : events[k][i] = t}
    BY <1>5 DEF Logged
  <2>4. Logged(m, t) \subseteq Logged(m, t)' /\ n + 1 \notin Logged(m, t)
    BY <1>3, <2>1, <2>2, <2>3
  <2>5. t = verdict[w] => Logged(m, t)' = Logged(m, t) \cup {n + 1}
    BY <1>3, <2>1, <2>2, <2>3
  <2> QED
    BY <2>4, <2>5
<1> QED
  BY <1>4, <1>5

(* Every action keeps the log ahead of the announcements. *)
LEMMA NextBacked ==
  TypeInv /\ TypeInv' /\ BackedInv /\ [Next]_vars => BackedInv'
<1> SUFFICES ASSUME TypeInv, TypeInv', BackedInv, [Next]_vars PROVE BackedInv'
  OBVIOUS
<1> USE DEF table, log, local, Goto, Leave
<1>n. TypeOK /\ TypeOK'
  BY DEF TypeInv
<1>q. ASSUME events' = events, published' = published,
             \A w \in Workers : pc'[w] = "publish" =>
               pc[w] = "publish" /\ cur'[w] = cur[w] /\ verdict'[w] = verdict[w]
      PROVE  BackedInv'
  <2>1. ASSUME NEW m \in Messages, NEW t \in Verdicts
        PROVE  AboutTo(m, t)' \subseteq AboutTo(m, t) /\ Logged(m, t) \subseteq Logged(m, t)'
    BY <1>q DEF AboutTo, Logged
  <2> QED
    BY <1>n, <1>q, <2>1, BackedKept
<1>1. ASSUME NEW w \in Workers,
             CheckCeiling(w) \/ Claim(w) \/ ClaimLost(w) \/ TakeNext(w) \/ BatchDone(w)
             \/ Sign(w) \/ SignFails(w) \/ Send(w) \/ Suppress(w) \/ Update(w)
             \/ UpdateFails(w) \/ PublishFails(w) \/ Crash(w)
      PROVE  BackedInv'
  <2>1. /\ events' = events /\ published' = published /\ pc'[w] # "publish"
        /\ \A v \in Workers \ {w} :
             pc'[v] = pc[v] /\ cur'[v] = cur[v] /\ verdict'[v] = verdict[v]
    BY <1>1, <1>n DEF CheckCeiling, Claim, ClaimLost, TakeNext, BatchDone, Sign, SignFails,
       Send, Suppress, Update, UpdateFails, PublishFails, Crash, TypeOK
  <2> QED
    BY <1>q, <2>1
<1>2. ASSUME NEW w \in Workers, RecordFails(w) PROVE BackedInv'
  <2>1. /\ pc[w] = "record" /\ pc'[w] # "publish" /\ published' = published
        /\ \A v \in Workers \ {w} :
             pc'[v] = pc[v] /\ cur'[v] = cur[v] /\ verdict'[v] = verdict[v]
        /\ InsertEvent(w) \/ events' = events
    BY <1>2, <1>n DEF RecordFails, InsertEvent, TypeOK
  <2>2. ASSUME NEW m \in Messages, NEW t \in Verdicts
        PROVE  AboutTo(m, t)' \subseteq AboutTo(m, t) /\ Logged(m, t) \subseteq Logged(m, t)'
    <3>1. AboutTo(m, t)' \subseteq AboutTo(m, t)
      BY <2>1 DEF AboutTo
    <3>2. events' = events => Logged(m, t)' = Logged(m, t)
      BY DEF Logged
    <3> QED
      BY <2>1, <3>1, <3>2, InsertGrowsLog
  <2> QED
    BY <1>n, <2>1, <2>2, BackedKept
<1>3. ASSUME NEW w \in Workers, Record(w) PROVE BackedInv'
  <2>1. /\ pc[w] = "record" /\ pc'[w] = "publish" /\ published' = published
        /\ cur' = cur /\ verdict' = verdict /\ InsertEvent(w)
        /\ \A v \in Workers \ {w} : pc'[v] = pc[v]
    BY <1>3, <1>n DEF Record, InsertEvent, TypeOK
  <2>2. ASSUME NEW m \in Messages, NEW t \in Verdicts
        PROVE  Cardinality(Announced(m, t)') + Cardinality(AboutTo(m, t)')
                 <= Cardinality(Logged(m, t)')
    <3>1. Announced(m, t)' = Announced(m, t)
      BY <2>1 DEF Announced
    <3>2. Cardinality(Announced(m, t)) + Cardinality(AboutTo(m, t)) <= Cardinality(Logged(m, t))
      BY DEF BackedInv
    <3>3. CASE m = cur[w].id /\ t = verdict[w]
      <4>1. AboutTo(m, t)' = AboutTo(m, t) \cup {w} /\ w \notin AboutTo(m, t)
        BY <2>1, <3>3 DEF AboutTo
      <4>2. Cardinality(AboutTo(m, t)') = Cardinality(AboutTo(m, t)) + 1
        BY <1>n, <4>1, FiniteCounts, FS_AddElement
      <4>3. PICK i : i \notin Logged(m, t) /\ Logged(m, t)' = Logged(m, t) \cup {i}
        BY <2>1, <3>3, InsertGrowsLog
      <4>4. Cardinality(Logged(m, t)') = Cardinality(Logged(m, t)) + 1
        BY <1>n, <4>3, FiniteCounts, FS_AddElement
      <4> QED
        BY <1>n, <3>1, <3>2, <4>2, <4>4, FiniteCounts
    <3>4. CASE ~(m = cur[w].id /\ t = verdict[w])
      <4>1. AboutTo(m, t)' = AboutTo(m, t)
        BY <2>1, <3>4 DEF AboutTo
      <4>2. events'[m] \in Seq(Verdicts) /\ Len(events'[m]) \in Nat
        BY <1>n DEF TypeOK
      <4>3. IsFiniteSet(1..Len(events'[m])) /\ Logged(m, t)' \in SUBSET (1..Len(events'[m]))
        BY <4>2, FS_Interval DEF Logged
      <4>4. Logged(m, t) \subseteq Logged(m, t)'
        BY <2>1, InsertGrowsLog
      <4>5. /\ Cardinality(Logged(m, t)') \in Nat
            /\ Cardinality(Logged(m, t)) <= Cardinality(Logged(m, t)')
        BY <4>3, <4>4, FinitePart
      <4> QED
        BY <1>n, <3>1, <3>2, <4>1, <4>5, FiniteCounts
    <3> QED
      BY <3>3, <3>4
  <2> QED
    BY <2>1, <2>2 DEF BackedInv
<1>4. ASSUME NEW w \in Workers, Publish(w) PROVE BackedInv'
  <2>1. /\ pc[w] = "publish" /\ pc'[w] = "next" /\ events' = events
        /\ published' = published \cup {EventId(w)}
        /\ \A v \in Workers \ {w} :
             pc'[v] = pc[v] /\ cur'[v] = cur[v] /\ verdict'[v] = verdict[v]
    BY <1>4, <1>n DEF Publish, TypeOK
  <2>2. IsFiniteSet(published')
    BY <2>1, FS_AddElement DEF BackedInv
  <2>3. ASSUME NEW m \in Messages, NEW t \in Verdicts
        PROVE  Cardinality(Announced(m, t)') + Cardinality(AboutTo(m, t)')
                 <= Cardinality(Logged(m, t)')
    <3>1. Logged(m, t)' = Logged(m, t)
      BY <2>1 DEF Logged
    <3>2. Cardinality(Announced(m, t)) + Cardinality(AboutTo(m, t)) <= Cardinality(Logged(m, t))
      BY DEF BackedInv
    <3>3. AboutTo(m, t)' = AboutTo(m, t) \ {w}
      BY <2>1 DEF AboutTo
    <3>4. CASE m = cur[w].id /\ t = verdict[w]
      <4>1. Announced(m, t)' = Announced(m, t) \cup {EventId(w)} /\ w \in AboutTo(m, t)
        BY <2>1, <3>4 DEF Announced, AboutTo, EventId
      <4>2. Cardinality(AboutTo(m, t)') = Cardinality(AboutTo(m, t)) - 1
        BY <1>n, <3>3, <4>1, FiniteCounts, FS_RemoveElement
      <4>3. Cardinality(Announced(m, t)')
              \in {Cardinality(Announced(m, t)), Cardinality(Announced(m, t)) + 1}
        BY <1>n, <4>1, FiniteCounts, FS_AddElement
      <4> QED
        BY <1>n, <3>1, <3>2, <4>2, <4>3, FiniteCounts
    <3>5. CASE ~(m = cur[w].id /\ t = verdict[w])
      <4>1. Announced(m, t)' = Announced(m, t) /\ AboutTo(m, t)' = AboutTo(m, t)
        BY <2>1, <3>3, <3>5 DEF Announced, AboutTo, EventId
      <4> QED
        BY <3>1, <3>2, <4>1
    <3> QED
      BY <3>4, <3>5
  <2> QED
    BY <2>2, <2>3 DEF BackedInv
<1>5. ASSUME events' = events, published' = published, UNCHANGED local PROVE BackedInv'
  BY <1>5, <1>q
<1> QED
  BY <1>1, <1>2, <1>3, <1>4, <1>5 DEF Next, Environment, Enqueue, ComesDue, LockExpires,
     SentAgesOut, WorkerStep, WorkerFault, vars

(* Every webhook announcement stands for an event of its own in the log.   *)
THEOREM AnnouncementsAreBacked == Spec => []WebhookBackedByEvent
<1>1. TypeInv /\ BackedInv => WebhookBackedByEvent
  <2> SUFFICES ASSUME TypeInv, BackedInv, NEW m \in Messages, NEW t \in Verdicts
               PROVE  Cardinality(Announced(m, t)) <= Cardinality(Logged(m, t))
    BY DEF WebhookBackedByEvent, Announced, Logged
  <2>1. Cardinality(Announced(m, t)) + Cardinality(AboutTo(m, t)) <= Cardinality(Logged(m, t))
    BY DEF BackedInv
  <2>2. TypeOK
    BY DEF TypeInv
  <2> QED
    BY <2>1, <2>2, FiniteCounts
<1> QED
  BY <1>1, SafetyInvariant, NextType, InitBacked, NextBacked, PTL DEF Spec
-----------------------------------------------------------------------------
(* Silenced verdicts. Between the UPDATE of a verdict and its announcement *)
(* the worker has the message in hand, so a fault silences that message    *)
(* and no other.                                                           *)

(* A step of one worker can silence only the message it has in hand.       *)
LEMMA OnlyCurSilenced ==
  ASSUME NEW w \in Workers,
         \A v \in Workers \ {w} :
           pc'[v] = pc[v] /\ cur'[v] = cur[v] /\ verdict'[v] = verdict[v],
         published \subseteq published',
         \A m \in Messages \ {cur[w].id} : status'[m] \in Final => status'[m] = status[m]
  PROVE  Silent' \subseteq Silent \cup {cur[w].id}
<1> SUFFICES ASSUME NEW m \in Silent', m # cur[w].id PROVE m \in Silent
  OBVIOUS
<1>1. m \in Messages /\ status'[m] \in Final /\ status'[m] = status[m]
  BY DEF Silent
<1>2. ~VerdictAnnounced(m)
  BY <1>1 DEF Silent, VerdictAnnounced
<1>3. \A v \in Workers : ~WillAnnounce(v, m)
  BY <1>1 DEF Silent, WillAnnounce
<1> QED
  BY <1>1, <1>2, <1>3 DEF Silent

(* A step that silences nothing. *)
LEMMA NothingSilenced ==
  ASSUME SilentOnlyByFaults, Silent' \subseteq Silent, faults' = faults, faults \in Nat
  PROVE  SilentOnlyByFaults'
<1>1. Silent \in SUBSET Messages
  BY DEF Silent
<1>2. /\ IsFiniteSet(Silent) /\ Cardinality(Silent) \in Nat
      /\ Cardinality(Silent') \in Nat
  BY <1>1, FiniteTable
<1>3. Cardinality(Silent') <= Cardinality(Silent)
  BY <1>2, FS_Subset
<1> QED
  BY <1>2, <1>3 DEF SilentOnlyByFaults

(* A fault that silences at most one verdict. *)
LEMMA OneSilenced ==
  ASSUME SilentOnlyByFaults, NEW k, Silent' \subseteq Silent \cup {k},
         faults' = faults + 1, faults \in Nat
  PROVE  SilentOnlyByFaults'
<1>1. Silent \in SUBSET Messages
  BY DEF Silent
<1>2. /\ IsFiniteSet(Silent) /\ IsFiniteSet(Silent \cup {k})
      /\ Cardinality(Silent) \in Nat /\ Cardinality(Silent \cup {k}) <= Cardinality(Silent) + 1
      /\ Cardinality(Silent \cup {k}) \in Nat
  BY <1>1, FiniteTable, FS_AddElement
<1>3. Cardinality(Silent') <= Cardinality(Silent \cup {k}) /\ Cardinality(Silent') \in Nat
  BY <1>2, FS_Subset, FS_CardinalityType
<1> QED
  BY <1>2, <1>3 DEF SilentOnlyByFaults

(* No verdict is silent at the start. *)
LEMMA InitSilent == Init => SilentOnlyByFaults
<1> SUFFICES ASSUME Init PROVE SilentOnlyByFaults
  OBVIOUS
<1>1. Silent = {}
  BY DEF Init, Silent, Final
<1> QED
  BY <1>1, FS_EmptySet DEF Init, SilentOnlyByFaults

(* Every action keeps every silent verdict paid for by a fault.            *)
LEMMA NextSilent ==
  TypeInv /\ ClaimInv /\ SilentOnlyByFaults /\ [Next]_vars => SilentOnlyByFaults'
<1> SUFFICES ASSUME TypeInv, ClaimInv, SilentOnlyByFaults, [Next]_vars
             PROVE  SilentOnlyByFaults'
  OBVIOUS
<1> USE DEF table, log, local, Goto, Leave
<1>f. faults \in Nat
  BY ConstantsAssumption DEF TypeInv, TypeOK
<1>q. ASSUME UNCHANGED <<published, pc, cur, verdict, faults>>,
             \A m \in Messages : status'[m] \in Final => status'[m] = status[m]
      PROVE  SilentOnlyByFaults'
  <2>1. Silent' \subseteq Silent
    BY <1>q DEF Silent, VerdictAnnounced, WillAnnounce
  <2> QED
    BY <1>q, <1>f, <2>1, NothingSilenced
<1>e. ASSUME NEW m \in Messages, Enqueue(m) PROVE SilentOnlyByFaults'
  BY <1>e, <1>q DEF Enqueue, TypeInv, TypeOK, Final
<1>1. ASSUME NEW w \in Workers, Claim(w) \/ ClaimLost(w)
      PROVE  /\ \A v \in Workers \ {w} :
                  pc'[v] = pc[v] /\ cur'[v] = cur[v] /\ verdict'[v] = verdict[v]
             /\ published' = published /\ pc[w] = "claim"
             /\ \A m \in Messages : status'[m] \in Final => status'[m] = status[m]
  BY <1>1 DEF Claim, ClaimLost, ClaimRows, TypeInv, TypeOK, Final
<1>2. ASSUME NEW w \in Workers, Claim(w) PROVE SilentOnlyByFaults'
  <2>1. Silent' \subseteq Silent
    BY <1>1, <1>2 DEF Silent, VerdictAnnounced, WillAnnounce
  <2> QED
    BY <1>2, <1>f, <2>1, NothingSilenced DEF Claim
<1>3. ASSUME NEW w \in Workers,
             CheckCeiling(w) \/ TakeNext(w) \/ BatchDone(w) \/ Sign(w) \/ SignFails(w)
             \/ Send(w) \/ Suppress(w)
      PROVE  SilentOnlyByFaults'
  <2>1. /\ UNCHANGED <<status, published, faults>>
        /\ pc[w] \notin {"record", "publish"}
        /\ \A v \in Workers \ {w} :
             pc'[v] = pc[v] /\ cur'[v] = cur[v] /\ verdict'[v] = verdict[v]
    BY <1>3 DEF CheckCeiling, TakeNext, BatchDone, Sign, SignFails, Send, Suppress,
       TypeInv, TypeOK
  <2>2. Silent' \subseteq Silent
    BY <2>1 DEF Silent, VerdictAnnounced, WillAnnounce
  <2> QED
    BY <1>f, <2>1, <2>2, NothingSilenced
<1>4. ASSUME NEW w \in Workers, Update(w) PROVE SilentOnlyByFaults'
  <2> DEFINE k == cur[w].id
  <2>1. /\ pc[w] = "update" /\ pc'[w] = "record" /\ UNCHANGED <<published, cur, verdict, faults>>
        /\ \A v \in Workers \ {w} : pc'[v] = pc[v]
    BY <1>4 DEF Update, TypeInv, TypeOK
  <2>2. k \in Messages /\ status' = [status EXCEPT ![k] = verdict[w]]
    BY <1>4, <2>1 DEF Update, WriteVerdict, TypeInv, TypeOK, CurIsClaim, Delivering, InFlight,
       Claimed
  <2>3. Silent' \subseteq Silent \cup {k}
    BY <2>1, <2>2, OnlyCurSilenced DEF TypeInv, TypeOK
  <2>4. k \notin Silent'
    BY <2>1, <2>2 DEF Silent, WillAnnounce, TypeInv, TypeOK
  <2>5. Silent' \subseteq Silent
    BY <2>3, <2>4
  <2> QED
    BY <1>f, <2>1, <2>5, NothingSilenced
<1>5. ASSUME NEW w \in Workers, Record(w) PROVE SilentOnlyByFaults'
  <2>1. /\ pc[w] = "record" /\ pc'[w] = "publish"
        /\ UNCHANGED <<status, published, cur, verdict, faults>>
        /\ \A v \in Workers \ {w} : pc'[v] = pc[v]
    BY <1>5 DEF Record, InsertEvent, TypeInv, TypeOK
  <2>2. Silent' \subseteq Silent
    BY <2>1 DEF Silent, VerdictAnnounced, WillAnnounce
  <2> QED
    BY <1>f, <2>1, <2>2, NothingSilenced
<1>6. ASSUME NEW w \in Workers, Publish(w) PROVE SilentOnlyByFaults'
  <2>1. /\ pc[w] = "publish" /\ published' = published \cup {EventId(w)}
        /\ UNCHANGED <<status, faults>>
        /\ \A v \in Workers \ {w} :
             pc'[v] = pc[v] /\ cur'[v] = cur[v] /\ verdict'[v] = verdict[v]
    BY <1>6 DEF Publish, TypeInv, TypeOK
  <2>2. ASSUME NEW m \in Silent' PROVE m \in Silent
    <3>1. m \in Messages /\ status[m] \in Final /\ ~VerdictAnnounced(m)
      BY <2>1 DEF Silent, VerdictAnnounced
    <3>2. ~WillAnnounce(w, m)
      <4> SUFFICES ASSUME WillAnnounce(w, m) PROVE VerdictAnnounced(m)'
        BY DEF Silent
      <4>1. EventId(w) \in published' /\ EventId(w).message = m /\ EventId(w).type = status'[m]
        BY <2>1 DEF WillAnnounce, EventId
      <4> QED
        BY <4>1 DEF VerdictAnnounced
    <3>3. \A v \in Workers \ {w} : ~WillAnnounce(v, m)
      BY <2>1 DEF Silent, WillAnnounce
    <3> QED
      BY <3>1, <3>2, <3>3 DEF Silent
  <2> QED
    BY <1>f, <2>1, <2>2, NothingSilenced
<1>7. ASSUME NEW w \in Workers, WorkerFault(w) PROVE SilentOnlyByFaults'
  <2>1. faults' = faults + 1
    BY <1>7 DEF WorkerFault, ClaimLost, UpdateFails, RecordFails, PublishFails, Crash, Fault
  <2>2. /\ published' = published
        /\ \A v \in Workers \ {w} :
             pc'[v] = pc[v] /\ cur'[v] = cur[v] /\ verdict'[v] = verdict[v]
    BY <1>7, <1>1 DEF WorkerFault, UpdateFails, RecordFails, PublishFails, Crash, InsertEvent,
       TypeInv, TypeOK
  <2>3. \A m \in Messages \ {cur[w].id} : status'[m] \in Final => status'[m] = status[m]
    <3>1. CASE ClaimLost(w)
      BY <1>1, <3>1
    <3>2. CASE UpdateFails(w)
      BY <3>2 DEF UpdateFails, WriteVerdict, TypeInv, TypeOK
    <3>3. CASE RecordFails(w) \/ PublishFails(w) \/ Crash(w)
      BY <3>3 DEF RecordFails, PublishFails, Crash
    <3> QED
      BY <1>7, <3>1, <3>2, <3>3 DEF WorkerFault
  <2>4. Silent' \subseteq Silent \cup {cur[w].id}
    BY <2>2, <2>3, OnlyCurSilenced
  <2> QED
    BY <1>f, <2>1, <2>4, OneSilenced
<1> QED
  BY <1>q, <1>e, <1>2, <1>3, <1>4, <1>5, <1>6, <1>7 DEF Next, Environment, ComesDue,
     LockExpires, SentAgesOut, WorkerStep, vars

(* Each fault leaves at most one verdict unannounced, and without a fault  *)
(* none goes unannounced.                                                  *)
THEOREM SilenceNeedsFaults == Spec => []SilentOnlyByFaults
BY SafetyInvariant, InitSilent, NextSilent, PTL DEF Spec
=============================================================================
