------------------------ MODULE WebhookDispatchProofs ------------------------
(***************************************************************************)
(* Proofs about WebhookDispatch, for any number of dispatchers and faults, *)
(* any finite sets of endpoints and events, any batch size and any limit   *)
(* on tries.                                                               *)
(***************************************************************************)
EXTENDS WebhookDispatch, FiniteSetTheorems, TLAPS

InFlight == {"send", "mark"}

(* Every row a claim may take is one its inner SELECT accepts. *)
LEMMA ChoicesAreClaimable ==
  ASSUME NEW rows \in ClaimChoices
  PROVE  rows \subseteq Claimable
BY DEF ClaimChoices

-----------------------------------------------------------------------------
(* Type correctness. cur is a delivery from TakeNext until deliver returns. *)

CurIsDelivery == \A w \in Dispatchers : pc[w] \in InFlight => cur[w] \in Deliveries

TypeInv == TypeOK /\ CurIsDelivery

(* Dispatchers start between batches, with no delivery in hand. *)
LEMMA InitType == Init => TypeInv
BY DispatchAssumption DEF Init, TypeInv, TypeOK, CurIsDelivery, InFlight, Verdicts, Final

(* Every action keeps the state typed and its dispatcher on a delivery.    *)
LEMMA NextType == TypeInv /\ [Next]_vars => TypeInv'
<1> SUFFICES ASSUME TypeInv, [Next]_vars PROVE TypeInv'
  OBVIOUS
<1> USE DispatchAssumption DEF TypeInv, TypeOK, CurIsDelivery, InFlight, table, local,
        Goto, Leave
<1>1. ASSUME NEW e \in Endpoints, CreateEndpoint(e) PROVE TypeInv'
  BY <1>1 DEF CreateEndpoint
<1>2. ASSUME NEW ev \in Events, EnqueueDelivery(ev) PROVE TypeInv'
  BY <1>2 DEF EnqueueDelivery, Verdicts
<1>3. ASSUME NEW d \in Deliveries, ComesDue(d) \/ LockExpires(d) PROVE TypeInv'
  BY <1>3 DEF ComesDue, LockExpires
<1>4. ASSUME NEW rows \in ClaimChoices, ClaimRows(rows)
      PROVE  /\ status' \in [Deliveries -> {"none", "delivering"} \cup Verdicts]
             /\ tries' \in [Deliveries -> Nat]
             /\ lock' \in [Deliveries -> {"null", "held", "expired"}]
             /\ due' = due
             /\ {<<d, tries[d] + 1>> : d \in rows} \subseteq Deliveries \X Nat
  BY <1>4, ChoicesAreClaimable DEF ClaimRows, Claimable
<1>5. ASSUME NEW w \in Dispatchers, ClaimDeliveries(w) PROVE TypeInv'
  BY <1>5, <1>4 DEF ClaimDeliveries
<1>6. ASSUME NEW w \in Dispatchers, ClaimLost(w) PROVE TypeInv'
  BY <1>6, <1>4 DEF ClaimLost, Fault
<1>7. ASSUME NEW w \in Dispatchers, TakeNext(w) PROVE TypeInv'
  BY <1>7 DEF TakeNext
<1>8. ASSUME NEW w \in Dispatchers, BatchDone(w) PROVE TypeInv'
  BY <1>8 DEF BatchDone
<1>9. ASSUME NEW w \in Dispatchers, Send(w) PROVE TypeInv'
  BY <1>9 DEF Send, Outcome, Verdicts, Final
<1>10. ASSUME NEW w \in Dispatchers, pc[w] = "mark", WriteVerdict(w)
       PROVE  /\ status' \in [Deliveries -> {"none", "delivering"} \cup Verdicts]
              /\ lock' \in [Deliveries -> {"null", "held", "expired"}]
              /\ due' \in [Deliveries -> BOOLEAN]
              /\ tries' = tries
  BY <1>10 DEF WriteVerdict
<1>11. ASSUME NEW w \in Dispatchers, Mark(w) PROVE TypeInv'
  BY <1>11, <1>10 DEF Mark, Verdicts, Final
<1>12. ASSUME NEW w \in Dispatchers, MarkFails(w) PROVE TypeInv'
  BY <1>12, <1>10 DEF MarkFails, Fault, Verdicts, Final
<1>13. ASSUME NEW w \in Dispatchers, Crash(w) PROVE TypeInv'
  BY <1>13 DEF Crash, Fault, Verdicts, Final
<1>14. CASE UNCHANGED vars
  BY <1>14 DEF vars
<1> QED
  BY <1>1, <1>2, <1>3, <1>5, <1>6, <1>7, <1>8, <1>9, <1>11, <1>12, <1>13, <1>14
     DEF Next, Environment, DispatcherStep, DispatcherFault

-----------------------------------------------------------------------------
(* Exclusive dispatch. Except for a claim, no step adds to what a          *)
(* dispatcher holds; a claim adds only rows that wait, which nobody holds. *)

(* What a dispatcher remembers of a claimed row is still what the row      *)
(* says, it holds nothing between batches and no delivery twice.           *)
ClaimsAreCurrent ==
  \A w \in Dispatchers :
    /\ pc[w] = "claim" => batch[w] = {}
    /\ \A c \in batch[w] : c[2] = tries[c[1]]
    /\ pc[w] \in InFlight => /\ seen[w] = tries[cur[w]]
                             /\ \A c \in batch[w] : c[1] # cur[w]

ClaimInv == ExclusiveDispatch /\ ClaimsAreCurrent

(* No dispatcher starts with a claim. *)
LEMMA InitClaims == Init => ClaimInv
BY DEF Init, ClaimInv, ExclusiveDispatch, ClaimsAreCurrent, Holds, InFlight

(* What is held is a row of the table. *)
LEMMA HeldAreDeliveries ==
  ASSUME TypeInv, NEW w \in Dispatchers
  PROVE  Holds(w) \subseteq Deliveries
BY DEF TypeInv, TypeOK, CurIsDelivery, InFlight, Holds

(* A step that lets no dispatcher hold more and changes no row still held. *)
LEMMA HoldsShrink ==
  ASSUME ClaimInv,
         \A w \in Dispatchers : Holds(w)' \subseteq Holds(w),
         \A w \in Dispatchers : \A d \in Holds(w)' : status'[d] = status[d]
  PROVE  ExclusiveDispatch'
BY DEF ClaimInv, ExclusiveDispatch

(* What a claim takes was held by nobody, and what is held keeps its row.  *)
LEMMA ClaimTakesFreeRows ==
  ASSUME TypeInv, ClaimInv, NEW rows \in ClaimChoices, ClaimRows(rows)
  PROVE  /\ rows \subseteq Deliveries
         /\ \A d \in rows : status[d] = "pending"
         /\ \A d \in rows : status'[d] = "delivering" /\ tries'[d] = tries[d] + 1
         /\ \A v \in Dispatchers : Holds(v) \cap rows = {}
         /\ \A v \in Dispatchers : \A d \in Holds(v) :
              status'[d] = status[d] /\ tries'[d] = tries[d]
<1>1. rows \subseteq Deliveries /\ \A d \in rows : status[d] = "pending"
  BY ChoicesAreClaimable DEF Claimable
<1>2. \A v \in Dispatchers : Holds(v) \cap rows = {}
  BY <1>1 DEF ClaimInv, ExclusiveDispatch
<1>3. \A v \in Dispatchers : Holds(v) \subseteq Deliveries
  BY HeldAreDeliveries
<1> QED
  BY <1>1, <1>2, <1>3 DEF ClaimRows

(* A dispatcher that has read its claim holds exactly the rows it took.    *)
LEMMA ClaimIsHeld ==
  ASSUME TypeInv, NEW w \in Dispatchers, NEW rows, pc'[w] = "next",
         batch'[w] = {<<d, tries[d] + 1>> : d \in rows}
  PROVE  Holds(w)' = rows
<1> DEFINE new == {<<d, tries[d] + 1>> : d \in rows}
<1>1. ASSUME NEW d \in rows PROVE \E c \in new : c[1] = d
  <2> WITNESS <<d, tries[d] + 1>> \in new
  <2> QED
    OBVIOUS
<1>2. \A c \in new : c[1] \in rows
  OBVIOUS
<1>3. Holds(w)' = {c[1] : c \in new}
  BY DEF Holds
<1> HIDE DEF new
<1> QED
  BY <1>1, <1>2, <1>3

(* Every action keeps claims exclusive and current. *)
LEMMA NextClaims == TypeInv /\ ClaimInv /\ [Next]_vars => ClaimInv'
<1> SUFFICES ASSUME TypeInv, ClaimInv, [Next]_vars PROVE ClaimInv'
  OBVIOUS
<1> USE DEF TypeInv, TypeOK, table, local, Goto, Leave, InFlight
<1>e. ASSUME NEW ev \in Events, EnqueueDelivery(ev) PROVE ClaimInv'
  <2>1. \A w \in Dispatchers : Holds(w)' = Holds(w) /\ Holds(w) \subseteq Deliveries
    BY <1>e, HeldAreDeliveries DEF EnqueueDelivery, Holds
  <2>2. \A w \in Dispatchers : \A d \in Holds(w) : status'[d] = status[d]
    BY <1>e, <2>1 DEF EnqueueDelivery, ClaimInv, ExclusiveDispatch
  <2>3. ExclusiveDispatch'
    BY <2>1, <2>2, HoldsShrink
  <2> QED
    BY <1>e, <2>3 DEF EnqueueDelivery, ClaimInv, ClaimsAreCurrent
<1>t. ASSUME UNCHANGED <<status, tries, local>> PROVE ClaimInv'
  <2>1. \A w \in Dispatchers : Holds(w)' = Holds(w)
    BY <1>t DEF Holds
  <2> QED
    BY <1>t, <2>1, HoldsShrink DEF ClaimInv, ClaimsAreCurrent
<1>1. ASSUME NEW w \in Dispatchers, ClaimDeliveries(w) PROVE ClaimInv'
  <2>1. PICK rows \in ClaimChoices :
          /\ ClaimRows(rows)
          /\ batch' = [batch EXCEPT ![w] = {<<d, tries[d] + 1>> : d \in rows}]
    BY <1>1 DEF ClaimDeliveries
  <2>2. pc[w] = "claim" /\ pc' = [pc EXCEPT ![w] = "next"] /\ UNCHANGED <<cur, seen>>
    BY <1>1 DEF ClaimDeliveries
  <2>3. Holds(w)' = rows
    BY <2>1, <2>2, ClaimIsHeld
  <2>4. \A v \in Dispatchers \ {w} : Holds(v)' = Holds(v)
    BY <2>1, <2>2 DEF Holds
  <2>5. ASSUME NEW u \in Dispatchers, NEW v \in Dispatchers, u # v
        PROVE  Holds(u)' \cap Holds(v)' = {}
    <3>1. CASE u # w /\ v # w
      BY <2>4, <2>5, <3>1 DEF ClaimInv, ExclusiveDispatch
    <3>2. CASE u = w
      BY <2>1, <2>3, <2>4, <2>5, <3>2, ClaimTakesFreeRows
    <3>3. CASE v = w
      BY <2>1, <2>3, <2>4, <2>5, <3>3, ClaimTakesFreeRows
    <3> QED
      BY <3>1, <3>2, <3>3
  <2>6. ASSUME NEW v \in Dispatchers, NEW d \in Holds(v)' PROVE status'[d] = "delivering"
    <3>1. CASE v # w
      BY <2>1, <2>4, <2>6, <3>1, ClaimTakesFreeRows DEF ClaimInv, ExclusiveDispatch
    <3>2. CASE v = w
      BY <2>1, <2>3, <2>6, <3>2, ClaimTakesFreeRows
    <3> QED
      BY <3>1, <3>2
  <2>7. ExclusiveDispatch'
    BY <2>5, <2>6 DEF ExclusiveDispatch
  <2>8. \A v \in Dispatchers \ {w} : \A c \in batch'[v] : c[2] = tries'[c[1]]
    BY <2>1, <2>2, ClaimTakesFreeRows DEF ClaimInv, ClaimsAreCurrent, Holds
  <2>9. \A c \in batch'[w] : c[2] = tries'[c[1]]
    BY <2>1, <2>2, ClaimTakesFreeRows
  <2>10. \A v \in Dispatchers : pc'[v] \in InFlight => seen'[v] = tries'[cur'[v]]
    BY <2>1, <2>2, ClaimTakesFreeRows DEF ClaimInv, ClaimsAreCurrent, Holds
  <2> QED
    BY <2>1, <2>2, <2>7, <2>8, <2>9, <2>10 DEF ClaimInv, ClaimsAreCurrent
<1>2. ASSUME NEW w \in Dispatchers, ClaimLost(w) PROVE ClaimInv'
  <2>1. PICK rows \in ClaimChoices : ClaimRows(rows)
    BY <1>2 DEF ClaimLost
  <2>2. UNCHANGED local
    BY <1>2 DEF ClaimLost
  <2>3. \A v \in Dispatchers : Holds(v)' = Holds(v)
    BY <2>2 DEF Holds
  <2>4. ExclusiveDispatch'
    BY <2>1, <2>3, HoldsShrink, ClaimTakesFreeRows
  <2> QED
    BY <2>1, <2>2, <2>4, ClaimTakesFreeRows DEF ClaimInv, ClaimsAreCurrent, Holds
<1>3. ASSUME NEW w \in Dispatchers, TakeNext(w) PROVE ClaimInv'
  <2>1. PICK c \in batch[w] : /\ cur' = [cur EXCEPT ![w] = c[1]]
                             /\ seen' = [seen EXCEPT ![w] = c[2]]
                             /\ batch' = [batch EXCEPT ![w] = batch[w] \ {c}]
    BY <1>3 DEF TakeNext
  <2>2. /\ pc[w] = "next" /\ pc' = [pc EXCEPT ![w] = "send"]
        /\ UNCHANGED <<status, tries>>
    BY <1>3 DEF TakeNext
  <2>3. \A v \in Dispatchers : Holds(v)' \subseteq Holds(v)
    BY <2>1, <2>2 DEF Holds
  <2>4. ASSUME NEW b \in batch[w] \ {c} PROVE b[1] # c[1]
    <3>1. c \in Deliveries \X Nat /\ b \in Deliveries \X Nat
      OBVIOUS
    <3>2. c[2] = tries[c[1]] /\ b[2] = tries[b[1]]
      BY DEF ClaimInv, ClaimsAreCurrent
    <3> QED
      BY <3>1, <3>2
  <2>5. c[2] = tries[c[1]]
    BY DEF ClaimInv, ClaimsAreCurrent
  <2> QED
    BY <2>1, <2>2, <2>3, <2>4, <2>5, HoldsShrink DEF ClaimInv, ClaimsAreCurrent
<1>4. ASSUME NEW w \in Dispatchers, BatchDone(w) \/ Send(w) PROVE ClaimInv'
  <2>1. /\ UNCHANGED <<status, tries, batch, cur, seen>>
        /\ \/ pc[w] = "next" /\ batch[w] = {} /\ pc' = [pc EXCEPT ![w] = "claim"]
           \/ pc[w] = "send" /\ pc' = [pc EXCEPT ![w] = "mark"]
    BY <1>4 DEF BatchDone, Send
  <2>2. \A v \in Dispatchers : Holds(v)' \subseteq Holds(v)
    BY <2>1 DEF Holds
  <2> QED
    BY <2>1, <2>2, HoldsShrink DEF ClaimInv, ClaimsAreCurrent
<1>5. ASSUME NEW w \in Dispatchers, Mark(w) \/ MarkFails(w) PROVE ClaimInv'
  <2>1. /\ pc[w] = "mark" /\ pc' = [pc EXCEPT ![w] = "next"]
        /\ tries' = tries /\ batch' = batch
        /\ \A v \in Dispatchers \ {w} : cur'[v] = cur[v] /\ seen'[v] = seen[v]
        /\ \A d \in Deliveries \ {cur[w]} : status'[d] = status[d]
    BY <1>5 DEF Mark, MarkFails, WriteVerdict
  <2>2. \A v \in Dispatchers \ {w} : Holds(v)' = Holds(v)
    BY <2>1 DEF Holds
  <2>3. /\ Holds(w)' \subseteq Holds(w)
        /\ cur[w] \in Holds(w) /\ cur[w] \notin Holds(w)'
    BY <2>1 DEF Holds, ClaimInv, ClaimsAreCurrent
  <2>4. \A v \in Dispatchers : Holds(v)' \subseteq Holds(v)
    BY <2>2, <2>3
  <2>5. \A v \in Dispatchers : cur[w] \notin Holds(v)'
    BY <2>2, <2>3 DEF ClaimInv, ExclusiveDispatch
  <2>6. ExclusiveDispatch'
    BY <2>1, <2>4, <2>5, HoldsShrink, HeldAreDeliveries
  <2> QED
    BY <2>1, <2>6 DEF ClaimInv, ClaimsAreCurrent
<1>6. ASSUME NEW w \in Dispatchers, Crash(w) PROVE ClaimInv'
  <2>1. /\ UNCHANGED <<status, tries>>
        /\ pc' = [pc EXCEPT ![w] = "claim"] /\ batch' = [batch EXCEPT ![w] = {}]
        /\ \A v \in Dispatchers \ {w} : cur'[v] = cur[v] /\ seen'[v] = seen[v]
    BY <1>6 DEF Crash
  <2>2. \A v \in Dispatchers : Holds(v)' \subseteq Holds(v)
    BY <2>1 DEF Holds
  <2> QED
    BY <2>1, <2>2, HoldsShrink DEF ClaimInv, ClaimsAreCurrent
<1> QED
  BY <1>e, <1>t, <1>1, <1>2, <1>3, <1>4, <1>5, <1>6 DEF Next, Environment, CreateEndpoint,
     ComesDue, LockExpires, DispatcherStep, DispatcherFault, vars

(* The state is well typed and no delivery is ever in the hands of two     *)
(* dispatchers, whatever crashes, claims are lost and locks expire.        *)
THEOREM DispatchIsExclusive == Spec => []DispatchInv
<1>1. Spec => [](TypeInv /\ ClaimInv)
  BY InitType, NextType, InitClaims, NextClaims, PTL DEF Spec
<1>2. TypeInv /\ ClaimInv => DispatchInv
  BY DEF TypeInv, ClaimInv, DispatchInv
<1> QED
  BY <1>1, <1>2, PTL
-----------------------------------------------------------------------------
(* Tries. A dispatcher's copy of the count decides whether it reschedules  *)
(* or gives up; the copy is current, so the row's count is bounded.        *)

(* A row that may still be claimed has a try left, and a row is fresh or   *)
(* has been tried.                                                         *)
TriesRemain ==
  \A d \in Deliveries :
    /\ status[d] = "none" => tries[d] = 0
    /\ status[d] \in {"none", "pending"} => tries[d] < MaxTries
    /\ status[d] = "delivering" => tries[d] \in 1..MaxTries

(* A dispatcher about to write a verdict is entitled to it. *)
VerdictsAreEarned ==
  \A w \in Dispatchers : pc[w] = "mark" =>
    /\ verdict[w] = "pending" => seen[w] < MaxTries
    /\ verdict[w] = "delivered" => cur[w] \in received
    /\ verdict[w] = "failed" => cur[w] \in refused \/ seen[w] = MaxTries

TryInv == TriesRemain /\ VerdictsAreEarned /\ GivesUpOnlyWhenSpent

(* Nothing has been tried at the start. *)
LEMMA InitTries == Init => TryInv
BY DispatchAssumption DEF Init, TryInv, TriesRemain, VerdictsAreEarned, GivesUpOnlyWhenSpent

(* A claim uses one of the tries a row has left. *)
LEMMA ClaimKeepsTries ==
  ASSUME TypeInv, TryInv, NEW rows \in ClaimChoices, ClaimRows(rows), refused' = refused
  PROVE  TriesRemain' /\ GivesUpOnlyWhenSpent'
<1>1. rows \subseteq Deliveries /\ \A d \in rows : status[d] = "pending"
  BY ChoicesAreClaimable DEF Claimable
<1>2. TriesRemain'
  BY <1>1, DispatchAssumption DEF ClaimRows, TryInv, TriesRemain, TypeInv, TypeOK
<1>3. GivesUpOnlyWhenSpent'
  BY <1>1 DEF ClaimRows, TryInv, GivesUpOnlyWhenSpent, TypeInv, TypeOK
<1> QED
  BY <1>2, <1>3

(* What a dispatcher in flight knows of its row. *)
LEMMA InFlightRow ==
  ASSUME TypeInv, ClaimInv, TryInv, NEW w \in Dispatchers, pc[w] \in InFlight
  PROVE  /\ cur[w] \in Deliveries /\ status[cur[w]] = "delivering"
         /\ seen[w] = tries[cur[w]] /\ seen[w] \in 1..MaxTries
BY DEF TypeInv, CurIsDelivery, InFlight, ClaimInv, ClaimsAreCurrent, ExclusiveDispatch, Holds,
   TryInv, TriesRemain

(* A verdict leaves a row that waits a try, and fails one that has none. *)
LEMMA VerdictKeepsTries ==
  ASSUME TypeInv, ClaimInv, TryInv, NEW w \in Dispatchers, pc[w] = "mark",
         WriteVerdict(w), refused' = refused
  PROVE  TriesRemain' /\ GivesUpOnlyWhenSpent'
<1>1. /\ cur[w] \in Deliveries /\ seen[w] = tries[cur[w]] /\ verdict[w] \in Verdicts
      /\ verdict[w] = "pending" => tries[cur[w]] < MaxTries
      /\ verdict[w] = "failed" => cur[w] \in refused \/ tries[cur[w]] = MaxTries
  BY InFlightRow DEF InFlight, TryInv, VerdictsAreEarned, TypeInv, TypeOK
<1>2. TriesRemain'
  BY <1>1 DEF WriteVerdict, TryInv, TriesRemain, TypeInv, TypeOK, Verdicts, Final
<1>3. GivesUpOnlyWhenSpent'
  BY <1>1 DEF WriteVerdict, TryInv, GivesUpOnlyWhenSpent, TypeInv, TypeOK, Verdicts, Final
<1> QED
  BY <1>2, <1>3

(* Every action keeps tries within the limit and verdicts earned. *)
LEMMA NextTries == TypeInv /\ ClaimInv /\ TryInv /\ [Next]_vars => TryInv'
<1> SUFFICES ASSUME TypeInv, ClaimInv, TryInv, [Next]_vars PROVE TryInv'
  OBVIOUS
<1> USE DEF table, local, Goto, Leave
<1>t. ASSUME UNCHANGED <<status, tries, refused>> PROVE TriesRemain' /\ GivesUpOnlyWhenSpent'
  BY <1>t DEF TryInv, TriesRemain, GivesUpOnlyWhenSpent
<1>v. ASSUME NEW w \in Dispatchers, UNCHANGED <<received, refused>>, pc'[w] # "mark",
             \A v \in Dispatchers \ {w} :
               /\ pc'[v] = pc[v] /\ cur'[v] = cur[v]
               /\ seen'[v] = seen[v] /\ verdict'[v] = verdict[v]
      PROVE  VerdictsAreEarned'
  BY <1>v DEF TryInv, VerdictsAreEarned
<1>o. ASSUME UNCHANGED <<status, tries, received, refused, local>> PROVE TryInv'
  BY <1>o, <1>t DEF TryInv, VerdictsAreEarned
<1>e. ASSUME NEW ev \in Events, EnqueueDelivery(ev) PROVE TryInv'
  <2>1. TriesRemain' /\ GivesUpOnlyWhenSpent'
    BY <1>e DEF EnqueueDelivery, TryInv, TriesRemain, GivesUpOnlyWhenSpent
  <2> QED
    BY <1>e, <2>1 DEF EnqueueDelivery, TryInv, VerdictsAreEarned
<1>1. ASSUME NEW w \in Dispatchers,
             TakeNext(w) \/ BatchDone(w) \/ Crash(w)
      PROVE  TryInv'
  BY <1>1, <1>t, <1>v DEF TakeNext, BatchDone, Crash, TryInv, TypeInv, TypeOK
<1>2. ASSUME NEW w \in Dispatchers, ClaimDeliveries(w) \/ ClaimLost(w) PROVE TryInv'
  <2>1. TriesRemain' /\ GivesUpOnlyWhenSpent'
    BY <1>2, ClaimKeepsTries DEF ClaimDeliveries, ClaimLost
  <2>2. VerdictsAreEarned'
    BY <1>2, <1>v DEF ClaimDeliveries, ClaimLost, TypeInv, TypeOK
  <2> QED
    BY <2>1, <2>2 DEF TryInv
<1>3. ASSUME NEW w \in Dispatchers, Send(w) PROVE TryInv'
  <2>1. PICK answer \in {"Delivered", "Retry", "Drop"}, took \in BOOLEAN :
          /\ answer = "Delivered" => took
          /\ received' = IF took THEN received \cup {cur[w]} ELSE received
          /\ refused' = IF answer = "Drop" THEN refused \cup {cur[w]} ELSE refused
          /\ verdict' = [verdict EXCEPT ![w] = Outcome(answer, seen[w])]
    BY <1>3 DEF Send
  <2>2. pc[w] = "send" /\ pc' = [pc EXCEPT ![w] = "mark"] /\ UNCHANGED <<status, tries, cur, seen>>
    BY <1>3 DEF Send
  <2>3. seen[w] \in 1..MaxTries
    BY <2>2, InFlightRow DEF InFlight
  <2>4. /\ verdict'[w] = "pending" => seen[w] < MaxTries
        /\ verdict'[w] = "delivered" => cur[w] \in received'
        /\ verdict'[w] = "failed" => cur[w] \in refused' \/ seen[w] = MaxTries
    BY <2>1, <2>3, DispatchAssumption DEF Outcome, TypeInv, TypeOK
  <2>5. VerdictsAreEarned'
    BY <2>1, <2>2, <2>4 DEF TryInv, VerdictsAreEarned, TypeInv, TypeOK
  <2>6. TriesRemain' /\ GivesUpOnlyWhenSpent'
    BY <2>1, <2>2 DEF TryInv, TriesRemain, GivesUpOnlyWhenSpent
  <2> QED
    BY <2>5, <2>6 DEF TryInv
<1>4. ASSUME NEW w \in Dispatchers, Mark(w) \/ MarkFails(w) PROVE TryInv'
  <2>1. TriesRemain' /\ GivesUpOnlyWhenSpent'
    BY <1>4, <1>t, VerdictKeepsTries DEF Mark, MarkFails
  <2>2. VerdictsAreEarned'
    BY <1>4, <1>v DEF Mark, MarkFails, TypeInv, TypeOK
  <2> QED
    BY <2>1, <2>2 DEF TryInv
<1> QED
  BY <1>e, <1>o, <1>1, <1>2, <1>3, <1>4 DEF Next, Environment, CreateEndpoint, ComesDue,
     LockExpires, DispatcherStep, DispatcherFault, vars

(* The inductive invariant the theorems below are read off from. *)
LEMMA SafetyInvariant == Spec => [](TypeInv /\ ClaimInv /\ TryInv)
BY InitType, NextType, InitClaims, NextClaims, InitTries, NextTries, PTL DEF Spec

(* A delivery is failed only when its endpoint refused it for good or all  *)
(* MaxWebhookTries were made.                                              *)
THEOREM GivingUpIsJustified == Spec => []GivesUpOnlyWhenSpent
<1>1. TryInv => GivesUpOnlyWhenSpent
  BY DEF TryInv
<1> QED
  BY <1>1, SafetyInvariant, PTL
-----------------------------------------------------------------------------
(* Refinement. The claim's UPDATE, the POST and the verdict's UPDATE are   *)
(* the visible steps; every other step of a dispatcher is a stutter.       *)

LifecycleStatuses == {"new", "queued", "deferred", "sending", "sent", "failed"}

(* How the life cycle sees one row. *)
LEMMA LifecycleStatusOf ==
  ASSUME TypeOK, NEW d \in Deliveries
  PROVE  /\ status[d] = "none" => LifecycleStatus[d] = "new"
         /\ status[d] = "pending" /\ tries[d] = 0 => LifecycleStatus[d] = "queued"
         /\ status[d] = "pending" /\ tries[d] # 0 => LifecycleStatus[d] = "deferred"
         /\ status[d] = "delivering" => LifecycleStatus[d] = "sending"
         /\ status[d] = "delivered" => LifecycleStatus[d] = "sent"
         /\ status[d] = "failed" => LifecycleStatus[d] = "failed"
BY DEF LifecycleStatus

(* A row that stays as it is stays as it is in the life cycle. *)
LEMMA LifecycleStatusKept ==
  ASSUME TypeOK, NEW d \in Deliveries, status'[d] = status[d], tries'[d] = tries[d]
  PROVE  LifecycleStatus'[d] = LifecycleStatus[d]
BY DEF LifecycleStatus, TypeOK, Verdicts, Final

(* The life cycle's status is a function of the delivery. *)
LEMMA LifecycleStatusType ==
  /\ TypeOK => LifecycleStatus \in [Deliveries -> LifecycleStatuses]
  /\ TypeOK' => LifecycleStatus' \in [Deliveries -> LifecycleStatuses]
BY DEF LifecycleStatus, LifecycleStatuses, TypeOK, Verdicts, Final

(* Every initial state is one of the abstract life cycle. *)
LEMMA InitImplements == Init => Lifecycle!Init
<1> SUFFICES ASSUME Init PROVE Lifecycle!Init
  OBVIOUS
<1>1. LifecycleStatus = [d \in Deliveries |-> "new"]
  BY DEF Init, LifecycleStatus
<1> QED
  BY <1>1 DEF Init, Lifecycle!Init

(* A publish that inserts rows accepts them, whether it is the first or    *)
(* not; one that finds its rows there is a stutter or an empty batch.      *)
LEMMA EnqueueImplements ==
  ASSUME TypeInv, TypeInv', TryInv, NEW ev \in Events, EnqueueDelivery(ev)
  PROVE  \E b \in SUBSET Deliveries : Lifecycle!Accept(b)
<1> DEFINE new == {d \in Deliveries : d[1] \in active /\ d[2] = ev /\ status[d] = "none"}
<1>1. /\ status' = [d \in Deliveries |-> IF d \in new THEN "pending" ELSE status[d]]
      /\ UNCHANGED <<tries, received>>
  BY DEF EnqueueDelivery
<1>2. \A d \in new : d \in Deliveries /\ status[d] = "none" /\ tries[d] = 0
  BY DEF TryInv, TriesRemain
<1> HIDE DEF new
<1>3. \A d \in new : LifecycleStatus[d] = "new" /\ LifecycleStatus'[d] = "queued"
  BY <1>1, <1>2 DEF LifecycleStatus
<1>4. \A d \in Deliveries \ new : LifecycleStatus'[d] = LifecycleStatus[d]
  BY <1>1, LifecycleStatusKept DEF TypeInv
<1>5. LifecycleStatus' = [d \in Deliveries |->
                            IF d \in new THEN "queued" ELSE LifecycleStatus[d]]
  BY <1>3, <1>4, LifecycleStatusType DEF TypeInv
<1>6. Lifecycle!Accept(new)
  BY <1>1, <1>3, <1>5 DEF Lifecycle!Accept
<1>7. new \in SUBSET Deliveries
  BY <1>2
<1> QED
  BY <1>6, <1>7

(* A claim is a visible attempt, even when its rows never arrive.          *)
LEMMA ClaimImplements ==
  ASSUME TypeInv, TypeInv', NEW rows \in ClaimChoices, ClaimRows(rows), received' = received
  PROVE  \E b \in SUBSET Deliveries : Lifecycle!Attempt(b)
<1>1. rows \in SUBSET Deliveries /\ \A d \in rows : status[d] = "pending"
  BY ChoicesAreClaimable DEF Claimable
<1>2. /\ status' = [d \in Deliveries |-> IF d \in rows THEN "delivering" ELSE status[d]]
      /\ tries' = [d \in Deliveries |-> IF d \in rows THEN tries[d] + 1 ELSE tries[d]]
  BY DEF ClaimRows
<1>3. \A d \in rows : /\ LifecycleStatus[d] \in {"queued", "deferred"}
                      /\ LifecycleStatus'[d] = "sending"
  BY <1>1, <1>2 DEF LifecycleStatus
<1>4. \A d \in Deliveries \ rows : LifecycleStatus'[d] = LifecycleStatus[d]
  BY <1>2, LifecycleStatusKept DEF TypeInv
<1>5. LifecycleStatus' = [d \in Deliveries |->
                            IF d \in rows THEN "sending" ELSE LifecycleStatus[d]]
  BY <1>3, <1>4, LifecycleStatusType DEF TypeInv
<1>6. Lifecycle!Attempt(rows)
  BY <1>2, <1>3, <1>5 DEF Lifecycle!Attempt, Lifecycle!Waiting
<1> QED
  BY <1>1, <1>6

(* A verdict is written for a delivery that is being tried, and only one   *)
(* the try has earned.                                                     *)
LEMMA VerdictImplements ==
  ASSUME TypeInv, TypeInv', ClaimInv, TryInv, NEW w \in Dispatchers, pc[w] = "mark",
         WriteVerdict(w), received' = received
  PROVE  \E d \in Deliveries, v \in {"sent", "failed", "deferred"} : Lifecycle!Resolve(d, v)
<1> DEFINE d == cur[w]
           v == CASE verdict[w] = "delivered" -> "sent"
                  [] verdict[w] = "failed"    -> "failed"
                  [] verdict[w] = "pending"   -> "deferred"
<1>1. /\ d \in Deliveries /\ status[d] = "delivering" /\ tries[d] \in 1..MaxTries
      /\ verdict[w] \in Verdicts
      /\ verdict[w] = "pending" => tries[d] < MaxTries
      /\ verdict[w] = "delivered" => d \in received
  BY InFlightRow DEF InFlight, TryInv, VerdictsAreEarned, TypeInv, TypeOK
<1>2. status' = [status EXCEPT ![d] = verdict[w]] /\ tries' = tries
  BY DEF WriteVerdict
<1>3. v \in {"sent", "failed", "deferred"}
  BY <1>1 DEF Verdicts, Final
<1>4. LifecycleStatus[d] = "sending"
  BY <1>1, LifecycleStatusOf DEF TypeInv
<1>5. LifecycleStatus'[d] = v
  BY <1>1, <1>2 DEF LifecycleStatus, Verdicts, Final, TypeInv, TypeOK
<1>6. \A e \in Deliveries \ {d} : LifecycleStatus'[e] = LifecycleStatus[e]
  BY <1>2, LifecycleStatusKept DEF TypeInv, TypeOK
<1>7. /\ v = "sent" => d \in received
      /\ v = "deferred" => tries[d] < MaxTries
  BY <1>1 DEF Verdicts, Final
<1> HIDE DEF v, d
<1>8. LifecycleStatus' = [LifecycleStatus EXCEPT ![d] = v]
  BY <1>5, <1>6, LifecycleStatusType DEF TypeInv
<1>9. Lifecycle!Resolve(d, v)
  BY <1>2, <1>4, <1>7, <1>8 DEF Lifecycle!Resolve
<1> QED
  BY <1>1, <1>3, <1>9

(* Every step is a step of the abstract life cycle or leaves it alone. *)
LEMMA NextImplements ==
  TypeInv /\ ClaimInv /\ TryInv /\ [Next]_vars => [Lifecycle!Next]_(Lifecycle!vars)
<1> SUFFICES ASSUME TypeInv, ClaimInv, TryInv, [Next]_vars
             PROVE  Lifecycle!Next \/ UNCHANGED Lifecycle!vars
  OBVIOUS
<1> USE DEF table, local
<1>t. TypeInv'
  BY NextType
<1>u. ASSUME UNCHANGED <<status, tries, received>> PROVE UNCHANGED Lifecycle!vars
  BY <1>u DEF Lifecycle!vars, LifecycleStatus
<1>e. ASSUME NEW ev \in Events, EnqueueDelivery(ev) PROVE Lifecycle!Next
  BY <1>e, <1>t, EnqueueImplements DEF Lifecycle!Next
<1>w. ASSUME NEW w \in Dispatchers, DispatcherStep(w) \/ DispatcherFault(w)
      PROVE  Lifecycle!Next \/ UNCHANGED Lifecycle!vars
  <2>1. CASE TakeNext(w) \/ BatchDone(w) \/ Crash(w)
    BY <2>1, <1>u DEF TakeNext, BatchDone, Crash
  <2>2. CASE ClaimDeliveries(w) \/ ClaimLost(w)
    BY <2>2, <1>t, ClaimImplements DEF ClaimDeliveries, ClaimLost, Lifecycle!Next
  <2>3. CASE Send(w)
    <3>1. cur[w] \in Deliveries /\ status[cur[w]] = "delivering"
      BY <2>3, InFlightRow DEF Send, InFlight
    <3>2. LifecycleStatus[cur[w]] = "sending"
      BY <3>1 DEF LifecycleStatus
    <3>3. /\ UNCHANGED <<status, tries>>
          /\ received' = received \/ received' = received \cup {cur[w]}
      BY <2>3 DEF Send
    <3>4. LifecycleStatus' = LifecycleStatus
      BY <3>3 DEF LifecycleStatus
    <3>5. UNCHANGED Lifecycle!vars \/ Lifecycle!HandOver(cur[w])
      BY <3>2, <3>3, <3>4 DEF Lifecycle!HandOver, Lifecycle!vars
    <3> QED
      BY <3>1, <3>5 DEF Lifecycle!Next
  <2>4. CASE Mark(w) \/ MarkFails(w)
    <3>1. /\ pc[w] = "mark" /\ received' = received
          /\ WriteVerdict(w) \/ UNCHANGED <<status, tries>>
      BY <2>4 DEF Mark, MarkFails
    <3> QED
      BY <3>1, <1>t, <1>u, VerdictImplements DEF Lifecycle!Next, Lifecycle!Final
  <2> QED
    BY <1>w, <2>1, <2>2, <2>3, <2>4 DEF DispatcherStep, DispatcherFault
<1> QED
  BY <1>e, <1>u, <1>w DEF Next, Environment, CreateEndpoint, ComesDue, LockExpires, vars

(* The webhook queue implements the abstract life cycle of a message, with *)
(* deliveries for messages and endpoints for the engine.                   *)
THEOREM DispatchImplementsLifecycle == Spec => ImplementsLifecycle
BY SafetyInvariant, InitImplements, NextImplements, PTL
   DEF Spec, ImplementsLifecycle, Lifecycle!Spec
-----------------------------------------------------------------------------
(* Stranded deliveries. A dispatcher holds at most one batch, and only a   *)
(* fault takes a row out of its hands without a verdict.                   *)

HoldsABatch == \A w \in Dispatchers : Cardinality(Holds(w)) <= BatchSize

CountInv == HoldsABatch /\ StrandedOnlyByFaults

(* The table is finite, and so is every part of it. *)
LEMMA FiniteTable ==
  ASSUME NEW S \in SUBSET Deliveries
  PROVE  IsFiniteSet(S) /\ Cardinality(S) \in Nat
<1>1. IsFiniteSet(Deliveries)
  BY DispatchAssumption, FS_Product DEF Deliveries
<1> QED
  BY <1>1, FS_Subset, FS_CardinalityType

(* A claim takes at most a batch. *)
LEMMA ChoicesAreSmall ==
  ASSUME NEW rows \in ClaimChoices
  PROVE  rows \in SUBSET Deliveries /\ Cardinality(rows) <= BatchSize
<1>1. rows \in SUBSET Deliveries
  BY ChoicesAreClaimable DEF Claimable
<1> QED
  BY <1>1, FiniteTable, DispatchAssumption DEF ClaimChoices

(* Parts of what a dispatcher holds are no larger. *)
LEMMA HoldsNoMore ==
  ASSUME TypeInv, NEW w \in Dispatchers, HoldsABatch, Holds(w)' \subseteq Holds(w)
  PROVE  Cardinality(Holds(w)') <= BatchSize
<1>1. Holds(w) \in SUBSET Deliveries
  BY HeldAreDeliveries
<1>2. /\ IsFiniteSet(Holds(w)) /\ Cardinality(Holds(w)) \in Nat
      /\ Cardinality(Holds(w)') \in Nat
  BY <1>1, FiniteTable
<1>3. Cardinality(Holds(w)') <= Cardinality(Holds(w))
  BY <1>2, FS_Subset
<1> QED
  BY <1>2, <1>3, DispatchAssumption DEF HoldsABatch

(* A step without a fault that strands nothing new. *)
LEMMA NothingStranded ==
  ASSUME StrandedOnlyByFaults, Stranded' \subseteq Stranded, faults' = faults, faults \in Nat
  PROVE  StrandedOnlyByFaults'
<1>1. Stranded \in SUBSET Deliveries
  BY DEF Stranded
<1>2. /\ IsFiniteSet(Stranded) /\ Cardinality(Stranded) \in Nat
      /\ Cardinality(Stranded') \in Nat
  BY <1>1, FiniteTable
<1>3. Cardinality(Stranded') <= Cardinality(Stranded)
  BY <1>2, FS_Subset
<1>4. faults * BatchSize \in Nat
  BY DispatchAssumption
<1> QED
  BY <1>2, <1>3, <1>4 DEF StrandedOnlyByFaults

(* A fault that strands at most a batch. *)
LEMMA BatchStranded ==
  ASSUME StrandedOnlyByFaults, NEW lost \in SUBSET Deliveries, Cardinality(lost) <= BatchSize,
         Stranded' \subseteq Stranded \cup lost, faults' = faults + 1, faults \in Nat
  PROVE  StrandedOnlyByFaults'
<1>1. Stranded \in SUBSET Deliveries /\ Stranded \cup lost \in SUBSET Deliveries
  BY DEF Stranded
<1>2. /\ IsFiniteSet(Stranded) /\ IsFiniteSet(lost) /\ IsFiniteSet(Stranded \cup lost)
      /\ Cardinality(Stranded) \in Nat /\ Cardinality(lost) \in Nat
      /\ Cardinality(Stranded \cup lost) \in Nat /\ Cardinality(Stranded \cap lost) \in Nat
      /\ Cardinality(Stranded') \in Nat
  BY <1>1, FiniteTable
<1>3. Cardinality(Stranded \cup lost)
        = Cardinality(Stranded) + Cardinality(lost) - Cardinality(Stranded \cap lost)
  BY <1>2, FS_Union
<1>4. Cardinality(Stranded') <= Cardinality(Stranded \cup lost)
  BY <1>2, FS_Subset
<1>5. (faults + 1) * BatchSize = faults * BatchSize + BatchSize /\ faults * BatchSize \in Nat
  BY DispatchAssumption
<1> QED
  BY <1>2, <1>3, <1>4, <1>5, DispatchAssumption DEF StrandedOnlyByFaults

(* Nothing is held and nothing stranded at the start. *)
LEMMA InitCount == Init => CountInv
<1> SUFFICES ASSUME Init PROVE CountInv
  OBVIOUS
<1>1. Stranded = {} /\ \A w \in Dispatchers : Holds(w) = {}
  BY DEF Init, Stranded, Holds
<1>2. HoldsABatch
  BY <1>1, FS_EmptySet, DispatchAssumption DEF HoldsABatch
<1>3. faults * BatchSize = 0
  BY DispatchAssumption DEF Init
<1>4. StrandedOnlyByFaults
  BY <1>1, <1>3, FS_EmptySet DEF StrandedOnlyByFaults
<1> QED
  BY <1>2, <1>4 DEF CountInv

(* A step in which no dispatcher holds more, only w may hold less and no   *)
(* row becomes 'delivering' strands at most what w let go of.              *)
LEMMA LetGo ==
  ASSUME TypeInv, CountInv, NEW w \in Dispatchers,
         Holds(w)' \subseteq Holds(w),
         \A v \in Dispatchers \ {w} : Holds(v)' = Holds(v),
         \A d \in Deliveries : status'[d] = "delivering" => status[d] = "delivering"
  PROVE  /\ HoldsABatch'
         /\ Stranded' \subseteq Stranded \cup (Holds(w) \ Holds(w)')
<1>1. \A v \in Dispatchers : Cardinality(Holds(v)') <= BatchSize
  BY HoldsNoMore DEF CountInv
<1>2. HoldsABatch'
  BY <1>1 DEF HoldsABatch
<1>3. ASSUME NEW d \in Stranded', d \notin Stranded PROVE d \in Holds(w) \ Holds(w)'
  <2>1. d \in Deliveries /\ status[d] = "delivering" /\ \A v \in Dispatchers : d \notin Holds(v)'
    BY DEF Stranded
  <2>2. PICK v \in Dispatchers : d \in Holds(v)
    BY <1>3, <2>1 DEF Stranded
  <2> QED
    BY <2>1, <2>2
<1> QED
  BY <1>2, <1>3

(* Every action keeps a batch to its size and every stranded row paid for  *)
(* by a fault.                                                             *)
LEMMA NextCount ==
  TypeInv /\ ClaimInv /\ TryInv /\ CountInv /\ [Next]_vars => CountInv'
<1> SUFFICES ASSUME TypeInv, ClaimInv, TryInv, CountInv, [Next]_vars PROVE CountInv'
  OBVIOUS
<1> USE DEF table, local, Goto, Leave, InFlight
<1>f. faults \in Nat
  BY DispatchAssumption DEF TypeInv, TypeOK
<1>q. ASSUME UNCHANGED <<local, faults>>,
             \A d \in Deliveries : status'[d] = "delivering" => status[d] = "delivering"
      PROVE  CountInv'
  <2>1. \A w \in Dispatchers : Holds(w)' = Holds(w)
    BY <1>q DEF Holds
  <2>2. HoldsABatch'
    BY <2>1 DEF CountInv, HoldsABatch
  <2>3. Stranded' \subseteq Stranded
    BY <1>q, <2>1 DEF Stranded
  <2> QED
    BY <1>q, <1>f, <2>2, <2>3, NothingStranded DEF CountInv
<1>1. ASSUME NEW w \in Dispatchers, ClaimDeliveries(w) PROVE CountInv'
  <2>1. PICK rows \in ClaimChoices :
          /\ ClaimRows(rows)
          /\ batch' = [batch EXCEPT ![w] = {<<d, tries[d] + 1>> : d \in rows}]
    BY <1>1 DEF ClaimDeliveries
  <2>2. pc[w] = "claim" /\ pc' = [pc EXCEPT ![w] = "next"] /\ UNCHANGED <<cur, faults>>
    BY <1>1 DEF ClaimDeliveries
  <2>3. Holds(w)' = rows /\ Holds(w) = {}
    BY <2>1, <2>2, ClaimIsHeld DEF TypeInv, TypeOK, Holds, ClaimInv, ClaimsAreCurrent
  <2>4. \A v \in Dispatchers \ {w} : Holds(v)' = Holds(v)
    BY <2>1, <2>2 DEF Holds, TypeInv, TypeOK
  <2>5. HoldsABatch'
    BY <2>3, <2>4, ChoicesAreSmall DEF CountInv, HoldsABatch
  <2>6. Stranded' \subseteq Stranded
    <3>1. \A d \in Deliveries \ rows : status'[d] = status[d]
      BY <2>1 DEF ClaimRows
    <3> QED
      BY <2>3, <2>4, <3>1 DEF Stranded
  <2> QED
    BY <1>f, <2>2, <2>5, <2>6, NothingStranded DEF CountInv
<1>2. ASSUME NEW w \in Dispatchers, ClaimLost(w) PROVE CountInv'
  <2>1. PICK rows \in ClaimChoices : ClaimRows(rows)
    BY <1>2 DEF ClaimLost
  <2>2. UNCHANGED local /\ faults' = faults + 1
    BY <1>2 DEF ClaimLost, Fault
  <2>3. \A v \in Dispatchers : Holds(v)' = Holds(v)
    BY <2>2 DEF Holds
  <2>4. HoldsABatch'
    BY <2>3 DEF CountInv, HoldsABatch
  <2>5. Stranded' \subseteq Stranded \cup rows
    BY <2>1, <2>3 DEF ClaimRows, Stranded
  <2> QED
    BY <1>f, <2>2, <2>4, <2>5, BatchStranded, ChoicesAreSmall DEF CountInv
<1>3. ASSUME NEW w \in Dispatchers, TakeNext(w) \/ BatchDone(w) \/ Send(w) PROVE CountInv'
  <2>1. UNCHANGED <<status, faults>>
    BY <1>3 DEF TakeNext, BatchDone, Send
  <2>2. \A v \in Dispatchers \ {w} : Holds(v)' = Holds(v)
    BY <1>3 DEF TakeNext, BatchDone, Send, Holds, TypeInv, TypeOK
  <2>3. Holds(w)' = Holds(w)
    <3>1. CASE TakeNext(w)
      <4>1. PICK c \in batch[w] : /\ cur' = [cur EXCEPT ![w] = c[1]]
                                 /\ batch' = [batch EXCEPT ![w] = batch[w] \ {c}]
        BY <3>1 DEF TakeNext
      <4>2. pc[w] = "next" /\ pc'[w] = "send" /\ cur'[w] = c[1] /\ batch'[w] = batch[w] \ {c}
        BY <3>1, <4>1 DEF TakeNext, TypeInv, TypeOK
      <4> QED
        BY <4>2 DEF Holds
    <3>2. CASE BatchDone(w) \/ Send(w)
      BY <3>2 DEF BatchDone, Send, Holds, TypeInv, TypeOK
    <3> QED
      BY <1>3, <3>1, <3>2
  <2>4. HoldsABatch' /\ Stranded' \subseteq Stranded
    BY <2>1, <2>2, <2>3, LetGo
  <2> QED
    BY <1>f, <2>1, <2>4, NothingStranded DEF CountInv
<1>4. ASSUME NEW w \in Dispatchers, Mark(w) \/ MarkFails(w)
      PROVE  CountInv'
  <2>1. /\ pc[w] = "mark" /\ pc' = [pc EXCEPT ![w] = "next"] /\ batch' = batch
        /\ \A v \in Dispatchers \ {w} : cur'[v] = cur[v]
        /\ \/ WriteVerdict(w) /\ faults' \in {faults, faults + 1}
           \/ UNCHANGED status /\ faults' = faults + 1
    BY <1>4 DEF Mark, MarkFails, Fault, TypeInv, TypeOK
  <2>2. \A v \in Dispatchers \ {w} : Holds(v)' = Holds(v)
    BY <2>1 DEF Holds, TypeInv, TypeOK
  <2>3. Holds(w)' \subseteq Holds(w) /\ Holds(w) \ Holds(w)' \subseteq {cur[w]}
    BY <2>1 DEF Holds, TypeInv, TypeOK
  <2>4. /\ cur[w] \in Deliveries
        /\ \A d \in Deliveries : status'[d] = "delivering" => status[d] = "delivering"
        /\ WriteVerdict(w) => status'[cur[w]] # "delivering"
    <3>1. cur[w] \in Deliveries /\ status[cur[w]] = "delivering" /\ verdict[w] # "delivering"
      BY <2>1, InFlightRow DEF TypeInv, TypeOK, Verdicts, Final
    <3> QED
      BY <2>1, <3>1 DEF WriteVerdict, TypeInv, TypeOK
  <2>5. HoldsABatch' /\ Stranded' \subseteq Stranded \cup {cur[w]}
    BY <2>2, <2>3, <2>4, LetGo
  <2>6. CASE WriteVerdict(w) /\ faults' = faults
    <3>1. cur[w] \notin Stranded'
      BY <2>4, <2>6 DEF Stranded
    <3> QED
      BY <1>f, <2>5, <2>6, <3>1, NothingStranded DEF CountInv
  <2>7. CASE faults' = faults + 1
    <3>1. {cur[w]} \in SUBSET Deliveries /\ Cardinality({cur[w]}) <= BatchSize
      BY <2>4, FS_Singleton, DispatchAssumption
    <3> QED
      BY <1>f, <2>5, <2>7, <3>1, BatchStranded DEF CountInv
  <2> QED
    BY <2>1, <2>6, <2>7
<1>5. ASSUME NEW w \in Dispatchers, Crash(w) PROVE CountInv'
  <2>1. /\ UNCHANGED status /\ faults' = faults + 1
        /\ pc' = [pc EXCEPT ![w] = "claim"] /\ batch' = [batch EXCEPT ![w] = {}]
        /\ \A v \in Dispatchers \ {w} : cur'[v] = cur[v]
    BY <1>5 DEF Crash, Fault, TypeInv, TypeOK
  <2>2. \A v \in Dispatchers \ {w} : Holds(v)' = Holds(v)
    BY <2>1 DEF Holds, TypeInv, TypeOK
  <2>3. Holds(w)' = {}
    BY <2>1 DEF Holds, TypeInv, TypeOK
  <2>4. HoldsABatch' /\ Stranded' \subseteq Stranded \cup Holds(w)
    BY <2>1, <2>2, <2>3, LetGo
  <2>5. Holds(w) \in SUBSET Deliveries /\ Cardinality(Holds(w)) <= BatchSize
    BY HeldAreDeliveries DEF CountInv, HoldsABatch
  <2> QED
    BY <1>f, <2>1, <2>4, <2>5, BatchStranded DEF CountInv
<1>6. ASSUME NEW ev \in Events, EnqueueDelivery(ev) PROVE CountInv'
  BY <1>6, <1>q DEF EnqueueDelivery
<1> QED
  BY <1>q, <1>1, <1>2, <1>3, <1>4, <1>5, <1>6 DEF Next, Environment, CreateEndpoint, ComesDue,
     LockExpires, DispatcherStep, DispatcherFault, vars

(* Each fault strands at most one batch of deliveries, and without a fault *)
(* none is stranded.                                                       *)
THEOREM StrandingNeedsFaults == Spec => []StrandedOnlyByFaults
<1>1. CountInv => StrandedOnlyByFaults
  BY DEF CountInv
<1> QED
  BY <1>1, SafetyInvariant, InitCount, NextCount, PTL DEF Spec

(* A stranded row that keeps its status, and that no dispatcher takes up,  *)
(* stays stranded.                                                         *)
LEMMA StaysStranded ==
  ASSUME NEW d \in Stranded, status'[d] = status[d],
         \A w \in Dispatchers : d \in Holds(w)' => d \in Holds(w)
  PROVE  d \in Stranded'
BY DEF Stranded

(* Nothing takes up a stranded row: a claim asks for 'pending', an event   *)
(* that is enqueued again leaves its rows alone, and a verdict is written  *)
(* by the row's holder.                                                    *)
LEMMA NextStranded ==
  TypeInv /\ [Next]_vars => Stranded \subseteq Stranded'
<1> SUFFICES ASSUME TypeInv, [Next]_vars, NEW d \in Stranded PROVE d \in Stranded'
  OBVIOUS
<1> USE DEF table, local, Goto, Leave, InFlight
<1>d. /\ d \in Deliveries /\ status[d] = "delivering"
      /\ \A w \in Dispatchers : d \notin Holds(w)
  BY DEF Stranded
<1>q. ASSUME UNCHANGED local, status'[d] = status[d] PROVE d \in Stranded'
  BY <1>q, StaysStranded DEF Holds
<1>e. ASSUME NEW ev \in Events, EnqueueDelivery(ev) PROVE d \in Stranded'
  BY <1>e, <1>d, <1>q DEF EnqueueDelivery
<1>c. ASSUME NEW rows \in ClaimChoices, ClaimRows(rows)
      PROVE  d \notin rows /\ status'[d] = status[d]
  <2>1. d \notin rows
    BY <1>d DEF ClaimChoices, Claimable
  <2> QED
    BY <1>c, <1>d, <2>1 DEF ClaimRows
<1>1. ASSUME NEW w \in Dispatchers, ClaimDeliveries(w) PROVE d \in Stranded'
  <2>1. PICK rows \in ClaimChoices :
          /\ ClaimRows(rows)
          /\ batch' = [batch EXCEPT ![w] = {<<k, tries[k] + 1>> : k \in rows}]
    BY <1>1 DEF ClaimDeliveries
  <2>2. pc[w] = "claim" /\ pc' = [pc EXCEPT ![w] = "next"] /\ UNCHANGED cur
    BY <1>1 DEF ClaimDeliveries
  <2>3. Holds(w)' = rows
    BY <2>1, <2>2, ClaimIsHeld DEF TypeInv, TypeOK
  <2>4. \A v \in Dispatchers \ {w} : Holds(v)' = Holds(v)
    BY <2>1, <2>2 DEF Holds, TypeInv, TypeOK
  <2> QED
    BY <1>c, <2>1, <2>3, <2>4, StaysStranded
<1>2. ASSUME NEW w \in Dispatchers, ClaimLost(w) PROVE d \in Stranded'
  <2>1. PICK rows \in ClaimChoices : ClaimRows(rows)
    BY <1>2 DEF ClaimLost
  <2>2. UNCHANGED local
    BY <1>2 DEF ClaimLost
  <2> QED
    BY <1>c, <1>q, <2>1, <2>2
<1>3. ASSUME NEW w \in Dispatchers, BatchDone(w) \/ Send(w) PROVE d \in Stranded'
  <2>1. status' = status /\ \A v \in Dispatchers : Holds(v)' = Holds(v)
    BY <1>3 DEF BatchDone, Send, Holds, TypeInv, TypeOK
  <2> QED
    BY <2>1, StaysStranded
<1>4. ASSUME NEW w \in Dispatchers, TakeNext(w) PROVE d \in Stranded'
  <2>1. PICK c \in batch[w] : /\ cur' = [cur EXCEPT ![w] = c[1]]
                             /\ batch' = [batch EXCEPT ![w] = batch[w] \ {c}]
    BY <1>4 DEF TakeNext
  <2>2. pc' = [pc EXCEPT ![w] = "send"] /\ status' = status
    BY <1>4 DEF TakeNext
  <2>3. cur'[w] = c[1] /\ batch'[w] = batch[w] \ {c}
    BY <2>1 DEF TypeInv, TypeOK
  <2>4. Holds(w)' \subseteq Holds(w)
    BY <2>3 DEF Holds
  <2>5. \A v \in Dispatchers \ {w} : Holds(v)' = Holds(v)
    BY <2>1, <2>2 DEF Holds, TypeInv, TypeOK
  <2> QED
    BY <2>2, <2>4, <2>5, StaysStranded
<1>5. ASSUME NEW w \in Dispatchers, Mark(w) \/ MarkFails(w) PROVE d \in Stranded'
  <2>1. /\ pc[w] = "mark" /\ pc' = [pc EXCEPT ![w] = "next"] /\ batch' = batch
        /\ \A v \in Dispatchers \ {w} : cur'[v] = cur[v]
        /\ WriteVerdict(w) \/ status' = status
    BY <1>5 DEF Mark, MarkFails, TypeInv, TypeOK
  <2>2. \A v \in Dispatchers \ {w} : Holds(v)' = Holds(v)
    BY <2>1 DEF Holds, TypeInv, TypeOK
  <2>3. Holds(w)' \subseteq Holds(w)
    BY <2>1 DEF Holds, TypeInv, TypeOK
  <2>4. cur[w] # d
    BY <1>d, <2>1 DEF Holds
  <2>5. status'[d] = status[d]
    BY <1>d, <2>1, <2>4 DEF WriteVerdict, TypeInv, TypeOK
  <2> QED
    BY <2>2, <2>3, <2>5, StaysStranded
<1>6. ASSUME NEW w \in Dispatchers, Crash(w) PROVE d \in Stranded'
  <2>1. /\ UNCHANGED status
        /\ pc' = [pc EXCEPT ![w] = "claim"] /\ batch' = [batch EXCEPT ![w] = {}]
        /\ \A v \in Dispatchers \ {w} : cur'[v] = cur[v]
    BY <1>6 DEF Crash, TypeInv, TypeOK
  <2>2. \A v \in Dispatchers \ {w} : Holds(v)' = Holds(v)
    BY <2>1 DEF Holds, TypeInv, TypeOK
  <2>3. Holds(w)' = {}
    BY <2>1 DEF Holds, TypeInv, TypeOK
  <2> QED
    BY <2>1, <2>2, <2>3, StaysStranded
<1> QED
  BY <1>q, <1>e, <1>1, <1>2, <1>3, <1>4, <1>5, <1>6 DEF Next, Environment, CreateEndpoint,
     ComesDue, LockExpires, DispatcherStep, DispatcherFault, vars

(* A stranded delivery is lost: ClaimDeliveries asks for 'pending'         *)
(* whatever locked_until says, so no later step of any dispatcher,         *)
(* restarted or not, takes it up, and it is never delivered or failed.     *)
THEOREM StrandedIsLost == Spec => [][Stranded \subseteq Stranded']_vars
BY SafetyInvariant, NextStranded, PTL DEF Spec
=============================================================================
