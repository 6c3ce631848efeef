--------------------------- MODULE KeyCustodyProofs ---------------------------
(***************************************************************************)
(* Proofs about KeyCustody, for any master keys, any number of messages,   *)
(* months, changes of the master key and faults, and any batch size.       *)
(***************************************************************************)
EXTENDS KeyCustody, FiniteSetTheorems, WellFoundedInduction, TLAPS

-----------------------------------------------------------------------------
(* Published keys verify: a selector names one key, and the record at a    *)
(* selector is that of a key with this selector.                           *)

SelectorsAreUnique ==
  \A i, j \in 1..Len(keys) : keys[i].selector = keys[j].selector => i = j

RecordsAreInPlace ==
  \A s \in Months : zone[s] # 0 => keys[zone[s]].selector = s

KeyInv == TypeOK /\ SelectorsAreUnique /\ RecordsAreInPlace

(* There are no keys at the start. *)
LEMMA InitKeys == Init => KeyInv
<1> SUFFICES ASSUME Init PROVE KeyInv
  OBVIOUS
<1> USE CustodyAssumption
<1>1. keys \in Seq(KeyRow) /\ Len(keys) = 0
  BY DEF Init
<1>2. /\ env \in KeyOrNot /\ serveKey \in KeyOrNot /\ workerKey \in KeyOrNot
      /\ month \in Months
  BY DEF Init, KeyOrNot, Months
<1>3. /\ zone \in [Months -> 0..Len(keys)]
      /\ mail \in [Messages -> 0..Len(keys)]
      /\ sig \in 0..Len(keys)
      /\ cur \in 0..MessageCount
      /\ swaps \in 0..MaxSwaps
      /\ faults \in 0..MaxFaults
  BY <1>1 DEF Init
<1>4. /\ status \in [Messages -> Statuses]
      /\ sealed \in [Messages -> KeyOrNot]
  BY DEF Init, Statuses, KeyOrNot
<1>5. TypeOK
  BY <1>1, <1>2, <1>3, <1>4 DEF Init, TypeOK
<1> QED
  BY <1>1, <1>5 DEF Init, KeyInv, SelectorsAreUnique, RecordsAreInPlace

(* A key is added at the end and changes no key before it. *)
LEMMA KeysGrow ==
  ASSUME TypeOK, AddDomain
  PROVE  /\ keys' \in Seq(KeyRow)
         /\ Len(keys') = Len(keys) + 1
         /\ \A i \in 1..Len(keys) : keys'[i] = keys[i]
         /\ keys'[Len(keys) + 1].selector = month
         /\ keys'[Len(keys) + 1].master = env
<1>1. env \in Masters /\ month \in Months /\ keys \in Seq(KeyRow)
  BY DEF TypeOK, AddDomain, KeyOrNot
<1>2. [selector |-> month, master |-> env] \in KeyRow
  BY <1>1 DEF KeyRow
<1> QED
  BY <1>1, <1>2 DEF AddDomain

(* Every step keeps the types. *)
LEMMA NextType ==
  ASSUME TypeOK, [Next]_vars
  PROVE  TypeOK'
<1> USE CustodyAssumption
<1>0. Len(keys) \in Nat
  BY DEF TypeOK
<1>1. ASSUME NEW k \in KeyOrNot, SwapMaster(k) PROVE TypeOK'
  BY <1>1 DEF TypeOK, SwapMaster, dns, inhand, outcome, claimLoss
<1>2. CASE RestartServe \/ StartWorker
  BY <1>2 DEF TypeOK, RestartServe, StartWorker, dns, inhand, outcome, claimLoss
<1>3. CASE StopWorker
  BY <1>0, <1>3 DEF TypeOK, StopWorker, Fault, KeyOrNot, dns, outcome, claimLoss
<1>4. CASE AddDomain
  <2>1. keys' \in Seq(KeyRow) /\ Len(keys') = Len(keys) + 1
    BY <1>4, KeysGrow
  <2>2. 0..Len(keys) \subseteq 0..Len(keys')
    BY <1>0, <2>1
  <2>3. /\ zone' \in [Months -> 0..Len(keys')]
        /\ mail' \in [Messages -> 0..Len(keys')]
        /\ sig' \in 0..Len(keys')
    BY <1>4, <2>2 DEF TypeOK, AddDomain, dns, inhand, outcome
  <2> QED
    BY <1>4, <2>1, <2>3 DEF TypeOK, AddDomain, config, dns, inhand, outcome, claimLoss
<1>5. ASSUME NEW i \in 1..Len(keys), PublishRecord(i) PROVE TypeOK'
  <2>0. i \in 0..Len(keys) /\ keys[i] \in KeyRow
    BY <1>0 DEF TypeOK
  <2>1. i \in 0..Len(keys) /\ keys[i].selector \in Months
    BY <2>0 DEF KeyRow
  <2>2. zone' \in [Months -> 0..Len(keys)]
    BY <1>5, <2>1 DEF TypeOK, PublishRecord
  <2> QED
    BY <1>5, <2>2 DEF TypeOK, PublishRecord, config, inhand, outcome, claimLoss
<1>6. CASE NextMonth
  BY <1>6 DEF TypeOK, NextMonth, Months, config, inhand, outcome, claimLoss
<1>7. ASSUME NEW m \in Messages, Accept(m) PROVE TypeOK'
  BY <1>7 DEF TypeOK, Accept, Statuses, Waiting, config, dns, inhand, outcome, claimLoss
<1>8. CASE Claim \/ ClaimFails
  <2>1. ClaimedRows \subseteq Messages
    BY DEF ClaimedRows
  <2> QED
    BY <1>8, <2>1
    DEF TypeOK, Claim, ClaimFails, Statuses, config, dns, inhand, outcome, claimLoss
<1>9. ASSUME NEW m \in Messages, Sign(m) PROVE TypeOK'
  BY <1>0, <1>9 DEF TypeOK, Sign, SigningKey, Messages, config, dns, outcome, claimLoss
<1>10. ASSUME NEW m \in Messages, SignFails(m) PROVE TypeOK'
  BY <1>10 DEF TypeOK, SignFails, Fault, Statuses, config, dns, claimLoss
<1>11. CASE Send
  <2>1. cur \in Messages /\ sig \in 0..Len(keys)
    BY <1>11 DEF TypeOK, Send, Messages
  <2>2. /\ status' \in [Messages -> Statuses]
        /\ mail' \in [Messages -> 0..Len(keys)]
        /\ faults' \in 0..MaxFaults
    BY <1>11, <2>1 DEF TypeOK, Send, Fault, Statuses, Waiting
  <2> QED
    BY <1>0, <1>11, <2>2 DEF TypeOK, Send, config, dns, claimLoss
<1>12. CASE UNCHANGED vars
  BY <1>12 DEF TypeOK, vars, config, dns, inhand, outcome, claimLoss
<1> QED
  BY <1>1, <1>2, <1>3, <1>4, <1>5, <1>6, <1>7, <1>8, <1>9, <1>10, <1>11, <1>12
  DEF Next, WorkerStep

(* Every step keeps selectors unique and records in place. *)
LEMMA NextKeys ==
  ASSUME KeyInv, [Next]_vars
  PROVE  KeyInv'
<1>t. TypeOK /\ TypeOK'
  BY NextType DEF KeyInv
<1>0. Len(keys) \in Nat
  BY <1>t DEF TypeOK
<1>1. CASE AddDomain
  <2>1. /\ Len(keys') = Len(keys) + 1
        /\ \A i \in 1..Len(keys) : keys'[i] = keys[i]
        /\ keys'[Len(keys) + 1].selector = month
    BY <1>t, <1>1, KeysGrow
  <2>2. \A i \in 1..Len(keys) : keys[i].selector # month
    BY <1>1 DEF AddDomain, FreeSelector
  <2>3. ASSUME NEW i \in 1..Len(keys'), NEW j \in 1..Len(keys'),
               keys'[i].selector = keys'[j].selector
        PROVE  i = j
    <3>1. i \in 1..Len(keys) \/ i = Len(keys) + 1
      BY <1>0, <2>1
    <3>2. j \in 1..Len(keys) \/ j = Len(keys) + 1
      BY <1>0, <2>1
    <3> QED
      BY <2>1, <2>2, <2>3, <3>1, <3>2 DEF KeyInv, SelectorsAreUnique
  <2>4. ASSUME NEW s \in Months, zone'[s] # 0 PROVE keys'[zone'[s]].selector = s
    <3>1. zone'[s] = zone[s] /\ zone[s] \in 1..Len(keys)
      BY <1>t, <1>0, <1>1, <2>4 DEF AddDomain, dns, TypeOK
    <3> QED
      BY <2>1, <2>4, <3>1 DEF KeyInv, RecordsAreInPlace
  <2> QED
    BY <1>t, <2>3, <2>4 DEF KeyInv, SelectorsAreUnique, RecordsAreInPlace
<1>2. ASSUME NEW i \in 1..Len(keys), PublishRecord(i) PROVE KeyInv'
  <2>1. keys' = keys /\ zone' = [zone EXCEPT ![keys[i].selector] = i]
    BY <1>2 DEF PublishRecord
  <2>2. ASSUME NEW s \in Months, zone'[s] # 0 PROVE keys'[zone'[s]].selector = s
    BY <1>t, <2>1, <2>2 DEF KeyInv, RecordsAreInPlace, TypeOK
  <2> QED
    BY <1>t, <2>1, <2>2 DEF KeyInv, SelectorsAreUnique, RecordsAreInPlace
<1>3. CASE keys' = keys /\ zone' = zone
  BY <1>t, <1>3 DEF KeyInv, SelectorsAreUnique, RecordsAreInPlace
<1> QED
  BY <1>1, <1>2, <1>3
  DEF Next, WorkerStep, SwapMaster, RestartServe, StartWorker, StopWorker, NextMonth,
      Accept, Claim, ClaimFails, Sign, SignFails, Send, dns, vars

(* Mail that went out verifies against whatever record its selector has. *)
THEOREM PublishedKeysVerify == Spec => []CustodyInv
<1>1. ASSUME KeyInv PROVE CustodyInv
  <2>1. TypeOK
    BY <1>1 DEF KeyInv
  <2>2. ASSUME NEW m \in Messages, mail[m] # 0
        PROVE  zone[keys[mail[m]].selector] \in {0, mail[m]}
    <3>1. mail[m] \in 1..Len(keys)
      <4>1. Len(keys) \in Nat /\ mail[m] \in 0..Len(keys)
        BY <2>1 DEF TypeOK
      <4> QED
        BY <2>2, <4>1
    <3> DEFINE s == keys[mail[m]].selector
    <3>2. s \in Months
      <4>1. keys[mail[m]] \in KeyRow
        BY <2>1, <3>1 DEF TypeOK
      <4> QED
        BY <4>1 DEF KeyRow
    <3>3. zone[s] \in 0..Len(keys)
      BY <2>1, <3>2 DEF TypeOK
    <3>4. CASE zone[s] # 0
      <4>1. zone[s] \in 1..Len(keys) /\ keys[zone[s]].selector = s
        BY <1>1, <3>2, <3>3, <3>4 DEF KeyInv, RecordsAreInPlace
      <4> QED
        BY <1>1, <3>1, <4>1 DEF KeyInv, SelectorsAreUnique
    <3> QED
      BY <3>4
  <2> QED
    BY <2>1, <2>2 DEF CustodyInv, PublishedKeyVerifies
<1> QED
  BY <1>1, InitKeys, NextKeys, PTL DEF Spec
-----------------------------------------------------------------------------
(* What a claim takes.                                                     *)

WaitingRows == {m \in Messages : status[m] \in Waiting}

(* The table is finite, and so is every part of it. *)
LEMMA FiniteTable ==
  ASSUME NEW S \in SUBSET Messages
  PROVE  IsFiniteSet(S) /\ Cardinality(S) \in Nat
<1>1. IsFiniteSet(Messages)
  BY CustodyAssumption, FS_Interval DEF Messages
<1> QED
  BY <1>1, FS_Subset, FS_CardinalityType

(* Any rows have a youngest. *)
LEMMA HasYoungest ==
  ASSUME NEW S \in SUBSET Messages, S # {}
  PROVE  \E x \in S : \A y \in S : y <= x
<1> DEFINE T == {MessageCount - y : y \in S}
           R == {p \in Nat \X Nat : p[1] < p[2]}
<1>1. T \subseteq Nat /\ T # {}
  <2>1. \A y \in S : MessageCount - y \in Nat
    BY CustodyAssumption DEF Messages
  <2> QED
    BY <2>1
<1>2. IsWellFoundedOn(R, Nat)
  BY NatLessThanWellFounded DEF OpToRel
<1>w. \E t \in T : \A u \in T : ~(<<u, t>> \in R)
  <2> HIDE DEF T, R
  <2> QED
    BY <1>1, <1>2, WFMin
<1>3. PICK t \in T : \A u \in T : ~(u < t)
  BY <1>1, <1>w
<1>4. PICK x \in S : t = MessageCount - x
  BY <1>3
<1>5. ASSUME NEW y \in S PROVE y <= x
  <2>1. MessageCount - y \in T
    OBVIOUS
  <2>2. ~(MessageCount - y < MessageCount - x)
    BY <1>3, <1>4, <2>1
  <2> QED
    BY <2>2, CustodyAssumption DEF Messages
<1> QED
  BY <1>5

(* A claim takes rows that wait, and at most a batch of them. *)
LEMMA ClaimsAreSmall ==
  /\ ClaimedRows \in SUBSET WaitingRows
  /\ ClaimedRows \in SUBSET Messages
  /\ Cardinality(ClaimedRows) <= BatchSize
<1>1. ClaimedRows \in SUBSET Messages /\ ClaimedRows \in SUBSET WaitingRows
  BY DEF ClaimedRows, WaitingRows
<1>2. CASE ClaimedRows = {}
  BY <1>2, FS_EmptySet, CustodyAssumption
<1>3. CASE ClaimedRows # {}
  <2>1. PICK x \in ClaimedRows : \A y \in ClaimedRows : y <= x
    BY <1>1, <1>3, HasYoungest
  <2> DEFINE before == {n \in WaitingRows : n < x}
  <2>2. before \in SUBSET Messages /\ Cardinality(before) < BatchSize
    BY <2>1 DEF ClaimedRows, WaitingRows
  <2>3. ClaimedRows \ {x} \in SUBSET before
    BY <1>1, <2>1 DEF Messages
  <2> HIDE DEF before
  <2>4. /\ IsFiniteSet(ClaimedRows) /\ Cardinality(ClaimedRows) \in Nat
        /\ IsFiniteSet(before) /\ Cardinality(before) \in Nat
    BY <1>1, <2>2, FiniteTable
  <2>5. Cardinality(ClaimedRows \ {x}) = Cardinality(ClaimedRows) - 1
    BY <2>1, <2>4, FS_RemoveElement
  <2>6. Cardinality(ClaimedRows \ {x}) <= Cardinality(before)
    BY <2>3, <2>4, FS_Subset
  <2> QED
    BY <1>1, <2>2, <2>4, <2>5, <2>6, CustodyAssumption
<1> QED
  BY <1>1, <1>2, <1>3

-----------------------------------------------------------------------------
(* What the worker holds is 'sending' and at most a batch, what could not  *)
(* be signed has failed, and what could not be read stays 'sending' in     *)
(* nobody's hands.                                                         *)

Held == batch \cup ({cur} \ {0})

HeldAreSending == \A m \in Held : status[m] = "sending"

HeldOnce == cur \notin batch

OnlyARunningWorkerHolds == Held # {} => workerKey # NoKey

HoldsABatch == Cardinality(Held) <= BatchSize

UnsignedHaveFailed == \A m \in unsigned : status[m] = "failed"

UnreadableAreLeft == \A m \in unreadable : status[m] = "sending" /\ m \notin Held

HandInv ==
  /\ HeldAreSending /\ HeldOnce /\ OnlyARunningWorkerHolds /\ HoldsABatch
  /\ UnsignedHaveFailed /\ UnreadableAreLeft

(* Nothing is held at the start. *)
LEMMA InitHand == Init => HandInv
<1> SUFFICES ASSUME Init PROVE HandInv
  OBVIOUS
<1>1. Held = {} /\ batch = {} /\ unsigned = {} /\ unreadable = {}
  BY DEF Init, Held
<1>2. HoldsABatch
  BY <1>1, FS_EmptySet, CustodyAssumption DEF HoldsABatch
<1> QED
  BY <1>1, <1>2
  DEF HandInv, HeldAreSending, HeldOnce, OnlyARunningWorkerHolds, UnsignedHaveFailed,
      UnreadableAreLeft

(* Dropping something from the worker's hands keeps them small. *)
LEMMA HandShrinks ==
  ASSUME TypeOK, HandInv, Held' \in SUBSET Held
  PROVE  HoldsABatch'
<1>0. Held \in SUBSET Messages
  BY DEF TypeOK, Held, Messages
<1>1. Held \in SUBSET Messages /\ Held' \in SUBSET Messages
  BY <1>0
<1>2. /\ IsFiniteSet(Held) /\ Cardinality(Held) \in Nat
      /\ Cardinality(Held') \in Nat
  BY <1>1, FiniteTable
<1>3. Cardinality(Held') <= Cardinality(Held)
  BY <1>2, FS_Subset
<1> QED
  BY <1>2, <1>3, CustodyAssumption DEF HandInv, HoldsABatch

(* Every step keeps the worker's hands in order. *)
LEMMA NextHand ==
  ASSUME TypeOK, HandInv, [Next]_vars
  PROVE  HandInv'
<1> USE DEF HandInv, HeldAreSending, HeldOnce, OnlyARunningWorkerHolds,
            UnsignedHaveFailed, UnreadableAreLeft
<1>m. 0 \notin Messages
  BY DEF Messages
<1>1. CASE UNCHANGED <<status, inhand, unsigned, unreadable>> /\ workerKey' = workerKey
  <2>1. Held' = Held
    BY <1>1 DEF Held, inhand
  <2> QED
    BY <1>1, <2>1, HandShrinks DEF inhand
<1>2. CASE StartWorker
  <2>1. Held' = Held
    BY <1>2 DEF Held, StartWorker, inhand
  <2>2. workerKey' # NoKey /\ status' = status /\ UNCHANGED <<cur, batch, unsigned, unreadable>>
    BY <1>2 DEF StartWorker, inhand, outcome, claimLoss
  <2> QED
    BY <2>1, <2>2, HandShrinks
<1>3. CASE StopWorker
  <2>1. Held' = {} /\ batch' = {} /\ UNCHANGED <<status, unsigned, unreadable>>
    BY <1>3 DEF StopWorker, Held, outcome, claimLoss
  <2> QED
    BY <2>1, HandShrinks
<1>4. ASSUME NEW m \in Messages, Accept(m) PROVE HandInv'
  <2>1. /\ Held' = Held /\ UNCHANGED <<cur, batch, workerKey, unsigned, unreadable>>
        /\ status[m] = "new" /\ \A n \in Messages \ {m} : status'[n] = status[n]
    BY <1>4 DEF Accept, Held, config, inhand, outcome, claimLoss, TypeOK
  <2>2. \A n \in Held \cup unsigned \cup unreadable : n \in Messages \ {m}
    BY <2>1 DEF TypeOK, Held, Messages
  <2> QED
    BY <2>1, <2>2, HandShrinks
<1>5. CASE Claim
  <2>1. /\ Held' = ClaimedRows /\ cur' = 0 /\ batch' = ClaimedRows
        /\ workerKey' # NoKey
        /\ UNCHANGED <<unsigned, unreadable>>
        /\ status' = [m \in Messages |-> IF m \in ClaimedRows THEN "sending" ELSE status[m]]
    BY <1>5 DEF Claim, Held, config, outcome, claimLoss
  <2>2. /\ ClaimedRows \in SUBSET Messages
        /\ Cardinality(ClaimedRows) <= BatchSize
        /\ \A m \in ClaimedRows : status[m] \in Waiting
    BY ClaimsAreSmall DEF WaitingRows
  <2>3. unsigned \subseteq Messages /\ unreadable \subseteq Messages
    BY DEF TypeOK
  <2>4. \A m \in unsigned \cup unreadable : m \notin ClaimedRows
    BY <2>2 DEF Waiting
  <2>5. HoldsABatch'
    BY <2>1, <2>2 DEF HoldsABatch
  <2> QED
    BY <1>m, <2>1, <2>2, <2>3, <2>4, <2>5
<1>6. CASE ClaimFails
  <2>1. /\ Held = {} /\ Held' = {} /\ cur' = 0 /\ batch' = {}
        /\ unsigned' = unsigned
        /\ unreadable' \subseteq unreadable \cup ClaimedRows
        /\ status' = [m \in Messages |-> IF m \in ClaimedRows THEN "sending" ELSE status[m]]
    BY <1>6 DEF ClaimFails, Held, inhand, outcome
  <2>2. /\ ClaimedRows \in SUBSET Messages
        /\ \A m \in ClaimedRows : status[m] \in Waiting
    BY ClaimsAreSmall DEF WaitingRows
  <2>3. unsigned \subseteq Messages /\ unreadable \subseteq Messages
    BY DEF TypeOK
  <2>4. \A m \in unsigned \cup unreadable : m \notin ClaimedRows
    BY <2>2 DEF Waiting
  <2>5. HoldsABatch'
    BY <2>1, HandShrinks
  <2> QED
    BY <2>1, <2>2, <2>3, <2>4, <2>5
<1>7. ASSUME NEW m \in Messages, Sign(m) PROVE HandInv'
  <2>1. /\ Held' = Held /\ cur' = m /\ batch' = batch \ {m}
        /\ UNCHANGED <<workerKey, status, unsigned, unreadable>>
    BY <1>m, <1>7 DEF Sign, Held, config, outcome, claimLoss
  <2> QED
    BY <2>1, HandShrinks
<1>8. ASSUME NEW m \in Messages, SignFails(m) PROVE HandInv'
  <2>1. /\ m \in Held /\ Held' = Held \ {m} /\ cur' = cur /\ batch' = batch \ {m}
        /\ UNCHANGED <<workerKey, unreadable>>
        /\ unsigned' = unsigned \cup {m}
        /\ status'[m] = "failed" /\ \A n \in Messages \ {m} : status'[n] = status[n]
    BY <1>m, <1>8 DEF SignFails, Held, config, claimLoss, TypeOK
  <2>2. Held \subseteq Messages /\ unsigned \subseteq Messages /\ unreadable \subseteq Messages
    BY DEF TypeOK, Held, Messages
  <2>3. HoldsABatch'
    BY <2>1, HandShrinks
  <2> QED
    BY <2>1, <2>2, <2>3
<1>9. CASE Send
  <2>0. cur \in Messages
    BY <1>9 DEF Send, TypeOK, Messages
  <2>1. /\ cur \in Held /\ Held' = Held \ {cur} /\ cur' = 0 /\ batch' = batch
        /\ UNCHANGED <<workerKey, unsigned, unreadable>>
        /\ \A n \in Messages \ {cur} : status'[n] = status[n]
    BY <1>9, <2>0 DEF Send, Held, config, claimLoss, TypeOK
  <2>2. Held \subseteq Messages /\ unsigned \subseteq Messages /\ unreadable \subseteq Messages
    BY DEF TypeOK, Held, Messages
  <2>3. HoldsABatch'
    BY <2>1, HandShrinks
  <2>4. cur \notin unsigned /\ cur \notin unreadable
    BY <2>1
  <2>5. cur' \notin batch'
    BY <1>m, <2>1 DEF TypeOK
  <2> QED
    BY <2>1, <2>2, <2>3, <2>4, <2>5
<1> QED
  BY <1>1, <1>2, <1>3, <1>4, <1>5, <1>6, <1>7, <1>8, <1>9
  DEF Next, WorkerStep, SwapMaster, RestartServe, AddDomain, PublishRecord, NextMonth,
      config, dns, inhand, outcome, claimLoss, vars

-----------------------------------------------------------------------------
(* A claim that fails has a row that cannot be read, which no claim has    *)
(* met before, and so at most BatchSize - 1 that can.                      *)

(* Every step keeps the bound on what is lost beside unreadable rows. *)
LEMMA NextBystanders ==
  ASSUME TypeOK, HandInv, BystandersBounded, [Next]_vars
  PROVE  BystandersBounded'
<1>1. CASE ClaimFails
  <2> DEFINE lost == {m \in ClaimedRows : ~Readable(m)}
             near == {m \in ClaimedRows : Readable(m)}
  <2>1. unreadable' = unreadable \cup lost /\ bystanders' = bystanders \cup near
    BY <1>1 DEF ClaimFails
  <2>2. lost # {}
    BY <1>1 DEF ClaimFails
  <2>3. near \cap lost = {} /\ near \cup lost = ClaimedRows
    OBVIOUS
  <2>4. unreadable \cap lost = {}
    <3>1. \A m \in ClaimedRows : status[m] # "sending"
      BY ClaimsAreSmall DEF WaitingRows, Waiting
    <3> QED
      BY <3>1 DEF HandInv, UnreadableAreLeft
  <2>5. /\ lost \in SUBSET Messages /\ near \in SUBSET Messages
        /\ unreadable \in SUBSET Messages /\ bystanders \in SUBSET Messages
    BY ClaimsAreSmall DEF TypeOK
  <2> HIDE DEF lost, near
  <2>6. bystanders \cap near \in SUBSET Messages
    BY <2>5
  <2>f. /\ IsFiniteSet(lost) /\ IsFiniteSet(near)
        /\ IsFiniteSet(unreadable) /\ IsFiniteSet(bystanders)
        /\ Cardinality(lost) \in Nat /\ Cardinality(near) \in Nat
        /\ Cardinality(unreadable) \in Nat /\ Cardinality(bystanders) \in Nat
        /\ Cardinality(bystanders \cap near) \in Nat
    BY <2>5, <2>6, FiniteTable
  <2>7. Cardinality(lost) >= 1
    BY <2>2, <2>f, FS_EmptySet
  <2>8. Cardinality(near) + Cardinality(lost) <= BatchSize
    <3>1. Cardinality(near \cup lost)
            = Cardinality(near) + Cardinality(lost) - Cardinality(near \cap lost)
      BY <2>f, FS_Union
    <3>2. Cardinality(near \cap lost) = 0
      BY <2>3, FS_EmptySet
    <3>3. Cardinality(near \cup lost) <= BatchSize
      BY <2>3, ClaimsAreSmall
    <3> QED
      BY <2>f, <3>1, <3>2, <3>3, CustodyAssumption
  <2>9. Cardinality(unreadable') = Cardinality(unreadable) + Cardinality(lost)
    <3>1. Cardinality(unreadable \cup lost)
            = Cardinality(unreadable) + Cardinality(lost) - Cardinality(unreadable \cap lost)
      BY <2>f, FS_Union
    <3>2. Cardinality(unreadable \cap lost) = 0
      BY <2>4, FS_EmptySet
    <3> QED
      BY <2>1, <2>f, <3>1, <3>2
  <2>10. Cardinality(bystanders') <= Cardinality(bystanders) + Cardinality(near)
    <3>1. Cardinality(bystanders \cup near)
            = Cardinality(bystanders) + Cardinality(near) - Cardinality(bystanders \cap near)
      BY <2>f, FS_Union
    <3> QED
      BY <2>1, <2>f, <3>1
  <2>11. ASSUME NEW k \in Nat, NEW u \in Nat, NEW l \in Nat, l >= 1
         PROVE  k * u + k <= k * (u + l)
    BY <2>11
  <2>12. Cardinality(near) <= BatchSize - 1 /\ BatchSize - 1 \in Nat
    BY <2>f, <2>7, <2>8, CustodyAssumption
  <2> QED
    <3> DEFINE k == BatchSize - 1
               u == Cardinality(unreadable)
               l == Cardinality(lost)
               n == Cardinality(near)
               b == Cardinality(bystanders)
               b2 == Cardinality(bystanders')
    <3>0. Cardinality(bystanders') \in Nat
      <4>1. bystanders' \in SUBSET Messages
        BY <2>1, <2>5
      <4> QED
        BY <4>1, FiniteTable
    <3>1. b <= k * u /\ k \in Nat /\ u \in Nat /\ l \in Nat /\ n \in Nat /\ b \in Nat
          /\ b2 \in Nat /\ n <= k /\ l >= 1 /\ b2 <= b + n
      BY <2>f, <2>7, <2>10, <2>12, <3>0 DEF BystandersBounded
    <3> HIDE DEF k, u, l, n, b, b2
    <3>2. k * u \in Nat /\ k * (u + l) \in Nat
      BY <3>1
    <3>4. k * u + k <= k * (u + l)
      BY <2>11, <3>1
    <3>3. b2 <= k * (u + l)
      BY <3>1, <3>2, <3>4
    <3>5. BystandersBounded' <=> b2 <= k * Cardinality(unreadable')
      BY DEF BystandersBounded, k, b2
    <3> QED
      BY <2>9, <3>3, <3>5 DEF u, l, u, l, b2
<1>2. CASE UNCHANGED claimLoss
  BY <1>2 DEF BystandersBounded, claimLoss
<1> QED
  BY <1>1, <1>2
  DEF Next, WorkerStep, SwapMaster, RestartServe, StartWorker, StopWorker, AddDomain,
      PublishRecord, NextMonth, Accept, Claim, Sign, SignFails, Send, vars

(* A message that can no longer be read takes at most the rest of one      *)
(* batch with it, however the master key changes and whichever processes   *)
(* run under which key.                                                    *)
THEOREM UnreadableCostsABatch == Spec => []BystandersBounded
<1>1. ASSUME Init PROVE BystandersBounded
  <2>1. Cardinality(bystanders) = 0 /\ Cardinality(unreadable) = 0
    BY <1>1, FS_EmptySet DEF Init
  <2>2. (BatchSize - 1) * 0 = 0
    BY CustodyAssumption
  <2> QED
    BY <2>1, <2>2 DEF BystandersBounded
<1> QED
  BY <1>1, InitKeys, NextKeys, InitHand, NextHand, NextBystanders, PTL DEF Spec, KeyInv

-----------------------------------------------------------------------------
(* As long as the master key stays what it is, everything is wrapped under *)
(* it: no claim fails, no key is another master's, and a message accepted  *)
(* when there was a key finds one.                                         *)

Steady ==
  /\ serveKey = env
  /\ workerKey \in {env, NoKey}
  /\ \A i \in 1..Len(keys) : keys[i].master = env
  /\ \A m \in Messages : sealed[m] \in {env, NoKey}
  /\ keyed # {} => Len(keys) # 0

SteadyInv == swaps = 0 => Steady

(* There is nothing wrapped at the start. *)
LEMMA InitSteady == Init => SteadyInv
<1>1. Init => Len(keys) = 0
  BY DEF Init
<1> QED
  BY <1>1 DEF Init, SteadyInv, Steady

(* A change of the master key is never forgotten. *)
LEMMA SwapsCount ==
  ASSUME TypeOK, [Next]_vars, swaps' = 0
  PROVE  swaps = 0
<1>1. swaps \in Nat
  BY DEF TypeOK
<1>2. swaps' = swaps \/ swaps' = swaps + 1
  BY DEF Next, WorkerStep, SwapMaster, RestartServe, StartWorker, StopWorker, AddDomain,
         PublishRecord, NextMonth, Accept, Claim, ClaimFails, Sign, SignFails, Send,
         config, vars
<1> QED
  BY <1>1, <1>2

(* Every step keeps everything under one master key. *)
LEMMA NextSteady ==
  ASSUME TypeOK, SteadyInv, [Next]_vars
  PROVE  SteadyInv'
<1> SUFFICES ASSUME swaps' = 0 PROVE Steady'
  BY DEF SteadyInv
<1>0. swaps = 0
  BY SwapsCount
<1>1. Steady
  BY <1>0 DEF SteadyInv
<1>2. CASE UNCHANGED <<env, serveKey, keys, sealed, keyed>> /\ workerKey' \in {env, NoKey}
  BY <1>1, <1>2 DEF Steady
<1>3. ASSUME NEW k \in KeyOrNot, SwapMaster(k) PROVE FALSE
  BY <1>0, <1>3 DEF SwapMaster
<1>4. CASE RestartServe
  BY <1>1, <1>4 DEF RestartServe, Steady
<1>5. CASE AddDomain
  <2>1. /\ Len(keys') = Len(keys) + 1
        /\ \A i \in 1..Len(keys) : keys'[i] = keys[i]
        /\ keys'[Len(keys) + 1].master = env
        /\ Len(keys) \in Nat
    BY <1>5, KeysGrow DEF TypeOK
  <2>2. ASSUME NEW i \in 1..Len(keys') PROVE keys'[i].master = env
    <3>1. i \in 1..Len(keys) \/ i = Len(keys) + 1
      BY <2>1
    <3> QED
      BY <1>1, <2>1, <3>1 DEF Steady
  <2>3. Len(keys') # 0
    BY <2>1
  <2> QED
    BY <1>1, <1>5, <2>2, <2>3 DEF Steady, AddDomain, config
<1>6. ASSUME NEW m \in Messages, Accept(m) PROVE Steady'
  <2>1. /\ env' = env /\ serveKey' = serveKey /\ workerKey' = workerKey /\ keys' = keys
        /\ sealed' = [sealed EXCEPT ![m] = env]
        /\ keys = <<>> => keyed' = keyed
    BY <1>1, <1>6 DEF Accept, Steady, config
  <2>2. \A n \in Messages : sealed'[n] \in {env, NoKey}
    BY <1>1, <2>1 DEF Steady, TypeOK
  <2>3. keys # <<>> => Len(keys) # 0
    BY DEF TypeOK
  <2> QED
    BY <1>1, <2>1, <2>2, <2>3 DEF Steady
<1> QED
  BY <1>1, <1>2, <1>3, <1>4, <1>5, <1>6
  DEF Next, WorkerStep, Steady, StartWorker, StopWorker, PublishRecord, NextMonth,
      Claim, ClaimFails, Sign, SignFails, Send, config, vars

(* Messages left unsigned or lost in a claim, of those accepted when there *)
(* was a key.                                                              *)
Lost == (unsigned \cup Stranded) \cap keyed

(* The messages lost are rows of the table. *)
LEMMA LostType ==
  ASSUME TypeOK
  PROVE  Lost \in SUBSET Messages
BY DEF TypeOK, Lost, Stranded

(* What a step adds to the messages lost it adds to the bound. *)
LEMMA LossAddsUp ==
  ASSUME TypeOK, SteadyMasterKeepsMail, swaps = 0,
         NEW S \in SUBSET Messages, Lost' \in SUBSET (Lost \cup S),
         NEW d \in Nat, faults' = faults + d, Cardinality(S) <= BatchSize * d
  PROVE  SteadyMasterKeepsMail'
<1>1. Lost \in SUBSET Messages
  BY LostType
<1>2. Lost \cup S \in SUBSET Messages /\ Lost \cap S \in SUBSET Messages
      /\ Lost' \in SUBSET Messages
  BY <1>1
<1>3. /\ IsFiniteSet(Lost) /\ IsFiniteSet(S) /\ IsFiniteSet(Lost \cup S)
      /\ Cardinality(Lost) \in Nat /\ Cardinality(S) \in Nat
      /\ Cardinality(Lost \cup S) \in Nat /\ Cardinality(Lost \cap S) \in Nat
      /\ Cardinality(Lost') \in Nat
  BY <1>1, <1>2, FiniteTable
<1>4. Cardinality(Lost') <= Cardinality(Lost \cup S)
  BY <1>3, FS_Subset
<1>5. Cardinality(Lost \cup S) = Cardinality(Lost) + Cardinality(S) - Cardinality(Lost \cap S)
  BY <1>3, FS_Union
<1>6. Cardinality(Lost) <= BatchSize * faults
  BY DEF SteadyMasterKeepsMail, Lost
<1>7. BatchSize \in Nat /\ faults \in Nat
  BY CustodyAssumption DEF TypeOK
<1>8. BatchSize * (faults + d) = BatchSize * faults + BatchSize * d
  BY <1>7
<1>9. BatchSize * faults \in Nat /\ BatchSize * d \in Nat
  BY <1>7
<1>10. Cardinality(Lost') <= BatchSize * faults'
  BY <1>3, <1>4, <1>5, <1>6, <1>8, <1>9
<1> QED
  BY <1>10 DEF SteadyMasterKeepsMail, Lost

(* A step that costs nothing keeps the bound. *)
LEMMA NothingLost ==
  ASSUME TypeOK, SteadyMasterKeepsMail, swaps = 0, Lost' \in SUBSET Lost,
         faults' = faults \/ faults' = faults + 1
  PROVE  SteadyMasterKeepsMail'
<1>1. {} \in SUBSET Messages /\ Cardinality({}) = 0 /\ Lost' \in SUBSET (Lost \cup {})
  BY FS_EmptySet
<1>2. BatchSize * 0 = 0 /\ BatchSize * 1 = BatchSize /\ BatchSize >= 0 /\ faults + 0 = faults
  BY CustodyAssumption DEF TypeOK
<1>3. CASE faults' = faults
  <2>1. faults' = faults + 0 /\ Cardinality({}) <= BatchSize * 0
    BY <1>1, <1>2, <1>3
  <2> QED
    BY <1>1, <2>1, LossAddsUp
<1>4. CASE faults' = faults + 1
  <2>1. Cardinality({}) <= BatchSize * 1
    BY <1>1, <1>2
  <2> QED
    BY <1>1, <1>4, <2>1, LossAddsUp
<1> QED
  BY <1>3, <1>4

(* While the master key is steady a step loses mail only to a fault, and   *)
(* then at most what the worker holds.                                     *)
LEMMA NextLoss ==
  ASSUME TypeOK, HandInv, SteadyInv, SteadyMasterKeepsMail, [Next]_vars
  PROVE  SteadyMasterKeepsMail'
<1> SUFFICES ASSUME swaps' = 0 PROVE SteadyMasterKeepsMail'
  BY DEF SteadyMasterKeepsMail
<1>0. swaps = 0
  BY SwapsCount
<1>s. Steady
  BY <1>0 DEF SteadyInv
<1>m. 0 \notin Messages
  BY DEF Messages
<1>h. Held \in SUBSET Messages
  BY DEF TypeOK, Held, Messages
<1>1. CASE UNCHANGED <<status, inhand, unsigned, keyed, faults>>
  <2>1. Lost' = Lost
    BY <1>1 DEF Lost, Stranded, inhand
  <2> QED
    BY <1>0, <1>1, <2>1, NothingLost
<1>2. CASE StopWorker
  <2>1. Lost' \in SUBSET (Lost \cup Held)
    BY <1>2 DEF StopWorker, Lost, Stranded, Held, outcome
  <2>2. CASE batch = {} /\ cur = 0 /\ faults' = faults
    <3>1. Held = {}
      BY <2>2 DEF Held
    <3> QED
      BY <1>0, <2>1, <2>2, <3>1, NothingLost
  <2>3. CASE Fault
    <3>1. faults' = faults + 1 /\ BatchSize * 1 = BatchSize
      BY <2>3, CustodyAssumption DEF Fault
    <3>2. Cardinality(Held) <= BatchSize * 1
      BY <3>1 DEF HandInv, HoldsABatch
    <3> QED
      BY <1>0, <1>h, <2>1, <3>1, <3>2, LossAddsUp
  <2> QED
    BY <1>2, <2>2, <2>3 DEF StopWorker
<1>3. ASSUME NEW m \in Messages, Accept(m) PROVE SteadyMasterKeepsMail'
  <2>1. /\ status[m] = "new" /\ status' = [status EXCEPT ![m] = "queued"]
        /\ unsigned' = unsigned /\ batch' = batch /\ cur' = cur /\ faults' = faults
        /\ keyed' \subseteq keyed \cup {m}
    BY <1>3 DEF Accept, outcome, inhand
  <2>2. m \notin unsigned
    BY <2>1 DEF HandInv, UnsignedHaveFailed
  <2>3. m \notin Stranded' /\ Stranded' \in SUBSET Stranded
    BY <2>1 DEF Stranded, TypeOK
  <2>4. Lost' \in SUBSET Lost
    BY <2>1, <2>2, <2>3 DEF Lost
  <2> QED
    BY <1>0, <2>1, <2>4, NothingLost
<1>4. CASE Claim
  <2>1. /\ batch = {} /\ cur = 0 /\ cur' = 0 /\ batch' = ClaimedRows
        /\ status' = [m \in Messages |-> IF m \in ClaimedRows THEN "sending" ELSE status[m]]
        /\ unsigned' = unsigned /\ keyed' = keyed /\ faults' = faults
    BY <1>4 DEF Claim, outcome
  <2>2. Stranded' \in SUBSET Stranded
    BY <1>m, <2>1 DEF Stranded
  <2>3. Lost' \in SUBSET Lost
    BY <2>1, <2>2 DEF Lost
  <2> QED
    BY <1>0, <2>1, <2>3, NothingLost
<1>5. CASE ClaimFails
  <2>1. workerKey = env
    BY <1>s, <1>5 DEF ClaimFails, Steady
  <2>2. \A m \in ClaimedRows : Readable(m)
    BY <1>s, <2>1, ClaimsAreSmall DEF Readable, Steady
  <2> QED
    BY <1>5, <2>2 DEF ClaimFails
<1>6. ASSUME NEW m \in Messages, Sign(m) PROVE SteadyMasterKeepsMail'
  <2>1. /\ cur = 0 /\ cur' = m /\ batch' = batch \ {m} /\ status' = status
        /\ unsigned' = unsigned /\ keyed' = keyed /\ faults' = faults
    BY <1>6 DEF Sign, outcome
  <2>2. Stranded' \in SUBSET Stranded
    BY <1>m, <2>1 DEF Stranded
  <2>3. Lost' \in SUBSET Lost
    BY <2>1, <2>2 DEF Lost
  <2> QED
    BY <1>0, <2>1, <2>3, NothingLost
<1>7. ASSUME NEW m \in Messages, SignFails(m) PROVE SteadyMasterKeepsMail'
  <2>1. /\ cur' = cur /\ m \in batch /\ batch' = batch \ {m}
        /\ status' = [status EXCEPT ![m] = "failed"]
        /\ unsigned' = unsigned \cup {m} /\ keyed' = keyed
        /\ (~CanSign /\ faults' = faults) \/ Fault
    BY <1>7 DEF SignFails
  <2>2. Stranded' \in SUBSET Stranded
    BY <2>1 DEF Stranded, TypeOK
  <2>3. CASE ~CanSign /\ faults' = faults
    <3>1. workerKey = env
      <4>1. Held # {}
        BY <2>1 DEF Held
      <4> QED
        BY <1>s, <4>1 DEF HandInv, OnlyARunningWorkerHolds, Steady
    <3>2. Len(keys) = 0
      <4>1. CASE keys # <<>>
        <5>1. Len(keys) \in 1..Len(keys)
          BY <4>1 DEF TypeOK
        <5> QED
          BY <1>s, <2>3, <3>1, <4>1, <5>1 DEF Steady, CanSign, SigningKey
      <4>2. CASE keys = <<>>
        BY <4>2
      <4> QED
        BY <4>1, <4>2
    <3>3. keyed = {}
      BY <1>s, <3>2 DEF Steady
    <3>4. Lost' \in SUBSET Lost
      BY <2>1, <3>3 DEF Lost
    <3> QED
      BY <1>0, <2>3, <3>4, NothingLost
  <2>4. CASE Fault
    <3>1. faults' = faults + 1 /\ BatchSize * 1 = BatchSize /\ 1 <= BatchSize
      BY <2>4, CustodyAssumption DEF Fault
    <3>2. Cardinality({m}) = 1
      BY FS_Singleton
    <3>3. Cardinality({m}) <= BatchSize * 1
      BY <3>1, <3>2
    <3>4. {m} \in SUBSET Messages /\ Lost' \in SUBSET (Lost \cup {m})
      BY <2>1, <2>2 DEF Lost
    <3> QED
      BY <1>0, <3>1, <3>3, <3>4, LossAddsUp
  <2> QED
    BY <2>1, <2>3, <2>4
<1>8. CASE Send
  <2>0. cur \in Messages /\ status[cur] = "sending"
    BY <1>8 DEF Send, TypeOK, Messages, HandInv, HeldAreSending, Held
  <2>1. /\ cur' = 0 /\ batch' = batch /\ unsigned' = unsigned /\ keyed' = keyed
        /\ \A n \in Messages \ {cur} : status'[n] = status[n]
        /\ (status'[cur] # "sending" /\ faults' = faults) \/ faults' = faults + 1
    BY <1>8, <2>0 DEF Send, Fault, TypeOK
  <2>2. CASE status'[cur] # "sending" /\ faults' = faults
    <3>1. Stranded' \in SUBSET Stranded
      BY <2>1, <2>2 DEF Stranded
    <3>2. Lost' \in SUBSET Lost
      BY <2>1, <3>1 DEF Lost
    <3> QED
      BY <1>0, <2>2, <3>2, NothingLost
  <2>3. CASE faults' = faults + 1
    <3>1. Cardinality({cur}) <= BatchSize * 1
      <4>1. Cardinality({cur}) = 1
        BY FS_Singleton
      <4> QED
        BY <4>1, CustodyAssumption
    <3>2. Stranded' \in SUBSET (Stranded \cup {cur})
      BY <2>1 DEF Stranded
    <3>3. {cur} \in SUBSET Messages /\ Lost' \in SUBSET (Lost \cup {cur})
      BY <2>0, <2>1, <3>2 DEF Lost
    <3> QED
      BY <1>0, <2>3, <3>1, <3>3, LossAddsUp
  <2> QED
    BY <2>1, <2>2, <2>3
<1> QED
  BY <1>1, <1>2, <1>3, <1>4, <1>5, <1>6, <1>7, <1>8
  DEF Next, WorkerStep, SwapMaster, RestartServe, StartWorker, AddDomain, PublishRecord,
      NextMonth, inhand, outcome, vars

(* As long as the master key stays what it is, each fault costs at most    *)
(* one batch of the mail accepted for a domain with a signing key.         *)
THEOREM SteadyMasterLosesOnlyToFaults == Spec => []SteadyMasterKeepsMail
<1>1. ASSUME Init PROVE SteadyMasterKeepsMail
  <2>1. Lost = {}
    BY <1>1 DEF Init, Lost
  <2>2. Cardinality(Lost) = 0
    BY <2>1, FS_EmptySet
  <2>3. faults = 0 /\ BatchSize * 0 = 0
    BY <1>1, CustodyAssumption DEF Init
  <2>4. Cardinality(Lost) <= BatchSize * faults
    BY <2>2, <2>3
  <2> QED
    BY <2>4 DEF SteadyMasterKeepsMail, Lost
<1> QED
  BY <1>1, InitKeys, NextKeys, InitHand, NextHand, InitSteady, NextSteady, NextLoss, PTL
  DEF Spec, KeyInv
=============================================================================
