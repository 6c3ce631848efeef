---------------------------- MODULE MailFlowProofs ----------------------------
(***************************************************************************)
(* Proofs about MailFlow, for any calls, recipients and number of attempts *)
(* and any history of permission given, withdrawn and given back.          *)
(***************************************************************************)
EXTENDS MailFlow, FiniteSetTheorems, WellFoundedInduction, TLAPS

-----------------------------------------------------------------------------
(* What FilterSuppressed leaves.                                           *)

(* The k-th smallest of finitely many places exists. *)
LEMMA KthPlace ==
  ASSUME NEW n \in Nat, NEW S \in SUBSET (1..n), NEW k \in 1..Cardinality(S)
  PROVE  \E i \in S : Cardinality({j \in S : j < i}) = k - 1
<1> DEFINE upto(i) == {j \in S : j <= i}
           below(i) == {j \in S : j < i}
           T == {i \in Nat : Cardinality(upto(i)) >= k}
           R == {p \in Nat \X Nat : p[1] < p[2]}
<1>n. \A j \in S : j \in Nat /\ 1 <= j /\ j <= n
  OBVIOUS
<1>f. IsFiniteSet(S) /\ Cardinality(S) \in Nat
  <2>1. IsFiniteSet(1..n)
    BY FS_Interval
  <2> QED
    BY <2>1, FS_Subset, FS_CardinalityType
<1>g. \A U \in SUBSET S : IsFiniteSet(U) /\ Cardinality(U) \in Nat
  BY <1>f, FS_Subset, FS_CardinalityType
<1>1. n \in T
  <2>1. upto(n) = S
    BY <1>n
  <2>2. Cardinality(S) >= k
    BY <1>f
  <2> QED
    BY <2>1, <2>2
<1>2. IsWellFoundedOn(R, Nat)
  BY NatLessThanWellFounded DEF OpToRel
<1>w. \E t \in T : \A u \in T : ~(<<u, t>> \in R)
  <2>1. T \subseteq Nat /\ T # {}
    BY <1>1
  <2> HIDE DEF T, R
  <2> QED
    BY <1>2, <2>1, WFMin
<1>3. PICK i \in T : \A u \in T : ~(u < i)
  BY <1>w
<1>4. i \in Nat /\ Cardinality(upto(i)) >= k
  BY <1>3
<1>5. i # 0
  <2>0. \A j \in S : ~(j <= 0)
    BY <1>n
  <2>1. upto(0) = {}
    BY <2>0
  <2>2. ~(Cardinality(upto(0)) >= k)
    BY <1>f, <2>1, FS_EmptySet
  <2> QED
    BY <1>4, <2>2
<1>6. ~(Cardinality(below(i)) >= k)
  <2>1. i - 1 \in Nat /\ i - 1 < i
    BY <1>4, <1>5
  <2>0. \A j \in S : j <= i - 1 <=> j < i
    BY <1>n, <1>4
  <2>2. upto(i - 1) = below(i)
    BY <2>0
  <2>3. i - 1 \notin T
    BY <1>3, <2>1
  <2> QED
    BY <2>1, <2>2, <2>3
<1>7. i \in S
  <2>1. CASE i \notin S
    <3>0. \A j \in S : j <= i <=> j < i
      BY <1>n, <1>4, <2>1
    <3>1. upto(i) = below(i)
      BY <3>0
    <3> QED
      BY <1>4, <1>6, <3>1
  <2> QED
    BY <2>1
<1>8. upto(i) = below(i) \cup {i} /\ i \notin below(i)
  <2>1. \A j \in S : j <= i <=> (j < i \/ j = i)
    BY <1>n, <1>4
  <2>2. i <= i /\ ~(i < i)
    BY <1>4
  <2> QED
    BY <1>7, <2>1, <2>2
<1>9. below(i) \in SUBSET S
  OBVIOUS
<1> HIDE DEF upto, below
<1>10. Cardinality(upto(i)) = Cardinality(below(i)) + 1
  BY <1>8, <1>g, <1>9, FS_AddElement
<1>11. Cardinality(below(i)) = k - 1
  BY <1>4, <1>6, <1>10, <1>f, <1>g, <1>9
<1> QED
  BY <1>7, <1>11 DEF below

(* A call is stored with recipients of its own that are not suppressed. *)
LEMMA FilterAllows ==
  ASSUME NEW m \in Messages
  PROVE  /\ Filter(m) \in Seq(Addresses)
         /\ \A k \in 1..Len(Filter(m)) : Filter(m)[k] \notin suppressed
<1>1. To[m] \in Seq(Addresses) /\ Len(To[m]) \in Nat
  BY FlowAssumption
<1>2. Allowed(m) \in SUBSET (1..Len(To[m]))
  BY DEF Allowed
<1>3. Cardinality(Allowed(m)) \in Nat
  <2>1. IsFiniteSet(1..Len(To[m]))
    BY <1>1, FS_Interval
  <2> QED
    BY <1>2, <2>1, FS_Subset, FS_CardinalityType
<1> DEFINE place(k) == CHOOSE i \in Allowed(m) : Cardinality({j \in Allowed(m) : j < i}) = k - 1
<1>4. ASSUME NEW k \in 1..Cardinality(Allowed(m)) PROVE place(k) \in Allowed(m)
  <2>1. \E i \in Allowed(m) : Cardinality({j \in Allowed(m) : j < i}) = k - 1
    BY <1>1, <1>2, KthPlace
  <2> QED
    BY <2>1
<1>5. Filter(m) = [k \in 1..Cardinality(Allowed(m)) |-> To[m][place(k)]]
  BY DEF Filter
<1> HIDE DEF place
<1>6. \A k \in 1..Cardinality(Allowed(m)) :
        To[m][place(k)] \in Addresses /\ To[m][place(k)] \notin suppressed
  BY <1>1, <1>4 DEF Allowed
<1>7. Filter(m) \in [1..Cardinality(Allowed(m)) -> Addresses]
  BY <1>5, <1>6
<1>8. Filter(m) \in Seq(Addresses) /\ Len(Filter(m)) = Cardinality(Allowed(m))
  BY <1>3, <1>7
<1> QED
  BY <1>5, <1>6, <1>8

-----------------------------------------------------------------------------
(* The inductive invariant. A bar noted before the check of its kind still *)
(* stands; a call past the check met none of that kind; the queue holds    *)
(* only messages of calls that passed every check.                         *)

AttemptsRemain ==
  \A m \in Messages :
    /\ status[m] = "new" => attempts[m] = 0
    /\ status[m] \in {"queued", "deferred"} => attempts[m] < MaxAttempts

OnlyStoredAreQueued ==
  /\ \A m \in Messages : status[m] # "new" => stage[m] = "stored"
  /\ \A m \in accepted : status[m] # "new"

BarsStand ==
  \A m \in Messages :
    /\ barred[m].to \subseteq suppressed
    /\ barred[m].key => ~usable
    /\ barred[m].domain => ~trusted

(* The stages behind each of the three checks. *)
PastKey    == {"filter", "domain", "commit", "stored"}
PastFilter == {"domain", "commit", "stored"}
PastDomain == {"commit", "stored"}

ChecksHold ==
  \A m \in Messages :
    /\ stage[m] \in PastKey => ~barred[m].key
    /\ stage[m] \in PastFilter => Readers(m) \cap barred[m].to = {}
    /\ stage[m] \in PastDomain => ~barred[m].domain

Inv == TypeOK /\ AttemptsRemain /\ OnlyStoredAreQueued /\ BarsStand /\ ChecksHold

(* No call has arrived at the start. *)
LEMMA InitInv == Init => Inv
<1> SUFFICES ASSUME Init PROVE Inv
  OBVIOUS
<1> USE FlowAssumption DEF Init, Queue!Init
<1>1. TypeOK
  <2>1. <<>> \in Seq(Addresses)
    OBVIOUS
  <2>2. [to |-> {}, key |-> FALSE, domain |-> FALSE] \in Bars
    BY DEF Bars
  <2>3. barred \in [Messages -> Bars] /\ kept \in [Messages -> Seq(Addresses)]
    BY <2>1, <2>2
  <2> QED
    BY <2>3 DEF TypeOK, Stages
<1> QED
  BY <1>1 DEF Inv, AttemptsRemain, OnlyStoredAreQueued, BarsStand, ChecksHold,
              PastKey, PastFilter, PastDomain

(* A bar has the three parts it is made of. *)
LEMMA BarType ==
  ASSUME TypeOK, NEW m \in Messages
  PROVE  /\ barred[m] \in Bars
         /\ barred[m].to \in SUBSET Addresses
         /\ barred[m].key \in BOOLEAN /\ barred[m].domain \in BOOLEAN
<1>1. barred[m] \in Bars
  BY DEF TypeOK
<1> QED
  BY <1>1 DEF Bars

(* A call arrives and is barred by what stands against it. *)
LEMMA ReceiveInv ==
  ASSUME Inv, NEW m \in Messages, Receive(m)
  PROVE  Inv'
<1> DEFINE bar == [to |-> suppressed, key |-> ~usable, domain |-> ~trusted]
<1>1. /\ stage[m] = "none"
      /\ stage' = [stage EXCEPT ![m] = "auth"]
      /\ barred' = [barred EXCEPT ![m] = bar]
      /\ status' = status /\ attempts' = attempts /\ accepted' = accepted /\ kept' = kept
      /\ suppressed' = suppressed /\ usable' = usable /\ trusted' = trusted
      /\ lapsed' = lapsed /\ told' = told
  BY DEF Receive, queue, rules
<1>2. bar \in Bars /\ bar.to = suppressed /\ bar.key = ~usable /\ bar.domain = ~trusted
  BY DEF Inv, TypeOK, Bars
<1> HIDE DEF bar
<1>3. /\ barred' \in [Messages -> Bars] /\ barred'[m] = bar
      /\ \A n \in Messages \ {m} : barred'[n] = barred[n]
  BY <1>1, <1>2 DEF Inv, TypeOK
<1>4. /\ stage' \in [Messages -> Stages] /\ stage'[m] = "auth"
      /\ \A n \in Messages \ {m} : stage'[n] = stage[n]
  BY <1>1 DEF Inv, TypeOK, Stages
<1>5. TypeOK'
  BY <1>1, <1>3, <1>4 DEF Inv, TypeOK
<1>6. AttemptsRemain' /\ OnlyStoredAreQueued'
  BY <1>1, <1>4 DEF Inv, AttemptsRemain, OnlyStoredAreQueued
<1>7. BarsStand'
  BY <1>1, <1>2, <1>3 DEF Inv, BarsStand
<1>8. ChecksHold'
  <2>1. \A n \in Messages : Readers(n)' = Readers(n)
    BY <1>1 DEF Readers
  <2> QED
    BY <1>3, <1>4, <2>1 DEF Inv, ChecksHold, PastKey, PastFilter, PastDomain
<1> QED
  BY <1>5, <1>6, <1>7, <1>8 DEF Inv

(* A handler moves a call past a check only when nothing it noted stands   *)
(* against it.                                                             *)
LEMMA HandleInv ==
  ASSUME Inv, NEW m \in Messages, Handle(m)
  PROVE  Inv'
<1>a. /\ attempts' = attempts /\ accepted' = accepted /\ barred' = barred
      /\ suppressed' = suppressed /\ usable' = usable /\ trusted' = trusted
      /\ lapsed' = lapsed /\ told' = told
  BY DEF Handle, Authenticate, FilterSuppressed, CheckDomain, EnqueueMessage,
         Queue!Accept, queue, rules
<1>b. BarsStand'
  BY <1>a DEF Inv, BarsStand
<1>1. CASE Authenticate(m) \/ CheckDomain(m)
  <2>1. /\ status' = status /\ kept' = kept
        /\ stage' \in [Messages -> Stages]
        /\ \A n \in Messages \ {m} : stage'[n] = stage[n]
        /\ stage[m] \in {"auth", "domain"}
        /\ \/ stage'[m] = "refused"
           \/ stage[m] = "auth" /\ stage'[m] = "filter" /\ usable
           \/ stage[m] = "domain" /\ stage'[m] = "commit" /\ trusted
    BY <1>1 DEF Authenticate, CheckDomain, queue, Inv, TypeOK, Stages
  <2>2. \A n \in Messages : Readers(n)' = Readers(n)
    BY <2>1 DEF Readers
  <2>3. TypeOK'
    BY <1>a, <2>1 DEF Inv, TypeOK
  <2>4. AttemptsRemain' /\ OnlyStoredAreQueued'
    BY <1>a, <2>1 DEF Inv, AttemptsRemain, OnlyStoredAreQueued
  <2>5. ChecksHold'
    BY <1>a, <2>1, <2>2 DEF Inv, BarsStand, ChecksHold, PastKey, PastFilter, PastDomain
  <2> QED
    BY <1>b, <2>3, <2>4, <2>5 DEF Inv
<1>2. CASE FilterSuppressed(m)
  <2>1. /\ stage[m] = "filter" /\ status' = status
        /\ kept' = [kept EXCEPT ![m] = Filter(m)]
        /\ stage' \in [Messages -> Stages]
        /\ \A n \in Messages \ {m} : stage'[n] = stage[n]
        /\ stage'[m] \in {"refused", "domain"}
    BY <1>2 DEF FilterSuppressed, queue, Inv, TypeOK, Stages
  <2>2. /\ kept' \in [Messages -> Seq(Addresses)] /\ kept'[m] = Filter(m)
        /\ \A n \in Messages \ {m} : kept'[n] = kept[n]
    BY <2>1, FilterAllows DEF Inv, TypeOK
  <2>3. TypeOK'
    BY <1>a, <2>1, <2>2 DEF Inv, TypeOK
  <2>4. AttemptsRemain' /\ OnlyStoredAreQueued'
    BY <1>a, <2>1 DEF Inv, AttemptsRemain, OnlyStoredAreQueued
  <2>5. Readers(m)' \cap suppressed = {}
    BY <2>2, FilterAllows DEF Readers
  <2>6. \A n \in Messages \ {m} : Readers(n)' = Readers(n)
    BY <2>2 DEF Readers
  <2>7. Readers(m)' \cap barred[m].to = {}
    BY <2>5 DEF Inv, BarsStand
  <2>8. ChecksHold'
    BY <1>a, <2>1, <2>6, <2>7 DEF Inv, ChecksHold, PastKey, PastFilter, PastDomain
  <2> QED
    BY <1>b, <2>3, <2>4, <2>8 DEF Inv
<1>3. CASE EnqueueMessage(m)
  <2>1. /\ stage[m] = "commit" /\ status[m] = "new" /\ kept' = kept
        /\ stage' = [stage EXCEPT ![m] = "stored"]
        /\ status' = [n \in Messages |-> IF n \in {m} THEN "queued" ELSE status[n]]
    BY <1>3 DEF EnqueueMessage, Queue!Accept
  <2>2. /\ stage' \in [Messages -> Stages] /\ stage'[m] = "stored"
        /\ \A n \in Messages \ {m} : stage'[n] = stage[n] /\ status'[n] = status[n]
        /\ status'[m] = "queued"
    BY <2>1 DEF Inv, TypeOK, Stages
  <2>3. \A n \in Messages : Readers(n)' = Readers(n)
    BY <2>1 DEF Readers
  <2>4. TypeOK'
    BY <1>a, <2>1, <2>2 DEF Inv, TypeOK
  <2>5. AttemptsRemain'
    BY <1>a, <2>1, <2>2, FlowAssumption DEF Inv, AttemptsRemain
  <2>6. OnlyStoredAreQueued'
    <3>1. ASSUME NEW n \in Messages, status'[n] # "new" PROVE stage'[n] = "stored"
      BY <2>2, <3>1 DEF Inv, OnlyStoredAreQueued
    <3>2. ASSUME NEW n \in accepted PROVE status'[n] # "new"
      <4>1. n \in Messages
        BY DEF Inv, TypeOK
      <4> QED
        BY <2>2, <4>1 DEF Inv, OnlyStoredAreQueued
    <3> QED
      BY <1>a, <3>1, <3>2 DEF OnlyStoredAreQueued
  <2>7. ChecksHold'
    BY <1>a, <2>1, <2>2, <2>3 DEF Inv, ChecksHold, PastKey, PastFilter, PastDomain
  <2> QED
    BY <1>b, <2>4, <2>5, <2>6, <2>7 DEF Inv
<1> QED
  BY <1>1, <1>2, <1>3 DEF Handle

(* The queue attempts and hands over only what intake stored. *)
LEMMA QueueInv ==
  ASSUME Inv, NEW m \in Messages, Deliver(m) \/ SignAndSend(m)
  PROVE  Inv'
<1>a. /\ stage' = stage /\ kept' = kept /\ barred' = barred
      /\ suppressed' = suppressed /\ usable' = usable /\ trusted' = trusted
      /\ lapsed' = lapsed /\ told' = told
  BY DEF Deliver, ClaimMessages, RecordVerdict, SignAndSend, rules
<1>b. BarsStand' /\ ChecksHold'
  <2>1. \A n \in Messages : Readers(n)' = Readers(n)
    BY <1>a DEF Readers
  <2> QED
    BY <1>a, <2>1 DEF Inv, BarsStand, ChecksHold
<1>1. CASE ClaimMessages(m)
  <2>1. /\ status[m] \in {"queued", "deferred"} /\ accepted' = accepted
        /\ status' = [n \in Messages |-> IF n \in {m} THEN "sending" ELSE status[n]]
        /\ attempts' = [n \in Messages |->
                          IF n \in {m} THEN attempts[n] + 1 ELSE attempts[n]]
    BY <1>1 DEF ClaimMessages, Queue!Attempt, Queue!Waiting
  <2>2. attempts[m] \in Nat /\ attempts[m] < MaxAttempts
    BY <2>1, FlowAssumption DEF Inv, TypeOK, AttemptsRemain
  <2>3. attempts[m] + 1 \in 0..MaxAttempts
    BY <2>2, FlowAssumption
  <2>4. attempts' \in [Messages -> 0..MaxAttempts]
    BY <2>1, <2>3 DEF Inv, TypeOK
  <2>5. TypeOK'
    BY <1>a, <2>1, <2>4 DEF Inv, TypeOK
  <2>6. AttemptsRemain' /\ OnlyStoredAreQueued'
    BY <1>a, <2>1 DEF Inv, TypeOK, AttemptsRemain, OnlyStoredAreQueued
  <2> QED
    BY <1>b, <2>5, <2>6 DEF Inv
<1>2. CASE RecordVerdict(m)
  <2>1. PICK v \in Final \cup {"deferred"} : Queue!Resolve(m, v)
    BY <1>2 DEF RecordVerdict
  <2>2. /\ status[m] = "sending" /\ attempts' = attempts /\ accepted' = accepted
        /\ v = "deferred" => attempts[m] < MaxAttempts
        /\ status' = [status EXCEPT ![m] = v]
    BY <2>1 DEF Queue!Resolve
  <2>3. TypeOK'
    BY <1>a, <2>2 DEF Inv, TypeOK, Final
  <2>4. AttemptsRemain' /\ OnlyStoredAreQueued'
    BY <1>a, <2>2 DEF Inv, TypeOK, AttemptsRemain, OnlyStoredAreQueued, Final
  <2> QED
    BY <1>b, <2>3, <2>4 DEF Inv
<1>3. CASE SignAndSend(m)
  <2>1. /\ status[m] = "sending" /\ accepted' = accepted \cup {m}
        /\ status' = status /\ attempts' = attempts
    BY <1>3 DEF SignAndSend, Queue!HandOver
  <2>2. TypeOK'
    BY <1>a, <2>1 DEF Inv, TypeOK
  <2>3. AttemptsRemain' /\ OnlyStoredAreQueued'
    BY <1>a, <2>1 DEF Inv, AttemptsRemain, OnlyStoredAreQueued
  <2> QED
    BY <1>b, <2>2, <2>3 DEF Inv
<1> QED
  BY <1>1, <1>2, <1>3 DEF Deliver

(* Whoever withdraws permission leaves the bars standing, and whoever      *)
(* gives it back lifts them.                                               *)
LEMMA PermissionInv ==
  ASSUME Inv, Permission
  PROVE  Inv'
<1>a. /\ status' = status /\ attempts' = attempts /\ accepted' = accepted
      /\ stage' = stage /\ kept' = kept
  BY DEF Permission, LinkLapses, Unsubscribe, Unsuppress, KeyEnds, SuspendDomain,
         MarkDomainVerified, queue
<1>b. \A m \in Messages : Readers(m)' = Readers(m)
  BY <1>a DEF Readers
<1>c. AttemptsRemain' /\ OnlyStoredAreQueued'
  BY <1>a DEF Inv, AttemptsRemain, OnlyStoredAreQueued
<1>1. ASSUME NEW m \in Messages, LinkLapses(m) PROVE Inv'
  <2>1. /\ suppressed' = suppressed /\ usable' = usable /\ trusted' = trusted
        /\ told' = told /\ barred' = barred /\ lapsed' = lapsed \cup {m}
    BY <1>1 DEF LinkLapses
  <2>2. TypeOK'
    BY <1>a, <2>1 DEF Inv, TypeOK
  <2> QED
    BY <1>a, <1>b, <1>c, <2>1, <2>2 DEF Inv, BarsStand, ChecksHold
<1>2. ASSUME NEW m \in Messages, NEW a \in Readers(m), Unsubscribe(m, a) PROVE Inv'
  <2>1. /\ suppressed' = suppressed \cup {LinkAddress(m)} /\ told' = told \cup {a}
        /\ usable' = usable /\ trusted' = trusted /\ lapsed' = lapsed
        /\ barred' = [n \in Messages |-> IF stage[n] \in BeforeFilter
                                        THEN [barred[n] EXCEPT !.to = @ \cup {LinkAddress(m)}]
                                        ELSE barred[n]]
    BY <1>2 DEF Unsubscribe
  <2>2. kept[m] \in Seq(Addresses) /\ Len(kept[m]) \in Nat
    BY DEF Inv, TypeOK
  <2>3. PICK i \in 1..Len(kept[m]) : a = kept[m][i]
    BY DEF Readers
  <2>4. a \in Addresses /\ LinkAddress(m) \in Addresses
    <3>1. 1 \in 1..Len(kept[m])
      BY <2>2, <2>3
    <3> QED
      BY <2>2, <2>3, <3>1 DEF LinkAddress
  <2>6. ASSUME NEW n \in Messages
        PROVE  /\ barred'[n] \in Bars
               /\ barred'[n].to \subseteq barred[n].to \cup {LinkAddress(m)}
               /\ barred'[n].key = barred[n].key /\ barred'[n].domain = barred[n].domain
               /\ stage[n] \notin BeforeFilter => barred'[n] = barred[n]
    <3>1. barred[n] \in Bars
      BY DEF Inv, TypeOK
    <3> QED
      BY <2>1, <2>4, <3>1 DEF Bars
  <2>7. barred' \in [Messages -> Bars]
    BY <2>1, <2>6
  <2>5. TypeOK'
    BY <1>a, <2>1, <2>4, <2>7 DEF Inv, TypeOK
  <2>8. BarsStand'
    BY <2>1, <2>6 DEF Inv, BarsStand
  <2>9. ChecksHold'
    BY <1>a, <1>b, <2>6 DEF Inv, ChecksHold, BeforeFilter, PastFilter
  <2> QED
    BY <1>c, <2>5, <2>8, <2>9 DEF Inv
<1>3. ASSUME NEW a \in Addresses, Unsuppress(a) PROVE Inv'
  <2>1. /\ suppressed' = suppressed \ {a} /\ told' = told \ {a}
        /\ barred' = [m \in Messages |-> [barred[m] EXCEPT !.to = @ \ {a}]]
        /\ usable' = usable /\ trusted' = trusted /\ lapsed' = lapsed
    BY <1>3 DEF Unsuppress
  <2>2. ASSUME NEW m \in Messages
        PROVE  /\ barred'[m] \in Bars /\ barred'[m].to = barred[m].to \ {a}
               /\ barred'[m].key = barred[m].key /\ barred'[m].domain = barred[m].domain
    <3>1. barred[m] \in Bars
      BY DEF Inv, TypeOK
    <3> QED
      BY <2>1, <3>1 DEF Bars
  <2>3. barred' \in [Messages -> Bars]
    BY <2>1, <2>2
  <2>4. TypeOK'
    BY <1>a, <2>1, <2>3 DEF Inv, TypeOK
  <2>5. BarsStand'
    BY <2>1, <2>2 DEF Inv, BarsStand
  <2>6. ChecksHold'
    BY <1>a, <1>b, <2>2 DEF Inv, ChecksHold
  <2> QED
    BY <1>c, <2>4, <2>5, <2>6 DEF Inv
<1>4. CASE KeyEnds
  <2>1. /\ suppressed' = suppressed /\ trusted' = trusted /\ lapsed' = lapsed /\ told' = told
        /\ usable' = FALSE
        /\ barred' = [m \in Messages |-> IF stage[m] \in BeforeKey
                                        THEN [barred[m] EXCEPT !.key = TRUE] ELSE barred[m]]
    BY <1>4 DEF KeyEnds
  <2>2. ASSUME NEW m \in Messages
        PROVE  /\ barred'[m] \in Bars /\ barred'[m].to = barred[m].to
               /\ barred'[m].domain = barred[m].domain
               /\ stage[m] \notin BeforeKey => barred'[m] = barred[m]
    <3>1. barred[m] \in Bars
      BY DEF Inv, TypeOK
    <3> QED
      BY <2>1, <3>1 DEF Bars
  <2>3. barred' \in [Messages -> Bars]
    BY <2>1, <2>2
  <2>4. TypeOK'
    BY <1>a, <2>1, <2>3 DEF Inv, TypeOK
  <2>5. BarsStand'
    BY <2>1, <2>2 DEF Inv, BarsStand
  <2>6. ChecksHold'
    BY <1>a, <1>b, <2>2 DEF Inv, ChecksHold, BeforeKey, PastKey
  <2> QED
    BY <1>c, <2>4, <2>5, <2>6 DEF Inv
<1>6. CASE SuspendDomain
  <2>1. /\ suppressed' = suppressed /\ usable' = usable /\ lapsed' = lapsed /\ told' = told
        /\ trusted' = FALSE
        /\ barred' = [m \in Messages |-> IF stage[m] \in BeforeDomain
                                        THEN [barred[m] EXCEPT !.domain = TRUE] ELSE barred[m]]
    BY <1>6 DEF SuspendDomain
  <2>2. ASSUME NEW m \in Messages
        PROVE  /\ barred'[m] \in Bars /\ barred'[m].to = barred[m].to
               /\ barred'[m].key = barred[m].key
               /\ stage[m] \notin BeforeDomain => barred'[m] = barred[m]
    <3>1. barred[m] \in Bars
      BY DEF Inv, TypeOK
    <3> QED
      BY <2>1, <3>1 DEF Bars
  <2>3. barred' \in [Messages -> Bars]
    BY <2>1, <2>2
  <2>4. TypeOK'
    BY <1>a, <2>1, <2>3 DEF Inv, TypeOK
  <2>5. BarsStand'
    BY <2>1, <2>2 DEF Inv, BarsStand
  <2>6. ChecksHold'
    BY <1>a, <1>b, <2>2 DEF Inv, ChecksHold, BeforeDomain, PastDomain
  <2> QED
    BY <1>c, <2>4, <2>5, <2>6 DEF Inv
<1>5. CASE MarkDomainVerified
  <2>1. /\ suppressed' = suppressed /\ usable' = usable /\ trusted' = TRUE
        /\ lapsed' = lapsed /\ told' = told
        /\ barred' = [m \in Messages |-> [barred[m] EXCEPT !.domain = FALSE]]
    BY <1>5 DEF MarkDomainVerified
  <2>2. ASSUME NEW m \in Messages
        PROVE  /\ barred'[m] \in Bars /\ barred'[m].to = barred[m].to
               /\ barred'[m].key = barred[m].key /\ barred'[m].domain = FALSE
    <3>1. barred[m] \in Bars
      BY DEF Inv, TypeOK
    <3> QED
      BY <2>1, <3>1 DEF Bars
  <2>3. barred' \in [Messages -> Bars]
    BY <2>1, <2>2
  <2>4. TypeOK'
    BY <1>a, <2>1, <2>3 DEF Inv, TypeOK
  <2>5. BarsStand'
    BY <2>1, <2>2 DEF Inv, BarsStand
  <2>6. ChecksHold'
    BY <1>a, <1>b, <2>2 DEF Inv, ChecksHold
  <2> QED
    BY <1>c, <2>4, <2>5, <2>6 DEF Inv
<1> QED
  BY <1>1, <1>2, <1>3, <1>4, <1>5, <1>6 DEF Permission

(* Every step of the flow keeps the invariant. *)
LEMMA NextInv == Inv /\ [Next]_vars => Inv'
<1> SUFFICES ASSUME Inv, [Next]_vars PROVE Inv'
  OBVIOUS
<1>1. CASE UNCHANGED vars
  <2>1. \A m \in Messages : Readers(m)' = Readers(m)
    BY <1>1 DEF Readers, vars
  <2> QED
    BY <1>1, <2>1
    DEF Inv, TypeOK, AttemptsRemain, OnlyStoredAreQueued, BarsStand, ChecksHold,
        vars, queue, rules
<1> QED
  BY <1>1, ReceiveInv, HandleInv, QueueInv, PermissionInv DEF Next

(* No mail goes out against a bar raised before its call was checked for   *)
(* it and never lifted, whatever is withdrawn and given back while the     *)
(* call, its retries and the other calls proceed.                          *)
THEOREM StandingBarsHold == Spec => []FlowInv
<1>2. ASSUME Inv PROVE FlowInv
  <2>1. ASSUME NEW m \in accepted
        PROVE  Readers(m) \cap barred[m].to = {} /\ ~barred[m].key /\ ~barred[m].domain
    <3>1. m \in Messages /\ stage[m] = "stored"
      BY <1>2 DEF Inv, TypeOK, OnlyStoredAreQueued
    <3> QED
      BY <1>2, <3>1 DEF Inv, ChecksHold, PastKey, PastFilter, PastDomain
  <2> QED
    BY <1>2, <2>1 DEF Inv, FlowInv, NoMailAgainstStandingBar
<1> QED
  BY <1>2, NextInv, InitInv, PTL DEF Spec

-----------------------------------------------------------------------------
(* Readers who are told they will hear no more.                            *)

(* A step that tells nobody, lifts nothing and leaves the recipients of    *)
(* mail that went out alone adds nobody who slips through.                 *)
LEMMA NobodyNewSlips ==
  ASSUME OnlyFurtherRecipientsSlipThrough, told' \subseteq told, told' \ suppressed' \subseteq told \ suppressed,
         accepted \subseteq accepted', \A m \in accepted : kept'[m] = kept[m]
  PROVE  OnlyFurtherRecipientsSlipThrough'
BY DEF OnlyFurtherRecipientsSlipThrough, Readers

(* A reader told by their own link is suppressed; any other is a further   *)
(* recipient of the message the link came in.                              *)
LEMMA NextSlips ==
  Inv /\ OnlyFurtherRecipientsSlipThrough /\ [Next]_vars => OnlyFurtherRecipientsSlipThrough'
<1> SUFFICES ASSUME Inv, OnlyFurtherRecipientsSlipThrough, [Next]_vars
             PROVE  OnlyFurtherRecipientsSlipThrough'
  OBVIOUS
<1> USE DEF queue, rules
<1>1. ASSUME NEW m \in Messages,
             Receive(m) \/ Handle(m) \/ Deliver(m) \/ SignAndSend(m)
      PROVE  OnlyFurtherRecipientsSlipThrough'
  <2>1. told' = told /\ suppressed' = suppressed /\ accepted \subseteq accepted'
    BY <1>1 DEF Receive, Handle, Authenticate, FilterSuppressed, CheckDomain, EnqueueMessage,
       Deliver, ClaimMessages, RecordVerdict, SignAndSend, Queue!Accept, Queue!Attempt,
       Queue!Resolve, Queue!HandOver
  <2>2. ASSUME NEW n \in accepted PROVE kept'[n] = kept[n]
    <3>1. n \in Messages /\ stage[n] = "stored"
      BY DEF Inv, TypeOK, OnlyStoredAreQueued
    <3> QED
      BY <1>1, <3>1 DEF Receive, Handle, Authenticate, FilterSuppressed, CheckDomain,
         EnqueueMessage, Deliver, ClaimMessages, RecordVerdict, SignAndSend, Inv, TypeOK
  <2> QED
    BY <2>1, <2>2, NobodyNewSlips
<1>2. ASSUME NEW m \in Messages, NEW a \in Readers(m), Unsubscribe(m, a)
      PROVE  OnlyFurtherRecipientsSlipThrough'
  <2>1. /\ m \in accepted /\ UNCHANGED <<accepted, kept>>
        /\ suppressed' = suppressed \cup {kept[m][1]} /\ told' = told \cup {a}
    BY <1>2 DEF Unsubscribe, LinkAddress
  <2>2. a # kept[m][1] => \E n \in accepted' : a \in Readers(n)' /\ a # kept'[n][1]
    BY <2>1 DEF Readers
  <2>3. ASSUME NEW b \in told' \ suppressed', b # a
        PROVE  \E n \in accepted' : b \in Readers(n)' /\ b # kept'[n][1]
    BY <2>1, <2>3 DEF OnlyFurtherRecipientsSlipThrough, Readers
  <2> QED
    BY <2>1, <2>2, <2>3 DEF OnlyFurtherRecipientsSlipThrough
<1>3. ASSUME NEW a \in Addresses, Unsuppress(a) PROVE OnlyFurtherRecipientsSlipThrough'
  BY <1>3, NobodyNewSlips DEF Unsuppress
<1>4. CASE KeyEnds \/ SuspendDomain \/ MarkDomainVerified \/ \E m \in Messages : LinkLapses(m)
  BY <1>4, NobodyNewSlips DEF KeyEnds, SuspendDomain, MarkDomainVerified, LinkLapses
<1>5. CASE UNCHANGED vars
  BY <1>5, NobodyNewSlips DEF vars
<1> QED
  BY <1>1, <1>2, <1>3, <1>4, <1>5 DEF Next, Permission

(* Only a further recipient of a message can be told that no mail will     *)
(* come and yet not be suppressed.                                         *)
THEOREM FirstRecipientsAreSuppressed == Spec => []OnlyFurtherRecipientsSlipThrough
<1>1. Init => OnlyFurtherRecipientsSlipThrough
  BY DEF Init, OnlyFurtherRecipientsSlipThrough
<1> QED
  BY <1>1, InitInv, NextInv, NextSlips, PTL DEF Spec
=============================================================================
