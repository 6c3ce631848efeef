--------------------------- MODULE SendIntakeProofs ---------------------------
(***************************************************************************)
(* Proofs about SendIntake, for any finite set of concurrent handlers, any *)
(* API keys, idempotency keys, bodies and recipients, any quota and any    *)
(* number of calls and faults.                                             *)
(***************************************************************************)
EXTENDS SendIntake, FiniteSetTheorems, TLAPS

-----------------------------------------------------------------------------
(* Type correctness. A handler that is not idle serves a call.             *)

ServesACall == \A h \in Handlers : pc[h] # "idle" => call[h] \in Calls

TypeInv == TypeOK /\ ServesACall

(* Nobody serves a call at the start. *)
LEMMA InitType == Init => TypeInv
BY ConstantsAssumption DEF Init, TypeInv, TypeOK, ServesACall, NoReply, Codes, Steps

(* What an existing record answers is a code and an id. *)
LEMMA RecalledType ==
  ASSUME NEW r \in RecordRow, NEW c \in Calls
  PROVE  Recalled(r, c) \in [code : Codes, id : 0..MaxCalls]
BY ConstantsAssumption DEF Recalled, RecordRow, Codes

(* The state after an answer. *)
LEMMA AnswerType ==
  ASSUME TypeInv, NEW h \in Handlers, NEW code \in Codes, NEW id \in 0..MaxCalls,
         Answer(h, code, id), call' = call
  PROVE  /\ pc' \in [Handlers -> Steps]
         /\ kept' \in [Handlers -> SUBSET Addresses]
         /\ reply' \in [Handlers -> [code : Codes, id : 0..MaxCalls]]
         /\ ServesACall'
BY DEF TypeInv, TypeOK, ServesACall, Answer, Goto, Steps

(* What the commit stores. *)
LEMMA StoreType ==
  ASSUME TypeInv, NEW h \in Handlers, pc[h] = "insert", Store(h)
  PROVE  /\ messages' \subseteq MessageRow
         /\ messages \subseteq messages'
         /\ records' \subseteq RecordRow
<1>1. call[h] \in Calls /\ kept[h] \in SUBSET Addresses
  BY DEF TypeInv, TypeOK, ServesACall
<1>c. /\ call[h].n \in 1..MaxCalls /\ call[h].key \in Keys
      /\ call[h].idem \in IdemKeys \cup {NoIdem} /\ call[h].body \in Bodies
  BY <1>1 DEF Calls
<1>m. [id |-> call[h].n, key |-> call[h].key, idem |-> call[h].idem,
       body |-> call[h].body, recipients |-> kept[h]] \in MessageRow
  BY <1>1, <1>c DEF MessageRow
<1>2. messages' \subseteq MessageRow /\ messages \subseteq messages'
  BY <1>m DEF Store, TypeInv, TypeOK
<1>3. ASSUME NEW r \in RecordRow
      PROVE  [r EXCEPT !.message = call[h].n, !.tx = Nobody] \in RecordRow
  <2>1. call[h].n \in 0..MaxCalls /\ Nobody \in Handlers \cup {Nobody}
    BY <1>c, ConstantsAssumption
  <2> QED
    BY <2>1 DEF RecordRow
<1>4. records' \subseteq RecordRow
  BY <1>3 DEF Store, TypeInv, TypeOK
<1> QED
  BY <1>2, <1>4

(* Every action keeps the state typed. *)
LEMMA NextType == TypeInv /\ [Next]_vars => TypeInv'
<1> SUFFICES ASSUME TypeInv, [Next]_vars PROVE TypeInv'
  OBVIOUS
<1> USE DEF env, store, mine, counts
<1>1. CASE Environment
  <2>1. /\ active' \subseteq Keys /\ suppressed' \subseteq Addresses /\ verified' \in BOOLEAN
        /\ late' \subseteq Scheduled /\ aged' \subseteq {m.id : m \in messages}
    BY <1>1 DEF Environment, KeyEnds, Suppress, Unsuppress, DomainChanges,
       ScheduledTimePasses, MessageAges, TypeInv, TypeOK
  <2>2. /\ messages' = messages /\ records' = records /\ calls' = calls /\ faults' = faults
        /\ pc' = pc /\ call' = call /\ kept' = kept /\ reply' = reply /\ known' = known
    BY <1>1 DEF Environment, KeyEnds, Suppress, Unsuppress, DomainChanges,
       ScheduledTimePasses, MessageAges
  <2> QED
    BY <2>1, <2>2 DEF TypeInv, TypeOK, ServesACall
<1>2. ASSUME NEW h \in Handlers, NEW c \in Calls, Receive(h, c) PROVE TypeInv'
  <2>1. (IF {r \in Committed(c.key, c.idem) : r.body = c.body} = {} THEN 0
         ELSE (CHOOSE r \in {r \in Committed(c.key, c.idem) : r.body = c.body} : TRUE).message)
        \in 0..MaxCalls
    <3> DEFINE same == {r \in Committed(c.key, c.idem) : r.body = c.body}
    <3>1. same \subseteq RecordRow
      BY DEF Committed, TypeInv, TypeOK
    <3>2. same # {} => (CHOOSE r \in same : TRUE) \in same
      <4> HIDE DEF same
      <4> QED
        BY Zenon
    <3> HIDE DEF same
    <3>3. same # {} => (CHOOSE r \in same : TRUE).message \in 0..MaxCalls
      BY <3>1, <3>2 DEF RecordRow
    <3>4. (IF same = {} THEN 0 ELSE (CHOOSE r \in same : TRUE).message) \in 0..MaxCalls
      BY <3>3, ConstantsAssumption
    <3> QED
      BY <3>4 DEF same
  <2>2. known' \in [Handlers -> 0..MaxCalls]
    BY <1>2, <2>1 DEF Receive, TypeInv, TypeOK
  <2>3. /\ calls' \in 0..MaxCalls
        /\ call' \in [Handlers -> Calls \cup {NoCall}]
        /\ reply' \in [Handlers -> [code : Codes, id : 0..MaxCalls]]
        /\ pc' \in [Handlers -> Steps]
        /\ ServesACall'
    BY <1>2, ConstantsAssumption DEF Receive, Goto, NoReply, Codes, Steps, TypeInv, TypeOK,
       ServesACall
  <2> QED
    BY <1>2, <2>2, <2>3 DEF Receive, TypeInv, TypeOK
<1>3. ASSUME NEW h \in Handlers, Authenticate(h) PROVE TypeInv'
  BY <1>3 DEF Authenticate, Goto, Steps, TypeInv, TypeOK, ServesACall
<1>a. ASSUME NEW h \in Handlers, NEW code \in Codes, NEW id \in 0..MaxCalls,
             Answer(h, code, id), call' = call, known' = known,
             active' = active, suppressed' = suppressed, verified' = verified,
             late' = late, aged' = aged, calls' = calls, faults' \in 0..MaxFaults,
             messages' \subseteq MessageRow, messages \subseteq messages',
             records' \subseteq RecordRow
      PROVE  TypeInv'
  <2>1. aged' \subseteq {m.id : m \in messages'}
    BY <1>a DEF TypeInv, TypeOK
  <2> QED
    BY <1>a, <2>1, AnswerType DEF TypeInv, TypeOK
<1>r. ASSUME NEW h \in Handlers, NEW code \in Codes, NEW id \in 0..MaxCalls,
             Answer(h, code, id), UNCHANGED <<env, store, counts, call, known>>
      PROVE  TypeInv'
  BY <1>a, <1>r DEF TypeInv, TypeOK
<1>4. ASSUME NEW h \in Handlers, RejectKey(h) PROVE TypeInv'
  BY <1>4, <1>r, ConstantsAssumption DEF RejectKey, Codes
<1>5. ASSUME NEW h \in Handlers, FilterSuppressed(h) PROVE TypeInv'
  <2>1. CASE Answer(h, "422", 0)
    BY <1>5, <2>1, <1>r, ConstantsAssumption DEF FilterSuppressed, Codes
  <2>2. CASE ~Answer(h, "422", 0)
    BY <1>5, <2>2, ConstantsAssumption DEF FilterSuppressed, Allowed, Goto, Steps, Calls,
       TypeInv, TypeOK, ServesACall
  <2> QED
    BY <2>1, <2>2
<1>6. ASSUME NEW h \in Handlers, CheckDomain(h) PROVE TypeInv'
  <2>1. CASE Answer(h, "422", 0)
    BY <1>6, <2>1, <1>r, ConstantsAssumption DEF CheckDomain, Codes
  <2>2. CASE ~Answer(h, "422", 0)
    BY <1>6, <2>2 DEF CheckDomain, Goto, Steps, TypeInv, TypeOK, ServesACall
  <2> QED
    BY <2>1, <2>2
<1>7. ASSUME NEW h \in Handlers, CheckQuota(h) PROVE TypeInv'
  <2>1. CASE Answer(h, "429", 0)
    BY <1>7, <2>1, <1>r, ConstantsAssumption DEF CheckQuota, Codes
  <2>2. CASE ~Answer(h, "429", 0)
    BY <1>7, <2>2 DEF CheckQuota, Goto, Steps, TypeInv, TypeOK, ServesACall
  <2> QED
    BY <2>1, <2>2
<1>8. ASSUME NEW h \in Handlers, ClaimIdempotency(h) PROVE TypeInv'
  <2>1. call[h] \in Calls
    BY <1>8 DEF ClaimIdempotency, TypeInv, ServesACall
  <2>2. records' \subseteq RecordRow
    BY <1>8, <2>1, ConstantsAssumption DEF ClaimIdempotency, RecordRow, Calls, TypeInv, TypeOK
  <2> QED
    BY <1>8, <2>2 DEF ClaimIdempotency, Goto, Steps, TypeInv, TypeOK, ServesACall
<1>9. ASSUME NEW h \in Handlers, Replay(h) PROVE TypeInv'
  <2>1. PICK r \in Committed(call[h].key, call[h].idem) :
          Answer(h, Recalled(r, call[h]).code, Recalled(r, call[h]).id)
    BY <1>9 DEF Replay
  <2>2. r \in RecordRow /\ call[h] \in Calls
    BY <1>9, <2>1 DEF Replay, Committed, TypeInv, TypeOK, ServesACall
  <2>3. Recalled(r, call[h]).code \in Codes /\ Recalled(r, call[h]).id \in 0..MaxCalls
    BY <2>2, RecalledType
  <2> QED
    BY <1>9, <2>1, <2>3, <1>r DEF Replay
<1>10. ASSUME NEW h \in Handlers, Commit(h) \/ CommitUnacknowledged(h) PROVE TypeInv'
  <2>1. pc[h] = "insert" /\ Store(h)
    BY <1>10 DEF Commit, CommitUnacknowledged
  <2>2. call[h].n \in 0..MaxCalls
    BY <2>1, ConstantsAssumption DEF TypeInv, ServesACall, Calls
  <2>3. CASE Commit(h)
    BY <2>1, <2>2, <2>3, <1>a, StoreType DEF Commit, Codes, TypeInv, TypeOK
  <2>4. CASE CommitUnacknowledged(h)
    BY <2>1, <2>4, <1>a, StoreType, ConstantsAssumption DEF CommitUnacknowledged, Fault,
       Codes, TypeInv, TypeOK
  <2> QED
    BY <1>10, <2>3, <2>4
<1>11. ASSUME NEW h \in Handlers, Rollback(h) PROVE TypeInv'
  BY <1>11, <1>a, ConstantsAssumption DEF Rollback, Fault, Codes, TypeInv, TypeOK
<1>12. ASSUME NEW h \in Handlers, ReadFails(h) PROVE TypeInv'
  <2>1. PICK code \in {"401", "422", "500"} : Answer(h, code, 0)
    BY <1>12 DEF ReadFails
  <2>2. code \in Codes /\ 0 \in 0..MaxCalls /\ faults' \in 0..MaxFaults
    BY <1>12, <2>1, ConstantsAssumption DEF ReadFails, Fault, Codes, TypeInv, TypeOK
  <2> QED
    BY <1>12, <2>1, <2>2, <1>a DEF ReadFails, TypeInv, TypeOK
<1>13. CASE UNCHANGED vars
  BY <1>13 DEF vars, TypeInv, TypeOK, ServesACall
<1> QED
  BY <1>1, <1>2, <1>3, <1>4, <1>5, <1>6, <1>7, <1>8, <1>9, <1>10, <1>11, <1>12, <1>13
     DEF Next, Progress, Trouble
-----------------------------------------------------------------------------
(* Message ids. A call's number is taken by no message and no other call.  *)

IdsAreFresh ==
  /\ \A m, n \in messages : m.id = n.id => m = n
  /\ \A m \in messages : m.id <= calls
  /\ \A h \in Handlers : pc[h] # "idle" =>
       /\ call[h].n <= calls
       /\ \A m \in messages : m.id # call[h].n
       /\ \A g \in Handlers \ {h} : pc[g] # "idle" => call[g].n # call[h].n

(* There is no message and no call at the start. *)
LEMMA InitIds == Init => IdsAreFresh
BY DEF Init, IdsAreFresh

(* What the commit adds to the table. *)
NewMessage(h) ==
  [id |-> call[h].n, key |-> call[h].key, idem |-> call[h].idem, body |-> call[h].body,
   recipients |-> kept[h]]

(* A step that stores no message and starts no call. *)
LEMMA QuietIds ==
  ASSUME IdsAreFresh, messages' = messages, calls' = calls, call' = call,
         \A h \in Handlers : pc'[h] # "idle" => pc[h] # "idle"
  PROVE  IdsAreFresh'
BY DEF IdsAreFresh

(* A handler that stores its message is done with the call. *)
LEMMA StoreIds ==
  ASSUME TypeInv, IdsAreFresh, NEW h \in Handlers, pc[h] = "insert", Store(h),
         pc'[h] = "idle", \A g \in Handlers \ {h} : pc'[g] = pc[g],
         calls' = calls, call' = call
  PROVE  IdsAreFresh'
<1>1. messages' = messages \cup {NewMessage(h)} /\ NewMessage(h).id = call[h].n
  BY DEF Store, NewMessage
<1>2. /\ call[h].n <= calls
      /\ \A m \in messages : m.id # call[h].n
      /\ \A g \in Handlers \ {h} : pc[g] # "idle" => call[g].n # call[h].n
  BY DEF IdsAreFresh
<1>3. \A m, n \in messages' : m.id = n.id => m = n
  BY <1>1, <1>2 DEF IdsAreFresh
<1>4. \A m \in messages' : m.id <= calls'
  BY <1>1, <1>2 DEF IdsAreFresh
<1>5. ASSUME NEW g \in Handlers, pc'[g] # "idle"
      PROVE  /\ call[g].n <= calls
             /\ \A m \in messages' : m.id # call[g].n
             /\ \A f \in Handlers \ {g} : pc'[f] # "idle" => call[f].n # call[g].n
  BY <1>1, <1>2, <1>5 DEF IdsAreFresh
<1> QED
  BY <1>3, <1>4, <1>5 DEF IdsAreFresh

(* Every action keeps ids fresh. *)
LEMMA NextIds == TypeInv /\ IdsAreFresh /\ [Next]_vars => IdsAreFresh'
<1> SUFFICES ASSUME TypeInv, IdsAreFresh, [Next]_vars PROVE IdsAreFresh'
  OBVIOUS
<1> USE DEF env, store, mine, counts, Goto, Answer
<1>n. pc \in [Handlers -> Steps] /\ calls \in Nat
  BY ConstantsAssumption DEF TypeInv, TypeOK
<1>1. CASE Environment \/ UNCHANGED vars
  BY <1>1, QuietIds DEF Environment, KeyEnds, Suppress, Unsuppress, DomainChanges,
     ScheduledTimePasses, MessageAges, vars
<1>2. ASSUME NEW h \in Handlers, NEW c \in Calls, Receive(h, c) PROVE IdsAreFresh'
  <2>1. /\ messages' = messages /\ calls' = calls + 1 /\ c.n = calls + 1
        /\ call'[h] = c /\ pc[h] = "idle"
        /\ \A g \in Handlers \ {h} : call'[g] = call[g] /\ pc'[g] = pc[g]
    BY <1>2, <1>n DEF Receive, TypeInv, TypeOK
  <2>2. \A m \in messages : m.id \in Nat /\ m.id <= calls
    BY DEF IdsAreFresh, TypeInv, TypeOK, MessageRow
  <2>3. \A g \in Handlers : pc[g] # "idle" => call[g].n \in Nat /\ call[g].n <= calls
    BY DEF IdsAreFresh, TypeInv, ServesACall, Calls
  <2>4. ASSUME NEW g \in Handlers, pc'[g] # "idle"
        PROVE  /\ call'[g].n <= calls'
               /\ \A m \in messages' : m.id # call'[g].n
               /\ \A f \in Handlers \ {g} : pc'[f] # "idle" => call'[f].n # call'[g].n
    <3>1. CASE g = h
      BY <1>n, <2>1, <2>2, <2>3, <3>1
    <3>2. CASE g # h
      BY <1>n, <2>1, <2>2, <2>3, <2>4, <3>2 DEF IdsAreFresh
    <3> QED
      BY <3>1, <3>2
  <2> QED
    BY <1>n, <2>1, <2>2, <2>4 DEF IdsAreFresh
<1>3. ASSUME NEW h \in Handlers,
             Authenticate(h) \/ RejectKey(h) \/ FilterSuppressed(h) \/ CheckDomain(h)
             \/ CheckQuota(h) \/ ClaimIdempotency(h) \/ Replay(h) \/ Rollback(h) \/ ReadFails(h)
      PROVE  IdsAreFresh'
  <2>1. /\ messages' = messages /\ calls' = calls /\ call' = call
        /\ \A g \in Handlers \ {h} : pc'[g] = pc[g]
        /\ pc[h] # "idle"
    BY <1>3, <1>n DEF Authenticate, RejectKey, FilterSuppressed, CheckDomain, CheckQuota,
       ClaimIdempotency, Replay, Rollback, ReadFails
  <2> QED
    BY <2>1, QuietIds
<1>4. ASSUME NEW h \in Handlers, Commit(h) \/ CommitUnacknowledged(h) PROVE IdsAreFresh'
  BY <1>4, <1>n, StoreIds DEF Commit, CommitUnacknowledged
<1> QED
  BY <1>1, <1>2, <1>3, <1>4 DEF Next, Progress, Trouble

-----------------------------------------------------------------------------
(* Idempotency records. At most one record exists for a key; it is held by *)
(* the transaction that will link it, or linked to its message.            *)

RecordsAreUnique ==
  \A r, s \in records : r.key = s.key /\ r.idem = s.idem => r = s

ClaimsAreHeld ==
  /\ \A r \in records : r.tx # Nobody =>
       /\ pc[r.tx] = "insert"
       /\ call[r.tx].key = r.key /\ call[r.tx].idem = r.idem /\ call[r.tx].body = r.body
  /\ \A h \in Handlers : pc[h] = "insert" /\ call[h].idem # NoIdem =>
       \E r \in records : r.tx = h

RecordsAreLinked ==
  /\ \A r \in records : r.tx = Nobody =>
       \E m \in messages : /\ m.id = r.message
                           /\ m.key = r.key /\ m.idem = r.idem /\ m.body = r.body
  /\ \A m \in messages : m.idem # NoIdem =>
       \E r \in records : /\ r.tx = Nobody /\ r.message = m.id
                          /\ r.key = m.key /\ r.idem = m.idem

RecordInv == RecordsAreUnique /\ ClaimsAreHeld /\ RecordsAreLinked

(* There is no record and no message at the start. *)
LEMMA InitRecords == Init => RecordInv
BY DEF Init, RecordInv, RecordsAreUnique, ClaimsAreHeld, RecordsAreLinked

(* A record is its columns. *)
LEMMA SameRecord ==
  ASSUME NEW r \in RecordRow, NEW s \in RecordRow, r.key = s.key, r.idem = s.idem,
         r.body = s.body, r.message = s.message, r.tx = s.tx
  PROVE  r = s
BY DEF RecordRow

(* A step that writes nothing and neither enters nor leaves a transaction. *)
LEMMA QuietRecords ==
  ASSUME TypeInv, RecordInv, messages' = messages, records' = records,
         \A h \in Handlers : pc'[h] = "insert" <=> pc[h] = "insert",
         \A h \in Handlers : pc[h] = "insert" => call'[h] = call[h]
  PROVE  RecordInv'
<1>1. \A r \in records : r.tx # Nobody => r.tx \in Handlers
  BY DEF TypeInv, TypeOK, RecordRow
<1>2. ClaimsAreHeld'
  BY <1>1 DEF RecordInv, ClaimsAreHeld
<1>3. RecordsAreUnique' /\ RecordsAreLinked'
  BY DEF RecordInv, RecordsAreUnique, RecordsAreLinked
<1> QED
  BY <1>2, <1>3 DEF RecordInv

(* The record of a call as the commit leaves it. *)
LinkedRecord(s, h) ==
  /\ s.tx = Nobody /\ s.message = call[h].n
  /\ s.key = call[h].key /\ s.idem = call[h].idem /\ s.body = call[h].body

(* What the commit does to the records: the handler's own is linked, the   *)
(* others stay.                                                            *)
LEMMA StoreLinks ==
  ASSUME TypeInv, RecordInv, NEW h \in Handlers, pc[h] = "insert", Store(h)
  PROVE  /\ \A r \in records : r.tx # h => r \in records'
         /\ \A s \in records' :
              \/ s \in records /\ s.tx # h
              \/ LinkedRecord(s, h) /\ \E r \in records : r.tx = h
         /\ call[h].idem # NoIdem => \E s \in records' : LinkedRecord(s, h)
<1>1. records' = {IF r.tx = h THEN [r EXCEPT !.message = call[h].n, !.tx = Nobody] ELSE r :
                    r \in records}
  BY DEF Store
<1>2. ASSUME NEW r \in records, r.tx = h
      PROVE  LinkedRecord([r EXCEPT !.message = call[h].n, !.tx = Nobody], h)
  <2>1. call[h].key = r.key /\ call[h].idem = r.idem /\ call[h].body = r.body
    BY <1>2, ConstantsAssumption DEF RecordInv, ClaimsAreHeld
  <2>2. r \in RecordRow
    BY DEF TypeInv, TypeOK
  <2> QED
    BY <2>1, <2>2 DEF LinkedRecord, RecordRow
<1>3. \A r \in records : r.tx # h => r \in records'
  BY <1>1
<1>4. ASSUME NEW s \in records'
      PROVE  \/ s \in records /\ s.tx # h
             \/ LinkedRecord(s, h) /\ \E r \in records : r.tx = h
  <2>1. PICK r \in records :
          s = IF r.tx = h THEN [r EXCEPT !.message = call[h].n, !.tx = Nobody] ELSE r
    BY <1>1
  <2>2. CASE r.tx = h
    BY <2>1, <2>2, <1>2
  <2>3. CASE r.tx # h
    BY <2>1, <2>3
  <2> QED
    BY <2>2, <2>3
<1>5. ASSUME call[h].idem # NoIdem PROVE \E s \in records' : LinkedRecord(s, h)
  <2>1. PICK r \in records : r.tx = h
    BY <1>5 DEF RecordInv, ClaimsAreHeld
  <2>2. [r EXCEPT !.message = call[h].n, !.tx = Nobody] \in records'
    BY <1>1, <2>1
  <2> QED
    BY <2>1, <2>2, <1>2
<1> QED
  BY <1>3, <1>4, <1>5

(* Message and link become visible together. *)
LEMMA StoreRecords ==
  ASSUME TypeInv, TypeInv', RecordInv, NEW h \in Handlers, pc[h] = "insert", Store(h),
         pc'[h] = "idle", \A g \in Handlers \ {h} : pc'[g] = pc[g], call' = call
  PROVE  RecordInv'
<1>m. /\ messages' = messages \cup {NewMessage(h)}
      /\ NewMessage(h).id = call[h].n /\ NewMessage(h).key = call[h].key
      /\ NewMessage(h).idem = call[h].idem /\ NewMessage(h).body = call[h].body
  BY DEF Store, NewMessage
<1>t. records \subseteq RecordRow /\ records' \subseteq RecordRow /\ Nobody \notin Handlers
  BY ConstantsAssumption DEF TypeInv, TypeOK
<1>1. ASSUME NEW r \in records', NEW s \in records', r.key = s.key, r.idem = s.idem
      PROVE  r = s
  <2>1. CASE (r \in records /\ r.tx # h) /\ (s \in records /\ s.tx # h)
    BY <1>1, <2>1 DEF RecordInv, RecordsAreUnique
  <2>2. CASE LinkedRecord(r, h) /\ LinkedRecord(s, h)
    BY <1>t, <2>2, SameRecord DEF LinkedRecord
  <2>3. ASSUME NEW a \in records, a.tx # h, NEW b \in records', LinkedRecord(b, h),
               a.key = b.key, a.idem = b.idem, \E o \in records : o.tx = h
        PROVE  FALSE
    <3>1. PICK o \in records : o.tx = h
      BY <2>3
    <3>2. o.key = call[h].key /\ o.idem = call[h].idem
      BY <1>t, <3>1 DEF RecordInv, ClaimsAreHeld
    <3>3. a = o
      BY <2>3, <3>2 DEF LinkedRecord, RecordInv, RecordsAreUnique
    <3> QED
      BY <2>3, <3>1, <3>3
  <2> QED
    BY <1>1, <2>1, <2>2, <2>3, StoreLinks
<1>2. RecordsAreUnique'
  BY <1>1 DEF RecordsAreUnique
<1>3. ASSUME NEW r \in records', r.tx # Nobody
      PROVE  /\ pc'[r.tx] = "insert"
             /\ call[r.tx].key = r.key /\ call[r.tx].idem = r.idem /\ call[r.tx].body = r.body
  <2>1. r \in records /\ r.tx # h
    BY <1>3, StoreLinks DEF LinkedRecord
  <2>2. r.tx \in Handlers
    BY <1>t, <1>3, <2>1 DEF RecordRow
  <2> QED
    BY <1>3, <2>1, <2>2 DEF RecordInv, ClaimsAreHeld
<1>4. ASSUME NEW g \in Handlers, pc'[g] = "insert", call[g].idem # NoIdem
      PROVE  \E r \in records' : r.tx = g
  <2>1. g # h /\ pc[g] = "insert"
    BY <1>4
  <2>2. PICK r \in records : r.tx = g
    BY <1>4, <2>1 DEF RecordInv, ClaimsAreHeld
  <2> QED
    BY <2>1, <2>2, StoreLinks
<1>5. ClaimsAreHeld'
  BY <1>3, <1>4 DEF ClaimsAreHeld
<1>6. ASSUME NEW r \in records', r.tx = Nobody
      PROVE  \E m \in messages' : /\ m.id = r.message
                                  /\ m.key = r.key /\ m.idem = r.idem /\ m.body = r.body
  <2>1. CASE r \in records
    BY <1>m, <1>6, <2>1 DEF RecordInv, RecordsAreLinked
  <2>2. CASE LinkedRecord(r, h)
    BY <1>m, <2>2 DEF LinkedRecord
  <2> QED
    BY <2>1, <2>2, StoreLinks
<1>7. ASSUME NEW m \in messages', m.idem # NoIdem
      PROVE  \E r \in records' : /\ r.tx = Nobody /\ r.message = m.id
                                 /\ r.key = m.key /\ r.idem = m.idem
  <2>1. CASE m \in messages
    <3>1. PICK r \in records : /\ r.tx = Nobody /\ r.message = m.id
                               /\ r.key = m.key /\ r.idem = m.idem
      BY <1>7, <2>1 DEF RecordInv, RecordsAreLinked
    <3>2. r \in records'
      BY <1>t, <3>1, StoreLinks
    <3> QED
      BY <3>1, <3>2
  <2>2. CASE m = NewMessage(h)
    <3>1. PICK s \in records' : LinkedRecord(s, h)
      BY <1>m, <1>7, <2>2, StoreLinks
    <3> QED
      BY <1>m, <2>2, <3>1 DEF LinkedRecord
  <2> QED
    BY <1>m, <2>1, <2>2
<1>8. RecordsAreLinked'
  BY <1>6, <1>7 DEF RecordsAreLinked
<1> QED
  BY <1>2, <1>5, <1>8 DEF RecordInv

(* claimIdempotency adds the record of a key that had none. *)
LEMMA ClaimRecords ==
  ASSUME TypeInv, RecordInv, NEW h \in Handlers, ClaimIdempotency(h)
  PROVE  RecordInv'
<1> DEFINE new == [key |-> call[h].key, idem |-> call[h].idem, body |-> call[h].body,
                   message |-> 0, tx |-> h]
<1>1. /\ pc[h] = "claim" /\ pc'[h] = "insert" /\ messages' = messages /\ call' = call
      /\ \A g \in Handlers \ {h} : pc'[g] = pc[g]
      /\ \/ call[h].idem = NoIdem /\ records' = records
         \/ Existing(call[h]) = {} /\ records' = records \cup {new}
  BY DEF ClaimIdempotency, Goto, TypeInv, TypeOK
<1>2. \A r \in records : r.tx # h /\ (r.tx # Nobody => r.tx \in Handlers)
  BY <1>1, ConstantsAssumption DEF RecordInv, ClaimsAreHeld, TypeInv, TypeOK, RecordRow
<1>3. h # Nobody
  BY ConstantsAssumption
<1>4. CASE call[h].idem = NoIdem /\ records' = records
  BY <1>1, <1>2, <1>4 DEF RecordInv, RecordsAreUnique, ClaimsAreHeld, RecordsAreLinked
<1>5. CASE Existing(call[h]) = {} /\ records' = records \cup {new}
  <2>1. \A r \in records : ~(r.key = new.key /\ r.idem = new.idem)
    BY <1>5 DEF Existing
  <2>2. RecordsAreUnique'
    BY <1>5, <2>1 DEF RecordInv, RecordsAreUnique
  <2>3. ASSUME NEW r \in records', r.tx # Nobody
        PROVE  /\ pc'[r.tx] = "insert"
               /\ call'[r.tx].key = r.key /\ call'[r.tx].idem = r.idem
               /\ call'[r.tx].body = r.body
    <3>1. CASE r \in records
      BY <1>1, <1>2, <2>3, <3>1 DEF RecordInv, ClaimsAreHeld
    <3>2. CASE r = new
      BY <1>1, <3>2
    <3> QED
      BY <1>5, <3>1, <3>2
  <2>4. ASSUME NEW g \in Handlers, pc'[g] = "insert", call'[g].idem # NoIdem
        PROVE  \E r \in records' : r.tx = g
    <3>1. CASE g = h
      <4>1. new \in records' /\ new.tx = h
        BY <1>5
      <4> QED
        BY <3>1, <4>1
    <3>2. CASE g # h
      BY <1>1, <1>5, <2>4, <3>2 DEF RecordInv, ClaimsAreHeld
    <3> QED
      BY <3>1, <3>2
  <2>5. ClaimsAreHeld'
    BY <2>3, <2>4 DEF ClaimsAreHeld
  <2>6. RecordsAreLinked'
    BY <1>1, <1>3, <1>5 DEF RecordInv, RecordsAreLinked
  <2> QED
    BY <2>2, <2>5, <2>6 DEF RecordInv
<1> QED
  BY <1>1, <1>4, <1>5

(* Every action keeps the records unique, held and linked. *)
LEMMA NextRecords == TypeInv /\ TypeInv' /\ RecordInv /\ [Next]_vars => RecordInv'
<1> SUFFICES ASSUME TypeInv, TypeInv', RecordInv, [Next]_vars PROVE RecordInv'
  OBVIOUS
<1> USE DEF env, store, mine, counts, Goto, Answer
<1>n. pc \in [Handlers -> Steps]
  BY DEF TypeInv, TypeOK
<1>1. CASE Environment \/ UNCHANGED vars
  BY <1>1, QuietRecords DEF Environment, KeyEnds, Suppress, Unsuppress, DomainChanges,
     ScheduledTimePasses, MessageAges, vars
<1>2. ASSUME NEW h \in Handlers, NEW c \in Calls, Receive(h, c) PROVE RecordInv'
  <2>1. /\ messages' = messages /\ records' = records
        /\ pc[h] = "idle" /\ pc'[h] = "auth"
        /\ \A g \in Handlers \ {h} : call'[g] = call[g] /\ pc'[g] = pc[g]
    BY <1>2, <1>n DEF Receive, TypeInv, TypeOK
  <2> QED
    BY <2>1, QuietRecords
<1>3. ASSUME NEW h \in Handlers,
             Authenticate(h) \/ RejectKey(h) \/ FilterSuppressed(h) \/ CheckDomain(h)
             \/ CheckQuota(h) \/ Replay(h) \/ ReadFails(h)
      PROVE  RecordInv'
  <2>1. /\ messages' = messages /\ records' = records /\ call' = call
        /\ \A g \in Handlers \ {h} : pc'[g] = pc[g]
        /\ pc[h] # "insert" /\ pc'[h] # "insert"
    BY <1>3, <1>n DEF Authenticate, RejectKey, FilterSuppressed, CheckDomain, CheckQuota,
       Replay, ReadFails
  <2> QED
    BY <2>1, QuietRecords
<1>4. ASSUME NEW h \in Handlers, Commit(h) \/ CommitUnacknowledged(h) PROVE RecordInv'
  BY <1>4, <1>n, StoreRecords DEF Commit, CommitUnacknowledged
<1>5. ASSUME NEW h \in Handlers, Rollback(h) PROVE RecordInv'
  <2>1. /\ messages' = messages /\ records' = {r \in records : r.tx # h} /\ call' = call
        /\ pc'[h] = "idle" /\ \A g \in Handlers \ {h} : pc'[g] = pc[g]
    BY <1>5, <1>n DEF Rollback
  <2>2. \A r \in records : r.tx # Nobody => r.tx \in Handlers
    BY DEF TypeInv, TypeOK, RecordRow
  <2>3. RecordsAreUnique'
    BY <2>1 DEF RecordInv, RecordsAreUnique
  <2>4. ClaimsAreHeld'
    BY <2>1, <2>2 DEF RecordInv, ClaimsAreHeld
  <2>5. RecordsAreLinked'
    BY <2>1, ConstantsAssumption DEF RecordInv, RecordsAreLinked
  <2> QED
    BY <2>3, <2>4, <2>5 DEF RecordInv
<1> QED
  BY <1>1, <1>2, <1>3, <1>4, <1>5, ClaimRecords DEF Next, Progress, Trouble

-----------------------------------------------------------------------------
(* Answers. A 202 names a stored message; a call that had been accepted    *)
(* before finds its record, which nothing removes.                         *)

ReplyIsBacked(h) ==
  /\ reply[h].code # "409"
  /\ reply[h].code = "202" =>
       /\ \E m \in messages : /\ m.id = reply[h].id
                              /\ m.key = call[h].key /\ m.body = call[h].body
       /\ known[h] # 0 => reply[h].id = known[h]

KnownIsRecorded(h) ==
  known[h] # 0 => \E r \in Committed(call[h].key, call[h].idem) :
                     r.body = call[h].body /\ r.message = known[h]

ReplyInv == \A h \in Handlers : ReplyIsBacked(h) /\ KnownIsRecorded(h)

(* Nobody has been answered at the start. *)
LEMMA InitReplies == Init => ReplyInv
BY DEF Init, ReplyInv, ReplyIsBacked, KnownIsRecorded, NoReply

(* A message and a committed record stay, so an answer stays right. *)
LEMMA ReplyKept ==
  ASSUME ReplyInv, NEW h \in Handlers, messages \subseteq messages',
         \A r \in records : r.tx = Nobody => r \in records',
         call'[h] = call[h], known'[h] = known[h],
         reply'[h] = reply[h] \/ reply'[h].code \notin {"202", "409"}
  PROVE  ReplyIsBacked(h)' /\ KnownIsRecorded(h)'
<1>1. KnownIsRecorded(h)'
  BY DEF ReplyInv, KnownIsRecorded, Committed
<1>2. ReplyIsBacked(h)'
  BY DEF ReplyInv, ReplyIsBacked
<1> QED
  BY <1>1, <1>2

(* Messages and committed records are never removed. *)
LEMMA StoreIsKept ==
  ASSUME TypeInv, RecordInv, [Next]_vars
  PROVE  /\ messages \subseteq messages'
         /\ \A r \in records : r.tx = Nobody => r \in records'
<1> USE DEF env, store, mine, counts, Goto, Answer
<1>q. ASSUME UNCHANGED store
      PROVE  messages \subseteq messages' /\ \A r \in records : r.tx = Nobody => r \in records'
  BY <1>q
<1>1. ASSUME NEW h \in Handlers, Commit(h) \/ CommitUnacknowledged(h)
      PROVE  messages \subseteq messages' /\ \A r \in records : r.tx = Nobody => r \in records'
  <2>1. pc[h] = "insert" /\ Store(h) /\ h # Nobody
    BY <1>1, ConstantsAssumption DEF Commit, CommitUnacknowledged
  <2> QED
    BY <2>1, StoreLinks, StoreType
<1>2. ASSUME NEW h \in Handlers, Rollback(h) \/ ClaimIdempotency(h)
      PROVE  messages \subseteq messages' /\ \A r \in records : r.tx = Nobody => r \in records'
  BY <1>2, ConstantsAssumption DEF Rollback, ClaimIdempotency
<1> QED
  BY <1>q, <1>1, <1>2 DEF Next, Environment, KeyEnds, Suppress, Unsuppress, DomainChanges,
     ScheduledTimePasses, MessageAges, Receive, Progress, Trouble, Authenticate, RejectKey,
     FilterSuppressed, CheckDomain, CheckQuota, Replay, ReadFails, vars

(* Every action answers rightly. *)
LEMMA NextReplies ==
  TypeInv /\ RecordInv /\ ReplyInv /\ [Next]_vars => ReplyInv'
<1> SUFFICES ASSUME TypeInv, RecordInv, ReplyInv, [Next]_vars PROVE ReplyInv'
  OBVIOUS
<1> USE DEF env, store, mine, counts, Goto, Answer
<1>n. /\ reply \in [Handlers -> [code : Codes, id : 0..MaxCalls]]
      /\ call \in [Handlers -> Calls \cup {NoCall}] /\ known \in [Handlers -> 0..MaxCalls]
      /\ records \subseteq RecordRow
  BY DEF TypeInv, TypeOK
<1>k. ASSUME NEW h \in Handlers, call'[h] = call[h], known'[h] = known[h],
             reply'[h] = reply[h] \/ reply'[h].code \notin {"202", "409"}
      PROVE  ReplyIsBacked(h)' /\ KnownIsRecorded(h)'
  BY <1>k, StoreIsKept, ReplyKept
<1>1. CASE Environment \/ UNCHANGED vars
  <2>1. call' = call /\ known' = known /\ reply' = reply
    BY <1>1 DEF Environment, KeyEnds, Suppress, Unsuppress, DomainChanges,
       ScheduledTimePasses, MessageAges, vars
  <2> QED
    BY <1>k, <2>1 DEF ReplyInv
<1>2. ASSUME NEW h \in Handlers, NEW c \in Calls, Receive(h, c) PROVE ReplyInv'
  <2> DEFINE same == {r \in Committed(c.key, c.idem) : r.body = c.body}
  <2>1. /\ \A g \in Handlers \ {h} :
             call'[g] = call[g] /\ known'[g] = known[g] /\ reply'[g] = reply[g]
        /\ call'[h] = c /\ reply'[h] = NoReply /\ records' = records
        /\ known'[h] = IF same = {} THEN 0 ELSE (CHOOSE r \in same : TRUE).message
    BY <1>2, <1>n DEF Receive
  <2>2. same # {} => (CHOOSE r \in same : TRUE) \in same
    <3> HIDE DEF same
    <3> QED
      BY Zenon
  <2>3. known'[h] # 0 => \E r \in same : r.message = known'[h]
    <3> HIDE DEF same
    <3> QED
      BY <2>1, <2>2
  <2>4. KnownIsRecorded(h)'
    BY <2>1, <2>3 DEF KnownIsRecorded, Committed
  <2>5. ReplyIsBacked(h)'
    BY <2>1 DEF ReplyIsBacked, NoReply
  <2> QED
    BY <1>k, <2>1, <2>4, <2>5 DEF ReplyInv
<1>3. ASSUME NEW h \in Handlers,
             Authenticate(h) \/ RejectKey(h) \/ FilterSuppressed(h) \/ CheckDomain(h)
             \/ CheckQuota(h) \/ ClaimIdempotency(h) \/ CommitUnacknowledged(h)
             \/ Rollback(h) \/ ReadFails(h)
      PROVE  ReplyInv'
  <2>1. /\ call' = call /\ known' = known
        /\ \A g \in Handlers \ {h} : reply'[g] = reply[g]
        /\ reply' = reply \/ reply'[h].code \notin {"202", "409"}
    BY <1>3, <1>n DEF Authenticate, RejectKey, FilterSuppressed, CheckDomain, CheckQuota,
       ClaimIdempotency, CommitUnacknowledged, Rollback, ReadFails
  <2> QED
    BY <1>k, <2>1 DEF ReplyInv
<1>4. ASSUME NEW h \in Handlers, Replay(h) PROVE ReplyInv'
  <2>1. PICK r \in Committed(call[h].key, call[h].idem) :
          Answer(h, Recalled(r, call[h]).code, Recalled(r, call[h]).id)
    BY <1>4 DEF Replay
  <2>2. /\ call' = call /\ known' = known /\ messages' = messages /\ records' = records
        /\ \A g \in Handlers \ {h} : reply'[g] = reply[g]
        /\ reply'[h] = [code |-> Recalled(r, call[h]).code, id |-> Recalled(r, call[h]).id]
    BY <1>4, <1>n, <2>1 DEF Replay
  <2>3. r \in records /\ r.tx = Nobody /\ r.key = call[h].key /\ r.idem = call[h].idem
    BY <2>1 DEF Committed
  <2>4. PICK m \in messages : /\ m.id = r.message
                              /\ m.key = r.key /\ m.idem = r.idem /\ m.body = r.body
    BY <2>3 DEF RecordInv, RecordsAreLinked
  <2>5. r.message # 0 /\ r.message \in 0..MaxCalls
    BY <1>n, <2>3, <2>4 DEF TypeInv, TypeOK, MessageRow, RecordRow
  <2>6. KnownIsRecorded(h)'
    BY <2>2 DEF ReplyInv, KnownIsRecorded, Committed
  <2>7. CASE r.body # call[h].body
    <3>1. reply'[h].code = "mismatch"
      BY <2>2, <2>7 DEF Recalled
    <3> QED
      BY <1>k, <2>2, <3>1 DEF ReplyInv
  <2>8. CASE r.body = call[h].body
    <3>1. reply'[h].code = "202" /\ reply'[h].id = r.message
      BY <2>2, <2>5, <2>8 DEF Recalled
    <3>2. known[h] # 0 => known[h] = r.message
      <4> SUFFICES ASSUME known[h] # 0 PROVE known[h] = r.message
        OBVIOUS
      <4>1. PICK s \in Committed(call[h].key, call[h].idem) : s.message = known[h]
        BY DEF ReplyInv, KnownIsRecorded
      <4>2. s = r
        BY <2>3, <4>1 DEF Committed, RecordInv, RecordsAreUnique
      <4> QED
        BY <4>1, <4>2
    <3>3. ReplyIsBacked(h)'
      BY <2>2, <2>3, <2>4, <2>8, <3>1, <3>2 DEF ReplyIsBacked
    <3> QED
      BY <1>k, <2>2, <2>6, <3>3 DEF ReplyInv
  <2> QED
    BY <2>7, <2>8
<1>5. ASSUME NEW h \in Handlers, Commit(h) PROVE ReplyInv'
  <2>1. /\ pc[h] = "insert" /\ call' = call /\ known' = known
        /\ \A g \in Handlers \ {h} : reply'[g] = reply[g]
        /\ reply'[h] = [code |-> "202", id |-> call[h].n]
        /\ NewMessage(h) \in messages'
    BY <1>5, <1>n DEF Commit, Store, NewMessage
  <2>2. known[h] = 0
    <3> SUFFICES ASSUME known[h] # 0 PROVE FALSE
      OBVIOUS
    <3>1. PICK r \in Committed(call[h].key, call[h].idem) : r.message = known[h]
      BY DEF ReplyInv, KnownIsRecorded
    <3>2. r \in records /\ r.tx = Nobody /\ r.key = call[h].key /\ r.idem = call[h].idem
      BY <3>1 DEF Committed
    <3>3. call[h].idem # NoIdem
      BY <1>n, <3>2, ConstantsAssumption DEF RecordRow
    <3>4. PICK s \in records : s.tx = h
      BY <2>1, <3>3 DEF RecordInv, ClaimsAreHeld
    <3>5. s.key = call[h].key /\ s.idem = call[h].idem /\ h # Nobody
      BY <3>4, ConstantsAssumption DEF RecordInv, ClaimsAreHeld
    <3>6. r = s
      BY <3>2, <3>4, <3>5 DEF RecordInv, RecordsAreUnique
    <3> QED
      BY <3>2, <3>4, <3>5, <3>6
  <2>3. ReplyIsBacked(h)'
    <3>1. /\ NewMessage(h).id = call[h].n /\ NewMessage(h).key = call[h].key
          /\ NewMessage(h).body = call[h].body
      BY DEF NewMessage
    <3> QED
      BY <2>1, <2>2, <3>1 DEF ReplyIsBacked
  <2>4. KnownIsRecorded(h)'
    BY <2>1, <2>2 DEF KnownIsRecorded
  <2> QED
    BY <1>k, <2>1, <2>3, <2>4 DEF ReplyInv
<1> QED
  BY <1>1, <1>2, <1>3, <1>4, <1>5 DEF Next, Progress, Trouble

-----------------------------------------------------------------------------
(* What follows.                                                           *)

Inv == TypeInv /\ IdsAreFresh /\ RecordInv /\ ReplyInv

(* The parts are inductive together. *)
LEMMA SafetyInvariant == Spec => []Inv
<1>1. Init => Inv
  BY InitType, InitIds, InitRecords, InitReplies DEF Inv
<1>2. Inv /\ [Next]_vars => Inv'
  BY NextType, NextIds, NextRecords, NextReplies DEF Inv
<1> QED
  BY <1>1, <1>2, PTL DEF Spec

(* The state is well typed and one idempotency key of one API key never    *)
(* yields two messages, whichever handlers race on it.                     *)
THEOREM IdempotencyKeyIsUsedOnce == Spec => []IntakeInv
<1>1. ASSUME Inv, NEW m \in messages, NEW n \in messages,
             m.idem # NoIdem, m.key = n.key, m.idem = n.idem
      PROVE  m = n
  <2>1. PICK r \in records : r.message = m.id /\ r.key = m.key /\ r.idem = m.idem
    BY <1>1 DEF Inv, RecordInv, RecordsAreLinked
  <2>2. PICK s \in records : s.message = n.id /\ s.key = n.key /\ s.idem = n.idem
    BY <1>1 DEF Inv, RecordInv, RecordsAreLinked
  <2>3. r = s
    BY <1>1, <2>1, <2>2 DEF Inv, RecordInv, RecordsAreUnique
  <2> QED
    BY <1>1, <2>1, <2>2, <2>3 DEF Inv, IdsAreFresh
<1>2. Inv => IntakeInv
  BY <1>1 DEF IntakeInv, OneMessagePerIdempotencyKey, Inv, TypeInv
<1> QED
  BY <1>2, SafetyInvariant, PTL

(* A committed record and its message are stored together or not at all,   *)
(* so 409 is never answered.                                               *)
THEOREM AcceptanceIsAllOrNothing == Spec => []AcceptanceIsAtomic
<1>1. Inv => AcceptanceIsAtomic
  BY DEF AcceptanceIsAtomic, Inv, RecordInv, RecordsAreLinked, ReplyInv, ReplyIsBacked
<1> QED
  BY <1>1, SafetyInvariant, PTL

(* A 202 names a stored message of the caller's key and body, and a replay *)
(* the message of the first acceptance.                                    *)
THEOREM AcceptedIsNamed == Spec => []AcceptedNamesItsMessage
<1>1. Inv => AcceptedNamesItsMessage
  BY DEF AcceptedNamesItsMessage, Inv, ReplyInv, ReplyIsBacked
<1> QED
  BY <1>1, SafetyInvariant, PTL

(* Whoever waits for an idempotency row waits for a transaction at work.   *)
THEOREM ClaimsEndWithTheirTransaction == Spec => []NoOrphanedClaim
<1>1. Inv => NoOrphanedClaim
  BY DEF NoOrphanedClaim, Inv, RecordInv, ClaimsAreHeld
<1> QED
  BY <1>1, SafetyInvariant, PTL
-----------------------------------------------------------------------------
(* The quota. A handler past the check stores at most one message before   *)
(* it is done; recent messages and such handlers stay below the bound.     *)

Recent(k)  == {m \in messages : m.key = k /\ m.id \notin aged}
Checked(k) == {h \in Handlers : pc[h] \in {"claim", "insert"} /\ call[h].key = k}

QuotaInv ==
  /\ IsFiniteSet(messages)
  /\ Quota > 0 => \A k \in Keys :
       Cardinality(Recent(k)) + Cardinality(Checked(k)) <= (Quota - 1) + Cardinality(Handlers)

(* A part of a finite set, and its size. *)
LEMMA FinitePart ==
  ASSUME NEW S, IsFiniteSet(S), NEW T \in SUBSET S
  PROVE  /\ IsFiniteSet(T) /\ Cardinality(T) \in Nat
         /\ Cardinality(S) \in Nat /\ Cardinality(T) <= Cardinality(S)
BY FS_Subset, FS_CardinalityType

(* There are finitely many messages and handlers. *)
LEMMA FiniteCounts ==
  ASSUME QuotaInv, NEW k
  PROVE  /\ IsFiniteSet(Recent(k)) /\ Cardinality(Recent(k)) \in Nat
         /\ IsFiniteSet(Checked(k)) /\ Cardinality(Checked(k)) \in Nat
         /\ Cardinality(Checked(k)) <= Cardinality(Handlers)
         /\ Cardinality(Handlers) \in Nat
<1>1. IsFiniteSet(messages) /\ Recent(k) \in SUBSET messages
  BY DEF QuotaInv, Recent
<1>2. IsFiniteSet(Handlers) /\ Checked(k) \in SUBSET Handlers
  BY ConstantsAssumption DEF Checked
<1> QED
  BY <1>1, <1>2, FinitePart

(* Nothing is stored and nobody has passed the check at the start. *)
LEMMA InitQuota == Init => QuotaInv
<1> SUFFICES ASSUME Init PROVE QuotaInv
  OBVIOUS
<1>1. messages = {} /\ \A k \in Keys : Recent(k) = {} /\ Checked(k) = {}
  BY DEF Init, Recent, Checked
<1>2. Cardinality(Handlers) \in Nat
  BY ConstantsAssumption, FS_CardinalityType
<1>3. ASSUME Quota > 0, NEW k \in Keys
      PROVE  Cardinality(Recent(k)) + Cardinality(Checked(k))
               <= (Quota - 1) + Cardinality(Handlers)
  <2>1. Cardinality(Recent(k)) = 0 /\ Cardinality(Checked(k)) = 0
    BY <1>1, FS_EmptySet
  <2> QED
    BY <1>2, <1>3, <2>1, ConstantsAssumption
<1> QED
  BY <1>1, <1>3, FS_EmptySet DEF QuotaInv

(* A step that stores nothing and lets nobody pass the check. *)
LEMMA QuotaKept ==
  ASSUME QuotaInv, messages' = messages, aged \subseteq aged',
         \A k \in Keys : Checked(k)' \subseteq Checked(k)
  PROVE  QuotaInv'
<1>1. ASSUME NEW k \in Keys
      PROVE  /\ Cardinality(Recent(k)') \in Nat /\ Cardinality(Checked(k)') \in Nat
             /\ Cardinality(Recent(k)') <= Cardinality(Recent(k))
             /\ Cardinality(Checked(k)') <= Cardinality(Checked(k))
  <2>1. Recent(k)' \subseteq Recent(k)
    BY DEF Recent
  <2> QED
    BY <2>1, FiniteCounts, FinitePart
<1>2. ASSUME Quota > 0, NEW k \in Keys
      PROVE  Cardinality(Recent(k)') + Cardinality(Checked(k)')
               <= (Quota - 1) + Cardinality(Handlers)
  <2>1. Cardinality(Recent(k)) + Cardinality(Checked(k)) <= (Quota - 1) + Cardinality(Handlers)
    BY <1>2 DEF QuotaInv
  <2> QED
    BY <1>1, <2>1, FiniteCounts, ConstantsAssumption
<1> QED
  BY <1>2 DEF QuotaInv

(* A handler that stores its message is no longer past the check. *)
LEMMA StoreQuota ==
  ASSUME TypeInv, QuotaInv, NEW h \in Handlers, pc[h] = "insert", Store(h),
         pc'[h] = "idle", \A g \in Handlers \ {h} : pc'[g] = pc[g],
         call' = call, aged' = aged
  PROVE  QuotaInv'
<1>1. messages' = messages \cup {NewMessage(h)} /\ NewMessage(h).key = call[h].key
  BY DEF Store, NewMessage
<1>2. IsFiniteSet(messages')
  BY <1>1, FS_AddElement DEF QuotaInv
<1>3. ASSUME Quota > 0, NEW k \in Keys
      PROVE  Cardinality(Recent(k)') + Cardinality(Checked(k)')
               <= (Quota - 1) + Cardinality(Handlers)
  <2>1. Cardinality(Recent(k)) + Cardinality(Checked(k)) <= (Quota - 1) + Cardinality(Handlers)
    BY <1>3 DEF QuotaInv
  <2>2. Checked(k)' = Checked(k) \ {h}
    BY DEF Checked
  <2>3. CASE k = call[h].key
    <3>1. h \in Checked(k)
      BY <2>3 DEF Checked
    <3>2. Cardinality(Checked(k)') = Cardinality(Checked(k)) - 1
      BY <2>2, <3>1, FiniteCounts, FS_RemoveElement
    <3>3. Recent(k)' \subseteq Recent(k) \cup {NewMessage(h)}
      BY <1>1 DEF Recent
    <3>4. /\ IsFiniteSet(Recent(k) \cup {NewMessage(h)})
          /\ Cardinality(Recent(k) \cup {NewMessage(h)})
               \in {Cardinality(Recent(k)), Cardinality(Recent(k)) + 1}
      BY FiniteCounts, FS_AddElement
    <3>5. /\ Cardinality(Recent(k)') \in Nat
          /\ Cardinality(Recent(k)') <= Cardinality(Recent(k) \cup {NewMessage(h)})
      BY <3>3, <3>4, FinitePart
    <3>6. Cardinality(Recent(k)') <= Cardinality(Recent(k)) + 1
      BY <3>4, <3>5, FiniteCounts
    <3> QED
      BY <2>1, <3>2, <3>5, <3>6, FiniteCounts, ConstantsAssumption
  <2>4. CASE k # call[h].key
    <3>1. Recent(k)' = Recent(k) /\ Checked(k)' = Checked(k)
      BY <1>1, <2>2, <2>4 DEF Recent, Checked
    <3> QED
      BY <2>1, <3>1
  <2> QED
    BY <2>3, <2>4
<1> QED
  BY <1>2, <1>3 DEF QuotaInv

(* Every action keeps the bound: only the check lets a handler pass, and   *)
(* it counts first.                                                        *)
LEMMA NextQuota == TypeInv /\ QuotaInv /\ [Next]_vars => QuotaInv'
<1> SUFFICES ASSUME TypeInv, QuotaInv, [Next]_vars PROVE QuotaInv'
  OBVIOUS
<1> USE DEF env, store, mine, counts, Goto, Answer
<1>n. pc \in [Handlers -> Steps] /\ call \in [Handlers -> Calls \cup {NoCall}]
  BY DEF TypeInv, TypeOK
<1>1. CASE Environment \/ UNCHANGED vars
  <2>1. messages' = messages /\ aged \subseteq aged' /\ pc' = pc /\ call' = call
    BY <1>1 DEF Environment, KeyEnds, Suppress, Unsuppress, DomainChanges,
       ScheduledTimePasses, MessageAges, vars
  <2>2. \A k \in Keys : Checked(k)' = Checked(k)
    BY <2>1 DEF Checked
  <2> QED
    BY <2>1, <2>2, QuotaKept
<1>2. ASSUME NEW h \in Handlers, NEW c \in Calls, Receive(h, c) PROVE QuotaInv'
  <2>1. /\ messages' = messages /\ aged' = aged /\ pc'[h] = "auth"
        /\ \A g \in Handlers \ {h} : call'[g] = call[g] /\ pc'[g] = pc[g]
    BY <1>2, <1>n DEF Receive
  <2>2. \A k \in Keys : Checked(k)' \subseteq Checked(k)
    BY <2>1 DEF Checked
  <2> QED
    BY <2>1, <2>2, QuotaKept
<1>3. ASSUME NEW h \in Handlers,
             Authenticate(h) \/ RejectKey(h) \/ FilterSuppressed(h) \/ CheckDomain(h)
             \/ ClaimIdempotency(h) \/ Replay(h) \/ Rollback(h) \/ ReadFails(h)
      PROVE  QuotaInv'
  <2>1. /\ messages' = messages /\ aged' = aged /\ call' = call
        /\ \A g \in Handlers \ {h} : pc'[g] = pc[g]
        /\ pc'[h] \in {"claim", "insert"} => pc[h] \in {"claim", "insert"}
    BY <1>3, <1>n DEF Authenticate, RejectKey, FilterSuppressed, CheckDomain,
       ClaimIdempotency, Replay, Rollback, ReadFails
  <2>2. \A k \in Keys : Checked(k)' \subseteq Checked(k)
    BY <2>1 DEF Checked
  <2> QED
    BY <2>1, <2>2, QuotaKept
<1>4. ASSUME NEW h \in Handlers, CheckQuota(h) PROVE QuotaInv'
  <2>1. /\ messages' = messages /\ aged' = aged /\ call' = call
        /\ \A g \in Handlers \ {h} : pc'[g] = pc[g]
        /\ \/ pc'[h] = "idle"
           \/ pc'[h] = "claim" /\ ~(Quota > 0 /\ SendsInLastHour(call[h].key) >= Quota)
    BY <1>4, <1>n DEF CheckQuota
  <2>2. CASE pc'[h] = "idle"
    <3>1. \A k \in Keys : Checked(k)' \subseteq Checked(k)
      BY <2>1, <2>2 DEF Checked
    <3> QED
      BY <2>1, <3>1, QuotaKept
  <2>3. CASE pc'[h] = "claim" /\ ~(Quota > 0 /\ SendsInLastHour(call[h].key) >= Quota)
    <3>1. ASSUME Quota > 0, NEW k \in Keys
          PROVE  Cardinality(Recent(k)') + Cardinality(Checked(k)')
                   <= (Quota - 1) + Cardinality(Handlers)
      <4>1. Recent(k)' = Recent(k)
        BY <2>1 DEF Recent
      <4>2. CASE k = call[h].key
        <5>1. Cardinality(Recent(k)) < Quota
          <6>1. SendsInLastHour(k) = Cardinality(Recent(k))
            BY DEF SendsInLastHour, Recent
          <6> QED
            BY <2>3, <3>1, <4>2, <6>1, FiniteCounts, ConstantsAssumption
        <5>2. IsFiniteSet(Handlers) /\ Checked(k)' \in SUBSET Handlers
          BY ConstantsAssumption DEF Checked
        <5>3. /\ Cardinality(Checked(k)') \in Nat
              /\ Cardinality(Checked(k)') <= Cardinality(Handlers)
              /\ Cardinality(Handlers) \in Nat
          BY <5>2, FinitePart
        <5> QED
          BY <4>1, <5>1, <5>3, FiniteCounts, ConstantsAssumption
      <4>3. CASE k # call[h].key
        <5>1. Checked(k)' = Checked(k)
          BY <2>1, <4>3 DEF Checked
        <5> QED
          BY <3>1, <4>1, <5>1 DEF QuotaInv
      <4> QED
        BY <4>2, <4>3
    <3> QED
      BY <2>1, <3>1 DEF QuotaInv
  <2> QED
    BY <2>1, <2>2, <2>3
<1>5. ASSUME NEW h \in Handlers, Commit(h) \/ CommitUnacknowledged(h) PROVE QuotaInv'
  BY <1>5, <1>n, StoreQuota DEF Commit, CommitUnacknowledged
<1> QED
  BY <1>1, <1>2, <1>3, <1>4, <1>5 DEF Next, Progress, Trouble

(* The messages of a key in the last hour exceed its quota by less than    *)
(* the number of handlers, however their checks and commits interleave.    *)
THEOREM QuotaOvershootIsBounded == Spec => []QuotaOvershootBounded
<1>1. QuotaInv => QuotaOvershootBounded
  <2> SUFFICES ASSUME QuotaInv, Quota > 0, NEW k \in Keys
               PROVE  SendsInLastHour(k) <= (Quota - 1) + Cardinality(Handlers)
    BY DEF QuotaOvershootBounded
  <2>1. SendsInLastHour(k) = Cardinality(Recent(k))
    BY DEF SendsInLastHour, Recent
  <2>2. Cardinality(Recent(k)) + Cardinality(Checked(k)) <= (Quota - 1) + Cardinality(Handlers)
    BY DEF QuotaInv
  <2> QED
    BY <2>1, <2>2, FiniteCounts, ConstantsAssumption
<1> QED
  BY <1>1, InitType, NextType, InitQuota, NextQuota, PTL DEF Spec
=============================================================================
