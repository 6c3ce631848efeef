-------------------------- MODULE DomainTrustProofs --------------------------
(***************************************************************************)
(* Proofs about DomainTrust, for any domains, checkers and operators, any  *)
(* batch size and any number of tokens, months, zone changes and faults.   *)
(***************************************************************************)
EXTENDS DomainTrust, FiniteSetTheorems, TLAPS

(* A registered domain has a token, and a checker holds snapshots of       *)
(* registered domains only; it has one in hand while it waits to write.    *)
InHand ==
  /\ \A d \in Domains : status[d] # "absent" => token[d] \in Tokens
  /\ \A c \in Checkers : \A s \in batch[c] : status[s.id] # "absent"
  /\ \A c \in Checkers : pc[c] = "write" =>
       cur[c] \in Snapshot /\ status[cur[c].id] # "absent"

(* An answer about to be written is one DNS really gave, and a checker     *)
(* that runs alone has the last one.                                       *)
AnswersAreEarned ==
  \A c \in Checkers : pc[c] = "write" =>
    /\ answer[c] = "gone" => cur[c].id \in refuted
    /\ answer[c] # "outage" => latest[cur[c].id] # "none"
    /\ (\A e \in Checkers : e = c) => answer[c] \in {"outage", latest[cur[c].id]}

(* Nobody has looked up a domain that is not registered. *)
AbsentIsUnknown == \A d \in Domains : status[d] = "absent" => latest[d] = "none"

(* The parts of the invariant that histories and rows share. *)
RowsFollow == \A d \in Domains : RowFollowsAnswer(d)
OvertakenByAnother ==
  (\E d \in Domains : lag[d] = "overtaken") => \E c, e \in Checkers : c # e

TypeInv == TypeOK /\ InHand

AnswerInv ==
  AnswersAreEarned /\ AbsentIsUnknown /\ RowsFollow /\ OvertakenByAnother /\ OutageNeverSuspends

(* What has fallen behind by faults is counted by them. *)
CountInv ==
  /\ IsFiniteSet(Missed) /\ Cardinality(Missed) <= faults
  /\ IsFiniteSet(Unprinted) /\ Cardinality(Unprinted) <= faults

Inv == TypeInv /\ AnswerInv /\ CountInv

(* Nothing is registered, held or trusted at the start. *)
LEMMA InitInv == Init => Inv
<1> SUFFICES ASSUME Init PROVE Inv
  OBVIOUS
<1>1. TypeInv
  BY TrustAssumption DEF Init, TypeInv, TypeOK, InHand, Snapshot, NoSnapshot, Answers
<1>2. AnswerInv
  BY DEF Init, AnswerInv, AnswersAreEarned, AbsentIsUnknown, RowsFollow, RowFollowsAnswer,
     OvertakenByAnother, OutageNeverSuspends
<1>3. Missed = {} /\ Unprinted = {} /\ faults = 0
  BY DEF Init, Missed, Unprinted
<1>4. CountInv
  BY <1>3, FS_EmptySet DEF CountInv
<1> QED
  BY <1>1, <1>2, <1>4 DEF Inv

(* Every action keeps the state typed. *)
LEMMA NextType == TypeInv /\ [Next]_vars => TypeInv'
<1> SUFFICES ASSUME TypeInv, [Next]_vars PROVE TypeInv'
  OBVIOUS
<1> USE TrustAssumption DEF TypeInv, TypeOK, InHand, row, command, world, local, history
<1>1. CASE MonthTurns
  BY <1>1 DEF MonthTurns
<1>2. ASSUME NEW d \in Domains, RecheckComesDue(d) PROVE TypeInv'
  BY <1>2 DEF RecheckComesDue
<1>3. ASSUME NEW d \in Domains, ZoneChanges(d) PROVE TypeInv'
  BY <1>3 DEF ZoneChanges
<1>4. ASSUME NEW o \in Operators, NEW d \in Domains, UpsertDomain(o, d) PROVE TypeInv'
  BY <1>4 DEF UpsertDomain, Snapshot, Tokens
<1>5. ASSUME NEW o \in Operators, CreateSigningKey(o) PROVE TypeInv'
  BY <1>5 DEF CreateSigningKey, Snapshot
<1>6. ASSUME NEW o \in Operators, SelectorTaken(o) PROVE TypeInv'
  BY <1>6 DEF SelectorTaken
<1>7. ASSUME NEW o \in Operators, AddFails(o) PROVE TypeInv'
  BY <1>7 DEF AddFails, Fault, Snapshot
<1>8. ASSUME NEW c \in Checkers, DomainsDueForRecheck(c) PROVE TypeInv'
  BY <1>8 DEF DomainsDueForRecheck, Due, Snapshot
<1>9. ASSUME NEW c \in Checkers, Verify(c) PROVE TypeInv'
  BY <1>9 DEF Verify, Verdict, Answered, Fault, Answers, Snapshot
<1>10. ASSUME NEW c \in Checkers, TickDone(c) PROVE TypeInv'
  BY <1>10 DEF TickDone
<1>11. ASSUME NEW c \in Checkers, pc[c] = "write", WriteAnswer(c)
       PROVE  /\ status' \in [Domains -> {"absent", "pending", "verified", "suspended"}]
              /\ fresh' \in [Domains -> BOOLEAN]
              /\ token' = token
              /\ \A d \in Domains : status'[d] # "absent" <=> status[d] # "absent"
  BY <1>11 DEF WriteAnswer, Snapshot, Answers
<1>12. ASSUME NEW c \in Checkers, Write(c) PROVE TypeInv'
  BY <1>12, <1>11 DEF Write, NoteWritten, Drop, Answers, Snapshot
<1>13. ASSUME NEW c \in Checkers, WriteFails(c) PROVE TypeInv'
  BY <1>13, <1>11 DEF WriteFails, NoteWritten, NoteLost, Drop, Fault, Answers, Snapshot
<1>14. ASSUME NEW c \in Checkers, Crash(c) PROVE TypeInv'
  BY <1>14 DEF Crash, NoteLost, Drop, Fault, Answers, Snapshot
<1>15. CASE UNCHANGED vars
  BY <1>15 DEF vars
<1> QED
  BY <1>1, <1>2, <1>3, <1>4, <1>5, <1>6, <1>7, <1>8, <1>9, <1>10, <1>12, <1>13, <1>14,
     <1>15 DEF Next, Environment, CheckerStep, OperatorStep

(* A step that writes no status, no history and brings no checker to the   *)
(* point of writing, or away from it, keeps the rows in step.              *)
LEMMA QuietStep ==
  ASSUME AnswerInv, UNCHANGED <<status, history>>,
         \A c \in Checkers : pc'[c] = "write" <=> pc[c] = "write",
         \A c \in Checkers : pc[c] = "write" => cur'[c] = cur[c] /\ answer'[c] = answer[c]
  PROVE  AnswerInv'
BY DEF AnswerInv, AnswersAreEarned, AbsentIsUnknown, RowsFollow, RowFollowsAnswer,
   AboutToWrite, OvertakenByAnother, OutageNeverSuspends, history

(* A look-up makes its answer the last one, and its checker about to write *)
(* it.                                                                     *)
LEMMA VerifyKeepsAnswers ==
  ASSUME TypeInv, AnswerInv, NEW c \in Checkers, Verify(c)
  PROVE  AnswerInv'
<1> USE DEF row, command, world
<1>1. PICK s \in batch[c], outage \in BOOLEAN :
        /\ cur' = [cur EXCEPT ![c] = s]
        /\ answer' = [answer EXCEPT ![c] = Verdict(outage, s)]
        /\ latest' = IF outage THEN latest ELSE [latest EXCEPT ![s.id] = Answered(s)]
        /\ refuted' = IF ~outage /\ Answered(s) = "gone" THEN refuted \cup {s.id} ELSE refuted
  BY DEF Verify
<1>2. /\ pc[c] = "next" /\ pc' = [pc EXCEPT ![c] = "write"] /\ UNCHANGED <<status, lag>>
      /\ s \in Snapshot /\ s.id \in Domains /\ status[s.id] # "absent"
  BY DEF Verify, TypeInv, TypeOK, InHand, Snapshot
<1>3. /\ cur'[c] = s /\ pc'[c] = "write"
      /\ outage => answer'[c] = "outage"
      /\ ~outage => answer'[c] = Answered(s) /\ latest'[s.id] = Answered(s)
      /\ Answered(s) \in {"proved", "gone"}
      /\ \A d \in Domains : d # s.id => latest'[d] = latest[d]
      /\ \A d \in Domains : latest[d] # "none" => latest'[d] # "none"
      /\ outage => latest' = latest
      /\ \A e \in Checkers \ {c} : pc'[e] = pc[e] /\ cur'[e] = cur[e] /\ answer'[e] = answer[e]
  BY <1>1, <1>2 DEF TypeInv, TypeOK, Verdict, Answered
<1>4. AnswersAreEarned'
  <2> SUFFICES ASSUME NEW e \in Checkers, pc'[e] = "write"
               PROVE  /\ answer'[e] = "gone" => cur'[e].id \in refuted'
                      /\ answer'[e] # "outage" => latest'[cur'[e].id] # "none"
                      /\ (\A f \in Checkers : f = e)
                           => answer'[e] \in {"outage", latest'[cur'[e].id]}
    BY DEF AnswersAreEarned
  <2>1. CASE e = c
    BY <1>1, <1>3, <2>1
  <2>2. CASE e # c
    BY <1>1, <1>3, <2>2 DEF AnswerInv, AnswersAreEarned, TypeInv, InHand, Snapshot
  <2> QED
    BY <2>1, <2>2
<1>5. AbsentIsUnknown'
  BY <1>2, <1>3 DEF AnswerInv, AbsentIsUnknown
<1>6. RowsFollow'
  <2> SUFFICES ASSUME NEW d \in Domains PROVE RowFollowsAnswer(d)'
    BY DEF RowsFollow
  <2>1. CASE ~outage /\ d = s.id
    BY <1>3, <2>1 DEF RowFollowsAnswer, AboutToWrite
  <2>2. CASE outage \/ d # s.id
    <3>1. latest'[d] = latest[d] /\ RowFollowsAnswer(d)
      BY <1>3, <2>2 DEF AnswerInv, RowsFollow
    <3>2. \A e \in Checkers : AboutToWrite(e, d) => AboutToWrite(e, d)'
      BY <1>2, <1>3, <3>1 DEF AboutToWrite
    <3> QED
      BY <1>2, <3>1, <3>2 DEF RowFollowsAnswer
  <2> QED
    BY <2>1, <2>2
<1>7. OvertakenByAnother' /\ OutageNeverSuspends'
  BY <1>1, <1>2 DEF AnswerInv, OvertakenByAnother, OutageNeverSuspends
<1> QED
  BY <1>4, <1>5, <1>6, <1>7 DEF AnswerInv

(* A checker that lets go of its answer, written or lost, leaves a row     *)
(* that follows the last answer or is known to lag behind it.              *)
LEMMA LetGoKeepsAnswers ==
  ASSUME TypeInv, AnswerInv, NEW c \in Checkers,
         pc[c] = "write" => \/ WriteAnswer(c) /\ NoteWritten(c)
                            \/ UNCHANGED status /\ NoteLost(c),
         pc[c] # "write" => UNCHANGED <<status, lag>>,
         UNCHANGED <<latest, refuted>>,
         pc'[c] # "write",
         \A e \in Checkers \ {c} : pc'[e] = pc[e] /\ cur'[e] = cur[e] /\ answer'[e] = answer[e]
  PROVE  AnswerInv'
<1>1. AnswersAreEarned'
  BY DEF AnswerInv, AnswersAreEarned
<1>2. CASE pc[c] # "write"
  <2>1. UNCHANGED <<status, lag>>
    BY <1>2
  <2>2. RowsFollow'
    <3> SUFFICES ASSUME NEW d \in Domains PROVE RowFollowsAnswer(d)'
      BY DEF RowsFollow
    <3>1. \A e \in Checkers : AboutToWrite(e, d) => AboutToWrite(e, d)'
      BY <1>2 DEF AboutToWrite
    <3> QED
      BY <2>1, <3>1 DEF AnswerInv, RowsFollow, RowFollowsAnswer
  <2> QED
    BY <1>1, <2>1, <2>2 DEF AnswerInv, AbsentIsUnknown, OvertakenByAnother, OutageNeverSuspends
<1>3. CASE pc[c] = "write"
  <2> DEFINE k == cur[c].id
  <2>1. /\ k \in Domains /\ status[k] # "absent"
        /\ answer[c] \in {"proved", "gone", "outage"} /\ latest[k] \in {"none", "proved", "gone"}
        /\ answer[c] # "outage" => latest[k] # "none"
        /\ answer[c] = "gone" => k \in refuted
        /\ (\A e \in Checkers : e = c) => answer[c] \in {"outage", latest[k]}
    BY <1>3 DEF TypeInv, TypeOK, InHand, Snapshot, Answers, AnswerInv, AnswersAreEarned
  <2>2. /\ \A d \in Domains \ {k} : status'[d] = status[d] /\ lag'[d] = lag[d]
        /\ \/ /\ answer[c] # "outage" /\ status'[k] = StatusFor(answer[c])
              /\ lag'[k] = IF answer[c] = latest[k] THEN "no" ELSE "overtaken"
           \/ status'[k] = status[k] /\ answer[c] = latest[k] /\ lag'[k] = "missed"
           \/ status'[k] = status[k] /\ answer[c] # latest[k] /\ lag'[k] = lag[k]
    BY <1>3, <2>1 DEF WriteAnswer, NoteWritten, NoteLost, StatusFor, TypeInv, TypeOK
  <2> HIDE DEF k
  <2>3. RowsFollow'
    <3> SUFFICES ASSUME NEW d \in Domains PROVE RowFollowsAnswer(d)'
      BY DEF RowsFollow
    <3>0. RowFollowsAnswer(d)
      BY DEF AnswerInv, RowsFollow
    <3>1. \A e \in Checkers \ {c} : AboutToWrite(e, d) => AboutToWrite(e, d)'
      BY DEF AboutToWrite
    <3>2. AboutToWrite(c, d) => d = k /\ answer[c] = latest[k]
      BY DEF AboutToWrite, k
    <3>3. CASE d # k
      BY <2>2, <3>0, <3>1, <3>2, <3>3 DEF RowFollowsAnswer
    <3>4. CASE d = k
      BY <2>1, <2>2, <3>0, <3>1, <3>2, <3>4 DEF RowFollowsAnswer
    <3> QED
      BY <3>3, <3>4
  <2>4. OvertakenByAnother'
    BY <2>1, <2>2 DEF AnswerInv, OvertakenByAnother
  <2>5. AbsentIsUnknown' /\ OutageNeverSuspends'
    BY <2>1, <2>2 DEF AnswerInv, AbsentIsUnknown, OutageNeverSuspends, StatusFor
  <2> QED
    BY <1>1, <2>3, <2>4, <2>5 DEF AnswerInv
<1> QED
  BY <1>2, <1>3

(* Every action keeps the rows in step with the answers.                   *)
LEMMA NextAnswers == TypeInv /\ AnswerInv /\ [Next]_vars => AnswerInv'
<1> SUFFICES ASSUME TypeInv, AnswerInv, [Next]_vars PROVE AnswerInv'
  OBVIOUS
<1> USE DEF row, command, world, local, history
<1>q. ASSUME UNCHANGED <<status, history, pc, cur, answer>> PROVE AnswerInv'
  BY <1>q, QuietStep
<1>u. ASSUME NEW o \in Operators, NEW d \in Domains, UpsertDomain(o, d) PROVE AnswerInv'
  <2>1. /\ UNCHANGED <<history, pc, cur, answer>>
        /\ \A k \in Domains : \/ status'[k] = status[k]
                              \/ status[k] = "absent" /\ status'[k] = "pending"
    BY <1>u DEF UpsertDomain, TypeInv, TypeOK
  <2> QED
    BY <2>1 DEF AnswerInv, AnswersAreEarned, AbsentIsUnknown, RowsFollow, RowFollowsAnswer,
       AboutToWrite, OvertakenByAnother, OutageNeverSuspends
<1>1. ASSUME NEW c \in Checkers, DomainsDueForRecheck(c) \/ TickDone(c) PROVE AnswerInv'
  BY <1>1, QuietStep DEF DomainsDueForRecheck, TickDone, TypeInv, TypeOK
<1>2. ASSUME NEW c \in Checkers, Verify(c) PROVE AnswerInv'
  BY <1>2, VerifyKeepsAnswers
<1>3. ASSUME NEW c \in Checkers, Write(c) \/ WriteFails(c) \/ Crash(c) PROVE AnswerInv'
  <2>1. /\ pc[c] = "write" => \/ WriteAnswer(c) /\ NoteWritten(c)
                              \/ UNCHANGED status /\ NoteLost(c)
        /\ pc[c] # "write" => UNCHANGED <<status, lag>>
        /\ UNCHANGED <<latest, refuted>>
    BY <1>3 DEF Write, WriteFails, Crash, NoteLost
  <2>2. /\ pc'[c] # "write"
        /\ \A e \in Checkers \ {c} : pc'[e] = pc[e] /\ cur'[e] = cur[e] /\ answer'[e] = answer[e]
    BY <1>3 DEF Write, WriteFails, Crash, Drop, TypeInv, TypeOK
  <2> QED
    BY <2>1, <2>2, LetGoKeepsAnswers
<1> QED
  BY <1>q, <1>u, <1>1, <1>2, <1>3 DEF Next, Environment, CheckerStep, OperatorStep, MonthTurns,
     RecheckComesDue, ZoneChanges, CreateSigningKey, SelectorTaken, AddFails, vars

(* Sets that grow by one element at most when a fault is counted, and not  *)
(* otherwise, stay within the count.                                       *)
LEMMA CountedByFaults ==
  ASSUME NEW S, NEW T, NEW k, NEW n \in Nat, IsFiniteSet(S), Cardinality(S) <= n, T \subseteq S \cup {k}
  PROVE  /\ IsFiniteSet(T) /\ Cardinality(T) <= n + 1
         /\ T \subseteq S => Cardinality(T) <= n
<1>0. Cardinality(S) \in Nat
  BY FS_CardinalityType
<1>1. IsFiniteSet(S \cup {k}) /\ Cardinality(S \cup {k}) <= Cardinality(S) + 1
  <2>1. /\ IsFiniteSet(S \cup {k})
        /\ Cardinality(S \cup {k}) = IF k \in S THEN Cardinality(S) ELSE Cardinality(S) + 1
    BY FS_AddElement
  <2> QED
    BY <1>0, <2>1
<1>2. IsFiniteSet(T) /\ Cardinality(T) <= Cardinality(S \cup {k})
  BY <1>1, FS_Subset
<1>3. Cardinality(T) \in Nat /\ Cardinality(S) \in Nat /\ Cardinality(S \cup {k}) \in Nat
  BY <1>1, <1>2, FS_CardinalityType
<1>4. T \subseteq S => Cardinality(T) <= Cardinality(S)
  BY FS_Subset
<1> QED
  BY <1>1, <1>2, <1>3, <1>4

(* Every action keeps what faults have cost counted by them.               *)
LEMMA NextCount == TypeInv /\ CountInv /\ [Next]_vars => CountInv'
<1> SUFFICES ASSUME TypeInv, CountInv, [Next]_vars PROVE CountInv'
  OBVIOUS
<1> USE DEF row, command, world, local, history
<1>f. faults \in Nat
  BY TrustAssumption DEF TypeInv, TypeOK
<1>q. ASSUME Missed' \subseteq Missed, Unprinted' \subseteq Unprinted, faults' \in {faults, faults + 1}
      PROVE  CountInv'
  <2>1. \A k : Missed' \subseteq Missed \cup {k} /\ Unprinted' \subseteq Unprinted \cup {k}
    BY <1>q
  <2> QED
    BY <1>q, <1>f, <2>1, CountedByFaults DEF CountInv
<1>l. ASSUME NEW k, Missed' \subseteq Missed \cup {k}, Unprinted' \subseteq Unprinted \cup {k},
             faults' = faults + 1
      PROVE  CountInv'
  BY <1>l, <1>f, CountedByFaults DEF CountInv
<1>1. ASSUME NEW o \in Operators, NEW d \in Domains, UpsertDomain(o, d) PROVE CountInv'
  <2>1. /\ UNCHANGED <<lag, shown, selectors, faults>>
        /\ adding[o] = NoSnapshot /\ adding'[o] = [id |-> d, token |-> token'[d]]
        /\ \A p \in Operators \ {o} : adding'[p] = adding[p]
        /\ \A k \in Domains \ {d} : token'[k] = token[k]
    BY <1>1 DEF UpsertDomain, TypeInv, TypeOK
  <2>2. \A k \in Domains \ {d} : adding[o] # [id |-> k, token |-> token[k]]
    BY <2>1, TrustAssumption DEF NoSnapshot
  <2>3. Missed' \subseteq Missed /\ Unprinted' \subseteq Unprinted
    BY <2>1, <2>2 DEF Missed, Unprinted
  <2> QED
    BY <1>q, <2>1, <2>3
<1>2. ASSUME NEW o \in Operators, OperatorStep(o) PROVE CountInv'
  <2> DEFINE k == adding[o].id
  <2>1. /\ UNCHANGED <<lag, token, faults>> /\ adding[o] # NoSnapshot
        /\ \A p \in Operators \ {o} : adding'[p] = adding[p]
        /\ \A d \in Domains : shown[d] \subseteq shown'[d] /\ selectors[d] \subseteq selectors'[d]
    BY <1>2 DEF OperatorStep, CreateSigningKey, SelectorTaken, TypeInv, TypeOK
  <2>2. month \in selectors'[k]
    BY <1>2 DEF OperatorStep, CreateSigningKey, SelectorTaken, TypeInv, TypeOK, Snapshot
  <2>3. \A d \in Domains : d # k => adding[o] # [id |-> d, token |-> token[d]]
    OBVIOUS
  <2>4. Missed' \subseteq Missed /\ Unprinted' \subseteq Unprinted
    BY <2>1, <2>2, <2>3 DEF Missed, Unprinted
  <2> QED
    BY <1>q, <2>1, <2>4
<1>3. ASSUME NEW o \in Operators, AddFails(o) PROVE CountInv'
  <2> DEFINE k == adding[o].id
  <2>1. /\ UNCHANGED <<lag, token, shown>> /\ faults' = faults + 1
        /\ \A p \in Operators \ {o} : adding'[p] = adding[p]
        /\ \A d \in Domains : selectors[d] \subseteq selectors'[d]
    BY <1>3 DEF AddFails, Fault, TypeInv, TypeOK
  <2>2. \A d \in Domains : d # k => adding[o] # [id |-> d, token |-> token[d]]
    OBVIOUS
  <2>3. Missed' \subseteq Missed \cup {k} /\ Unprinted' \subseteq Unprinted \cup {k}
    BY <2>1, <2>2 DEF Missed, Unprinted
  <2> QED
    BY <1>l, <2>1, <2>3
<1>4. ASSUME UNCHANGED <<token, shown, selectors, adding>> PROVE Unprinted' = Unprinted
  BY <1>4 DEF Unprinted
<1>5. ASSUME NEW c \in Checkers, WriteFails(c) \/ Crash(c) PROVE CountInv'
  <2> DEFINE k == cur[c].id
  <2>1. faults' = faults + 1 /\ UNCHANGED <<token, shown, selectors, adding>>
    BY <1>5 DEF WriteFails, WriteAnswer, Crash, Fault
  <2>2. Missed' \subseteq Missed \cup {k}
    BY <1>5 DEF WriteFails, Crash, NoteWritten, NoteLost, Missed, TypeInv, TypeOK
  <2>3. Unprinted' \subseteq Unprinted \cup {k}
    BY <1>4, <2>1
  <2> QED
    BY <1>l, <2>1, <2>2, <2>3
<1>6. ASSUME NEW c \in Checkers, Write(c) PROVE CountInv'
  <2>1. faults' = faults /\ UNCHANGED <<token, shown, selectors, adding>>
    BY <1>6 DEF Write, WriteAnswer
  <2>2. Missed' \subseteq Missed
    BY <1>6 DEF Write, NoteWritten, Missed, TypeInv, TypeOK
  <2> QED
    BY <1>4, <1>q, <2>1, <2>2
<1>7. ASSUME UNCHANGED <<lag, token, shown, selectors, adding>>, faults' \in {faults, faults + 1}
      PROVE  CountInv'
  <2>1. Missed' = Missed
    BY <1>7 DEF Missed
  <2> QED
    BY <1>4, <1>7, <1>q, <2>1
<1>8. ASSUME NEW c \in Checkers, Verify(c) PROVE CountInv'
  BY <1>7, <1>8 DEF Verify, Fault
<1> QED
  BY <1>1, <1>2, <1>3, <1>5, <1>6, <1>7, <1>8 DEF Next, Environment, CheckerStep, MonthTurns,
     RecheckComesDue, ZoneChanges, DomainsDueForRecheck, TickDone, vars

(* The inductive invariant holds in every reachable state. *)
LEMMA Invariant == Spec => []Inv
<1>1. Inv /\ [Next]_vars => Inv'
  BY NextType, NextAnswers, NextCount DEF Inv
<1> QED
  BY <1>1, InitInv, PTL DEF Spec

(* The row of every domain goes by the last answer of DNS, but for the     *)
(* domains whose last answer a fault has lost, one a fault, and those a    *)
(* second checker has written an older answer about; and the first add     *)
(* command for a name shows its token unless a fault stops it.             *)
THEOREM TrustFollowsDNS == Spec => []TrustInv
<1>1. Inv => TrustInv
  BY DEF Inv, TypeInv, AnswerInv, CountInv, RowsFollow, OvertakenByAnother, TrustInv,
     TrustFollowsAnswers, UnprintedTokenHasACause
<1> QED
  BY <1>1, Invariant, PTL

(* A domain is suspended only after a resolver has answered without its    *)
(* token; outages, crashes and failed statements never suspend one.        *)
THEOREM SuspensionIsFounded == Spec => []OutageNeverSuspends
<1>1. Inv => OutageNeverSuspends
  BY DEF Inv, AnswerInv
<1> QED
  BY <1>1, Invariant, PTL
=============================================================================
