----------------------------- MODULE DomainTrust -----------------------------
(***************************************************************************)
(* Trust in sending domains: the domains and dkim_keys tables, the         *)
(* `aiemail domains add` command, the DNS zone of each domain and the      *)
(* domain checkers, one per worker process, that prove ownership again     *)
(* every day (internal/worker/webhooks.go, DomainChecker;                  *)
(* internal/store/webhooks.go; internal/dnsverify/dnsverify.go;            *)
(* cmd/aiemail/admin.go, runAddDomain).                                    *)
(*                                                                         *)
(* A checker reads a snapshot of the due domains without locking them,     *)
(* asks DNS about each and writes the result by id: add commands, other    *)
(* checkers and the owner of the zone act in between. Tokens are numbered  *)
(* in the order they are generated; 0 stands for none. last_checked_at is  *)
(* kept as "within the last 24 hours or not", and the month that names a   *)
(* new DKIM selector as a counter.                                         *)
(***************************************************************************)
EXTENDS Naturals, FiniteSets

CONSTANTS
  Domains,        \* names that may be registered
  Checkers,       \* the running domain checker loops
  Operators,      \* people running `aiemail domains add`
  BatchSize,      \* worker.domainBatch
  MaxTokens,      \* bound on the add commands
  MaxMonths,      \* bound on the months that pass
  MaxZoneChanges, \* bound on the changes to the zones
  MaxFaults,      \* bound on outages, failed statements and crashes
  Nobody          \* the domain in hand of a process that has none

ASSUME TrustAssumption ==
  /\ BatchSize \in Nat \ {0}
  /\ {MaxTokens, MaxMonths, MaxZoneChanges, MaxFaults} \subseteq Nat
  /\ Nobody \notin Domains

VARIABLES
  status,         \* domains.status, "absent" before the row exists
  token,          \* domains.verification_token
  fresh,          \* last_checked_at is less than 24 hours old
  selectors,      \* dkim_keys: the months that have a key, for each domain
  month,          \* the month of the clock
  issued,         \* tokens generated so far
  shown,          \* tokens printed to the operator, for each domain
  zone,           \* verification tokens published in DNS
  zoneChanges,    \* changes to the zones so far
  adding,         \* the domain and token of each running add command
  pc,             \* what each checker does next
  batch,          \* snapshots a checker has not started on
  cur,            \* the snapshot a checker is working on
  answer,         \* what DNS answered about it
  latest,         \* what DNS answered last about each domain, to anybody
  lag,            \* why the last answer is not what the row goes by
  refuted,        \* domains a checker has found without their token
  faults          \* faults so far

row     == <<status, token, fresh>>
command == <<selectors, issued, shown, adding>>
world   == <<month, zone, zoneChanges>>
local   == <<pc, batch, cur, answer>>
history == <<latest, lag, refuted>>
vars    == <<row, command, world, local, history, faults>>

Tokens     == 1..MaxTokens
Snapshot   == [id : Domains, token : Tokens]
NoSnapshot == [id |-> Nobody, token |-> 0]
Answers    == {"proved", "outage", "gone"}

TypeOK ==
  /\ status \in [Domains -> {"absent", "pending", "verified", "suspended"}]
  /\ token \in [Domains -> {0} \cup Tokens]
  /\ fresh \in [Domains -> BOOLEAN]
  /\ selectors \in [Domains -> SUBSET (0..MaxMonths)]
  /\ month \in 0..MaxMonths
  /\ issued \in 0..MaxTokens
  /\ shown \in [Domains -> SUBSET Tokens]
  /\ zone \in [Domains -> SUBSET Tokens]
  /\ zoneChanges \in 0..MaxZoneChanges
  /\ adding \in [Operators -> Snapshot \cup {NoSnapshot}]
  /\ pc \in [Checkers -> {"idle", "next", "write"}]
  /\ batch \in [Checkers -> SUBSET Snapshot]
  /\ cur \in [Checkers -> Snapshot \cup {NoSnapshot}]
  /\ answer \in [Checkers -> Answers]
  /\ latest \in [Domains -> {"none", "proved", "gone"}]
  /\ lag \in [Domains -> {"no", "missed", "overtaken"}]
  /\ refuted \subseteq Domains
  /\ faults \in 0..MaxFaults

Init ==
  /\ status = [d \in Domains |-> "absent"]
  /\ token = [d \in Domains |-> 0]
  /\ fresh = [d \in Domains |-> FALSE]
  /\ selectors = [d \in Domains |-> {}]
  /\ month = 0
  /\ issued = 0
  /\ shown = [d \in Domains |-> {}]
  /\ zone = [d \in Domains |-> {}]
  /\ zoneChanges = 0
  /\ adding = [o \in Operators |-> NoSnapshot]
  /\ pc = [c \in Checkers |-> "idle"]
  /\ batch = [c \in Checkers |-> {}]
  /\ cur = [c \in Checkers |-> NoSnapshot]
  /\ answer = [c \in Checkers |-> "outage"]
  /\ latest = [d \in Domains |-> "none"]
  /\ lag = [d \in Domains |-> "no"]
  /\ refuted = {}
  /\ faults = 0

-----------------------------------------------------------------------------
(* The clock and the owners of the domains.                                *)

(* now() passes last_checked_at + 24 hours. *)
RecheckComesDue(d) ==
  /\ fresh[d]
  /\ fresh' = [fresh EXCEPT ![d] = FALSE]
  /\ UNCHANGED <<status, token, command, world, local, history, faults>>

MonthTurns ==
  /\ month < MaxMonths
  /\ month' = month + 1
  /\ UNCHANGED <<row, command, zone, zoneChanges, local, history, faults>>

(* The owner publishes a token it was given, or takes a record away. *)
ZoneChanges(d) ==
  /\ zoneChanges < MaxZoneChanges
  /\ zoneChanges' = zoneChanges + 1
  /\ \/ \E t \in shown[d] \ zone[d] : zone' = [zone EXCEPT ![d] = @ \cup {t}]
     \/ \E t \in zone[d] : zone' = [zone EXCEPT ![d] = @ \ {t}]
  /\ UNCHANGED <<row, command, month, local, history, faults>>

-----------------------------------------------------------------------------
(* runAddDomain: the upsert and the signing key are separate statements.   *)

(* Mutant: adding a domain again trusts it at once. *)
UpsertDomainMutant(o, d) ==
  /\ adding[o] = NoSnapshot
  /\ issued < MaxTokens
  /\ issued' = issued + 1
  /\ token' = [token EXCEPT ![d] = issued']
  /\ status' = [status EXCEPT ![d] = IF @ = "absent" THEN "pending" ELSE "verified"]
  /\ adding' = [adding EXCEPT ![o] = [id |-> d, token |-> issued']]
  /\ UNCHANGED <<fresh, selectors, shown, world, local, history, faults>>

(* A new domain starts 'pending'; one that exists gets the new token and   *)
(* keeps its status.                                                       *)
UpsertDomain(o, d) ==
  /\ adding[o] = NoSnapshot
  /\ issued < MaxTokens
  /\ issued' = issued + 1
  /\ token' = [token EXCEPT ![d] = issued']
  /\ status' = [status EXCEPT ![d] = IF @ = "absent" THEN "pending" ELSE @]
  /\ adding' = [adding EXCEPT ![o] = [id |-> d, token |-> issued']]
  /\ UNCHANGED <<fresh, selectors, shown, world, local, history, faults>>

(* The key is stored under this month's selector and the records printed.  *)
CreateSigningKey(o) ==
  /\ adding[o] # NoSnapshot
  /\ LET d == adding[o].id IN
       /\ month \notin selectors[d]
       /\ selectors' = [selectors EXCEPT ![d] = @ \cup {month}]
       /\ shown' = [shown EXCEPT ![d] = @ \cup {adding[o].token}]
  /\ adding' = [adding EXCEPT ![o] = NoSnapshot]
  /\ UNCHANGED <<row, issued, world, local, history, faults>>

(* The domain has a key for this month: the insert breaks the unique       *)
(* constraint and the command ends, its token stored and not printed.      *)
SelectorTaken(o) ==
  /\ adding[o] # NoSnapshot
  /\ month \in selectors[adding[o].id]
  /\ adding' = [adding EXCEPT ![o] = NoSnapshot]
  /\ UNCHANGED <<row, selectors, issued, shown, world, local, history, faults>>

Fault ==
  /\ faults < MaxFaults
  /\ faults' = faults + 1

(* The command ends for another reason, with nothing printed: no master    *)
(* key, a lost connection before the insert of the key has committed or    *)
(* after it.                                                               *)
AddFails(o) ==
  /\ adding[o] # NoSnapshot
  /\ Fault
  /\ \/ selectors' = [selectors EXCEPT ![adding[o].id] = @ \cup {month}]
     \/ UNCHANGED selectors
  /\ adding' = [adding EXCEPT ![o] = NoSnapshot]
  /\ UNCHANGED <<row, issued, shown, world, local, history>>

-----------------------------------------------------------------------------
(* DomainChecker.tick                                                      *)

(* Mutant: a verified domain is trusted for good. *)
DueOnceMutant ==
  {d \in Domains : status[d] = "pending" /\ ~fresh[d]}

Due == {d \in Domains : status[d] \in {"verified", "pending"} /\ ~fresh[d]}

(* ORDER BY last_checked_at LIMIT n; any due domain may be the earliest.   *)
DomainsDueForRecheck(c) ==
  /\ pc[c] = "idle"
  /\ \E ds \in SUBSET Due :
       /\ ds # {}
       /\ Cardinality(ds) = BatchSize \/ (ds = Due /\ Cardinality(ds) < BatchSize)
       /\ batch' = [batch EXCEPT ![c] = {[id |-> d, token |-> token[d]] : d \in ds}]
  /\ pc' = [pc EXCEPT ![c] = "next"]
  /\ UNCHANGED <<row, command, world, cur, answer, history, faults>>

(* Mutant: an unreachable resolver is read as a missing record. *)
VerdictOutageMutant(outage, s) ==
  IF s.token \in zone[s.id] /\ ~outage THEN "proved" ELSE "gone"

(* Verify and Recheckable: how tick reads one lookup of a snapshot. *)
Verdict(outage, s) ==
  IF outage THEN "outage" ELSE IF s.token \in zone[s.id] THEN "proved" ELSE "gone"

(* What DNS really said about a snapshot; an outage says nothing. *)
Answered(s) == IF s.token \in zone[s.id] THEN "proved" ELSE "gone"

(* The next domain of the loop is looked up. *)
Verify(c) ==
  /\ pc[c] = "next"
  /\ \E s \in batch[c], outage \in BOOLEAN :
       /\ IF outage THEN Fault ELSE UNCHANGED faults
       /\ cur' = [cur EXCEPT ![c] = s]
       /\ batch' = [batch EXCEPT ![c] = @ \ {s}]
       /\ answer' = [answer EXCEPT ![c] = Verdict(outage, s)]
       /\ latest' = IF outage THEN latest ELSE [latest EXCEPT ![s.id] = Answered(s)]
       /\ refuted' = IF ~outage /\ Answered(s) = "gone" THEN refuted \cup {s.id} ELSE refuted
  /\ pc' = [pc EXCEPT ![c] = "write"]
  /\ UNCHANGED <<row, command, world, lag>>

TickDone(c) ==
  /\ pc[c] = "next"
  /\ batch[c] = {}
  /\ pc' = [pc EXCEPT ![c] = "idle"]
  /\ UNCHANGED <<row, command, world, batch, cur, answer, history, faults>>

(* MarkDomainVerified, SuspendDomain or TouchDomainCheck, by id and        *)
(* whatever the row says by now.                                           *)
WriteAnswer(c) ==
  LET d == cur[c].id IN
  /\ status' = [status EXCEPT ![d] =
                  CASE answer[c] = "proved" -> "verified"
                    [] answer[c] = "gone"   -> "suspended"
                    [] answer[c] = "outage" -> @]
  /\ fresh' = [fresh EXCEPT ![d] = TRUE]
  /\ UNCHANGED token

Drop(c, step) ==
  /\ pc' = [pc EXCEPT ![c] = step]
  /\ cur' = [cur EXCEPT ![c] = NoSnapshot]
  /\ answer' = [answer EXCEPT ![c] = "outage"]

(* An answer written or lost, in the histories: a row that got an older    *)
(* answer than the last one is overtaken, one whose last answer was lost   *)
(* has missed it.                                                          *)
NoteWritten(c) ==
  LET d == cur[c].id IN
  lag' = IF answer[c] = "outage" THEN lag
         ELSE [lag EXCEPT ![d] = IF answer[c] = latest[d] THEN "no" ELSE "overtaken"]
NoteLost(c) ==
  LET d == cur[c].id IN
  lag' = IF pc[c] = "write" /\ answer[c] = latest[d] THEN [lag EXCEPT ![d] = "missed"] ELSE lag

Write(c) ==
  /\ pc[c] = "write"
  /\ WriteAnswer(c) /\ NoteWritten(c)
  /\ Drop(c, "next")
  /\ UNCHANGED <<command, world, batch, latest, refuted, faults>>

(* The statement returns an error, committed or not; it is only logged. *)
WriteFails(c) ==
  /\ pc[c] = "write"
  /\ Fault
  /\ \/ WriteAnswer(c) /\ NoteWritten(c)
     \/ UNCHANGED row /\ NoteLost(c)
  /\ Drop(c, "next")
  /\ UNCHANGED <<command, world, batch, latest, refuted>>

(* The process dies or is stopped, and is started again. *)
Crash(c) ==
  /\ pc[c] # "idle"
  /\ Fault
  /\ NoteLost(c)
  /\ Drop(c, "idle")
  /\ batch' = [batch EXCEPT ![c] = {}]
  /\ UNCHANGED <<row, command, world, latest, refuted>>

-----------------------------------------------------------------------------
CheckerStep(c) ==
  \/ DomainsDueForRecheck(c)
  \/ Verify(c)
  \/ TickDone(c)
  \/ Write(c)

OperatorStep(o) ==
  \/ CreateSigningKey(o)
  \/ SelectorTaken(o)

Environment ==
  \/ MonthTurns
  \/ \E d \in Domains : RecheckComesDue(d) \/ ZoneChanges(d)
  \/ \E o \in Operators, d \in Domains : UpsertDomain(o, d)

Next ==
  \/ Environment
  \/ \E c \in Checkers : CheckerStep(c) \/ WriteFails(c) \/ Crash(c)
  \/ \E o \in Operators : OperatorStep(o) \/ AddFails(o)

Spec == Init /\ [][Next]_vars

(* The checkers loop for as long as they run, commands end, and days pass. *)
(* Outages are counted among the faults, so the resolver answers in the    *)
(* end; nothing is assumed of operators and of the owners of the zones.    *)
Fairness ==
  /\ \A c \in Checkers : WF_vars(CheckerStep(c))
  /\ \A o \in Operators : WF_vars(OperatorStep(o))
  /\ \A d \in Domains : WF_vars(RecheckComesDue(d))

FairSpec == Spec /\ Fairness

-----------------------------------------------------------------------------
(* Properties.                                                             *)

(* The row of a domain goes by the last answer DNS gave about it: no       *)
(* answer yet, no trust and no suspension; an answer, the status it calls  *)
(* for, or a checker about to write it. The writes are by id and nothing   *)
(* orders them, so two ways to fall behind remain, and only these two: a   *)
(* fault lost the last answer, or a slower checker wrote an older one over *)
(* it, which can trust a domain again that was just suspended. A fault     *)
(* costs one domain, and a checker that runs alone never overtakes itself. *)
StatusFor(a) == IF a = "proved" THEN "verified" ELSE "suspended"
AboutToWrite(c, d) == pc[c] = "write" /\ cur[c].id = d /\ answer[c] = latest[d]
RowFollowsAnswer(d) ==
  IF latest[d] = "none" THEN status[d] \in {"absent", "pending"}
  ELSE \/ status[d] = StatusFor(latest[d])
       \/ \E c \in Checkers : AboutToWrite(c, d)
       \/ lag[d] # "no"
Missed == {d \in Domains : lag[d] = "missed"}
TrustFollowsAnswers ==
  /\ \A d \in Domains : RowFollowsAnswer(d)
  /\ Cardinality(Missed) <= faults
  /\ (\E d \in Domains : lag[d] = "overtaken") => \E c, e \in Checkers : c # e

(* The first `domains add` for a name shows its owner what to publish: a   *)
(* stored token that was not printed, and will not be, belongs to a domain *)
(* that had a signing key already, or each such domain has cost a fault.   *)
Unprinted ==
  {d \in Domains : /\ token[d] \notin {0} \cup shown[d]
                   /\ \A o \in Operators : adding[o] # [id |-> d, token |-> token[d]]
                   /\ selectors[d] = {}}
UnprintedTokenHasACause == Cardinality(Unprinted) <= faults

(* The state is well typed, the table goes by the answers of DNS, and      *)
(* owners get their tokens.                                                *)
TrustInv == TypeOK /\ TrustFollowsAnswers /\ UnprintedTokenHasACause

(* A domain is 'suspended' only if a resolver has answered and its answer  *)
(* lacked the token: an outage, a crash or a failed statement never        *)
(* suspends a sender.                                                      *)
OutageNeverSuspends == \A d \in Domains : status[d] = "suspended" => d \in refuted

(* When a proof stays gone, trust ends and stays ended, under FairSpec:    *)
(* stale answers of other checkers delay this but cannot prevent it.       *)
LapsedProofEndsTrust ==
  \A d \in Domains :
    <>[](token[d] \notin zone[d]) => <>[](status[d] # "verified")

(* What `domains add` tells its user: the domain awaits DNS proof, and     *)
(* publishing the record it prints is what it takes.                       *)
PublishedProofVerifies ==
  \A d \in Domains :
    (<>[](token[d] \in zone[d])) => <>(status[d] = "verified")
=============================================================================
