------------------------------ MODULE KeyCustody ------------------------------
(***************************************************************************)
(* What the master key protects, over the life of a deployment: the DKIM   *)
(* signing keys of a domain and the recipients of queued messages are      *)
(* stored wrapped under the master key the writing process was started     *)
(* with, and read by processes started later (internal/dkim/custody.go,    *)
(* internal/dkim/sign.go, internal/crypto/envelope.go,                     *)
(* internal/store/recipients.go, internal/store/dkim.go, runAddDomain in   *)
(* cmd/aiemail/admin.go, runServe, runWorker and attachKeeper in           *)
(* cmd/aiemail/main.go).                                                   *)
(*                                                                         *)
(* AES-GCM is what it does: Unwrap gives back what was wrapped under the   *)
(* same master key and fails for every other. A row of dkim_keys is its    *)
(* place in keys, which also stands for its key pair and its DNS record.   *)
(* There is one domain, it may send, and there is one worker; attempts,    *)
(* locks and events are in DeliveryQueue.                                  *)
(***************************************************************************)
EXTENDS Naturals, Sequences, FiniteSets

CONSTANTS
  Masters,        \* master keys an operator may generate (keygen)
  NoKey,          \* AIEMAIL_DKIM_MASTER_KEY is not set
  MessageCount,   \* messages clients send, the n-th the n-th to be accepted
  BatchSize,      \* batchSize
  MaxMonths,      \* bound on the months that pass
  MaxSwaps,       \* bound on changes of the master key
  MaxFaults       \* bound on crashes, failed statements and temporary answers

ASSUME CustodyAssumption ==
  /\ NoKey \notin Masters
  /\ MessageCount \in Nat
  /\ BatchSize \in Nat \ {0}
  /\ MaxMonths \in Nat \ {0}
  /\ MaxSwaps \in Nat
  /\ MaxFaults \in Nat

VARIABLES
  env,            \* the master key in the environment new processes read
  serveKey,       \* the keeper of the API process
  workerKey,      \* the keeper of the worker, NoKey while it does not run
  month,          \* what time.Now formats as a selector
  keys,           \* dkim_keys in the order of created_at
  zone,           \* the record published at each selector, 0 for none
  status,         \* messages.status
  sealed,         \* what recipients_encrypted is wrapped under, NoKey for clear
  batch,          \* messages the worker has claimed and not started on
  cur,            \* the message it has signed, 0 for none
  sig,            \* the key that message is signed with
  mail,           \* the key each message was signed with when last handed over
  unsigned,       \* messages failed with "could not sign message"
  keyed,          \* history: messages accepted when a signing key existed
  unreadable,     \* history: messages whose recipients the claim could not read
  bystanders,     \* history: readable messages lost in the same claim
  swaps,          \* changes of the master key so far
  faults          \* faults so far

config    == <<env, serveKey, workerKey, swaps>>
dns       == <<month, zone>>
inhand    == <<batch, cur, sig>>
outcome   == <<mail, unsigned>>
claimLoss == <<unreadable, bystanders>>
vars      == <<config, dns, keys, status, sealed, inhand, outcome, keyed,
               claimLoss, faults>>

-----------------------------------------------------------------------------
Messages == 1..MessageCount
Months   == 1..MaxMonths
KeyOrNot == Masters \cup {NoKey}
Waiting  == {"queued", "deferred"}
Statuses == {"new", "sending", "sent", "failed"} \cup Waiting
KeyRow   == [selector : Months, master : Masters]

TypeOK ==
  /\ env \in KeyOrNot /\ serveKey \in KeyOrNot /\ workerKey \in KeyOrNot
  /\ month \in Months
  /\ keys \in Seq(KeyRow)
  /\ zone \in [Months -> 0..Len(keys)]
  /\ status \in [Messages -> Statuses]
  /\ sealed \in [Messages -> KeyOrNot]
  /\ batch \subseteq Messages
  /\ cur \in 0..MessageCount
  /\ sig \in 0..Len(keys)
  /\ mail \in [Messages -> 0..Len(keys)]
  /\ unsigned \subseteq Messages
  /\ keyed \subseteq Messages
  /\ unreadable \subseteq Messages
  /\ bystanders \subseteq Messages
  /\ swaps \in 0..MaxSwaps
  /\ faults \in 0..MaxFaults

(* A deployment that has a master key from the start, or not yet one. *)
Init ==
  /\ env \in KeyOrNot
  /\ serveKey = env
  /\ workerKey = NoKey
  /\ month = 1
  /\ keys = <<>>
  /\ zone = [s \in Months |-> 0]
  /\ status = [m \in Messages |-> "new"]
  /\ sealed = [m \in Messages |-> NoKey]
  /\ batch = {}
  /\ cur = 0
  /\ sig = 0
  /\ mail = [m \in Messages |-> 0]
  /\ unsigned = {}
  /\ keyed = {}
  /\ unreadable = {}
  /\ bystanders = {}
  /\ swaps = 0
  /\ faults = 0

-----------------------------------------------------------------------------
(* The operator, the owner of the zone and the calendar.                   *)

SwapMaster(k) ==
  /\ swaps < MaxSwaps
  /\ k # env
  /\ env' = k
  /\ swaps' = swaps + 1
  /\ UNCHANGED <<serveKey, workerKey, dns, keys, status, sealed, inhand, outcome,
                 keyed, claimLoss, faults>>

(* runServe: attachKeeper takes the key, if there is one. *)
RestartServe ==
  /\ serveKey # env
  /\ serveKey' = env
  /\ UNCHANGED <<env, workerKey, swaps, dns, keys, status, sealed, inhand, outcome,
                 keyed, claimLoss, faults>>

(* runWorker: a worker needs SendEnabled, and validate needs a master key  *)
(* for that.                                                               *)
StartWorker ==
  /\ workerKey = NoKey
  /\ env # NoKey
  /\ workerKey' = env
  /\ UNCHANGED <<env, serveKey, swaps, dns, keys, status, sealed, inhand, outcome,
                 keyed, claimLoss, faults>>

Fault ==
  /\ faults < MaxFaults
  /\ faults' = faults + 1

(* The worker ends. An operator who has changed the master key stops it    *)
(* between batches; a crash, or a signal whose cancelled context fails     *)
(* every remaining statement, leaves what it held 'sending'.               *)
StopWorker ==
  /\ workerKey # NoKey
  /\ \/ workerKey # env /\ batch = {} /\ cur = 0 /\ UNCHANGED faults
     \/ Fault
  /\ workerKey' = NoKey
  /\ batch' = {}
  /\ cur' = 0
  /\ sig' = 0
  /\ UNCHANGED <<env, serveKey, swaps, dns, keys, status, sealed, outcome, keyed,
                 claimLoss>>

(* Mutant: the selector is not unique. *)
FreeSelectorMutant == TRUE

(* UNIQUE (domain_id, selector). *)
FreeSelector == \A i \in 1..Len(keys) : keys[i].selector # month

(* domains add: a key pair is generated, wrapped and stored; from then on  *)
(* it is the newest.                                                       *)
AddDomain ==
  /\ env # NoKey
  /\ FreeSelector
  /\ Len(keys) < MaxMonths
  /\ keys' = Append(keys, [selector |-> month, master |-> env])
  /\ UNCHANGED <<config, dns, status, sealed, inhand, outcome, keyed, claimLoss, faults>>

(* The owner publishes a record the command has printed. *)
PublishRecord(i) ==
  /\ zone' = [zone EXCEPT ![keys[i].selector] = i]
  /\ UNCHANGED <<config, month, keys, status, sealed, inhand, outcome, keyed,
                 claimLoss, faults>>

NextMonth ==
  /\ month < MaxMonths
  /\ month' = month + 1
  /\ UNCHANGED <<config, zone, keys, status, sealed, inhand, outcome, keyed,
                 claimLoss, faults>>

-----------------------------------------------------------------------------
(* The API process.                                                        *)

(* packRecipients wraps the recipients when there is a keeper. *)
Accept(m) ==
  /\ status[m] = "new"
  /\ \A n \in 1..(m - 1) : status[n] # "new"
  /\ status' = [status EXCEPT ![m] = "queued"]
  /\ sealed' = [sealed EXCEPT ![m] = serveKey]
  /\ keyed' = IF keys = <<>> THEN keyed ELSE keyed \cup {m}
  /\ UNCHANGED <<config, dns, keys, inhand, outcome, claimLoss, faults>>

-----------------------------------------------------------------------------
(* The worker.                                                             *)

(* Mutant: the worker has no keeper. *)
ReadableMutant(m) == sealed[m] = NoKey

(* unpackRecipients: clear recipients, or wrapped under the worker's key. *)
Readable(m) == sealed[m] \in {NoKey, workerKey}

(* Mutant: the limit is off by one. *)
ClaimedRowsMutant ==
  LET rows == {m \in Messages : status[m] \in Waiting}
  IN {m \in rows : Cardinality({n \in rows : n < m}) <= BatchSize}

(* The rows the claim's UPDATE takes: the oldest that wait. *)
ClaimedRows ==
  LET rows == {m \in Messages : status[m] \in Waiting}
  IN {m \in rows : Cardinality({n \in rows : n < m}) < BatchSize}

(* Every claimed row can be read. *)
Claim ==
  /\ workerKey # NoKey /\ batch = {} /\ cur = 0
  /\ ClaimedRows # {}
  /\ \A m \in ClaimedRows : Readable(m)
  /\ status' = [m \in Messages |-> IF m \in ClaimedRows THEN "sending" ELSE status[m]]
  /\ batch' = ClaimedRows
  /\ UNCHANGED <<config, dns, keys, sealed, cur, sig, outcome, keyed, claimLoss, faults>>

(* Mutant: the claim is rolled back when a row cannot be read. *)
ClaimFailsMutant ==
  /\ workerKey # NoKey /\ batch = {} /\ cur = 0
  /\ \E m \in ClaimedRows : ~Readable(m)
  /\ UNCHANGED vars

(* A row cannot be read: ClaimMessages returns the error and no row at     *)
(* all, but its UPDATE has been committed.                                 *)
ClaimFails ==
  /\ workerKey # NoKey /\ batch = {} /\ cur = 0
  /\ \E m \in ClaimedRows : ~Readable(m)
  /\ status' = [m \in Messages |-> IF m \in ClaimedRows THEN "sending" ELSE status[m]]
  /\ unreadable' = unreadable \cup {m \in ClaimedRows : ~Readable(m)}
  /\ bystanders' = bystanders \cup {m \in ClaimedRows : Readable(m)}
  /\ UNCHANGED <<config, dns, keys, sealed, inhand, outcome, keyed, faults>>

(* SigningKeyForMessage: the newest key; no code retires one. *)
SigningKey == Len(keys)

(* There is a key and unwrapSigner can open it. *)
CanSign == keys # <<>> /\ keys[SigningKey].master = workerKey

Sign(m) ==
  /\ cur = 0 /\ m \in batch
  /\ CanSign
  /\ batch' = batch \ {m}
  /\ cur' = m
  /\ sig' = SigningKey
  /\ UNCHANGED <<config, dns, keys, status, sealed, outcome, keyed, claimLoss, faults>>

(* No key, a key of another master, or any error of the lookup: all fail   *)
(* the message for good.                                                   *)
SignFails(m) ==
  /\ cur = 0 /\ m \in batch
  /\ \/ ~CanSign /\ UNCHANGED faults
     \/ Fault
  /\ batch' = batch \ {m}
  /\ status' = [status EXCEPT ![m] = "failed"]
  /\ unsigned' = unsigned \cup {m}
  /\ UNCHANGED <<config, dns, keys, sealed, cur, sig, mail, keyed, claimLoss>>

(* The engine takes the message or refuses it. A fault leaves open whether *)
(* it took it: no answer comes, and the message is signed anew at the next *)
(* attempt, or the statement with the verdict fails and the worker goes on *)
(* to the next message.                                                    *)
Send ==
  /\ cur # 0
  /\ \/ /\ status' = [status EXCEPT ![cur] = "sent"]
        /\ mail' = [mail EXCEPT ![cur] = sig]
        /\ UNCHANGED faults
     \/ /\ status' = [status EXCEPT ![cur] = "failed"]
        /\ UNCHANGED <<mail, faults>>
     \/ /\ Fault
        /\ status' \in {status, [status EXCEPT ![cur] = "deferred"]}
        /\ mail' \in {mail, [mail EXCEPT ![cur] = sig]}
  /\ cur' = 0
  /\ sig' = 0
  /\ UNCHANGED <<config, dns, keys, sealed, batch, unsigned, keyed, claimLoss>>

-----------------------------------------------------------------------------
WorkerStep ==
  \/ Claim
  \/ ClaimFails
  \/ \E m \in Messages : Sign(m) \/ SignFails(m)
  \/ Send

Next ==
  \/ \E k \in KeyOrNot : SwapMaster(k)
  \/ RestartServe
  \/ StartWorker
  \/ StopWorker
  \/ AddDomain
  \/ \E i \in 1..Len(keys) : PublishRecord(i)
  \/ NextMonth
  \/ \E m \in Messages : Accept(m)
  \/ WorkerStep

Spec == Init /\ [][Next]_vars

(* A worker runs on; one that has ended is started again, if it can be.    *)
FairSpec == Spec /\ WF_vars(WorkerStep) /\ WF_vars(StartWorker)

-----------------------------------------------------------------------------
(* Properties.                                                             *)

(* Mail that went out verifies: whenever the selector of its signature has *)
(* a record in the zone, it is the record of the key that signed, however  *)
(* often the domain was added and whichever records were published.        *)
PublishedKeyVerifies ==
  \A m \in Messages :
    mail[m] # 0 => zone[keys[mail[m]].selector] \in {0, mail[m]}

(* The state is well typed and published keys verify. *)
CustodyInv == TypeOK /\ PublishedKeyVerifies

(* Rows left 'sending' that the worker does not hold. *)
Stranded == {m \in Messages : status[m] = "sending" /\ m \notin batch /\ m # cur}

(* As long as the master key stays what it is, mail accepted for a domain  *)
(* with a signing key is neither left unsigned nor lost in a claim but for *)
(* faults, whichever processes are restarted and keys are added meanwhile. *)
SteadyMasterKeepsMail ==
  swaps = 0 => Cardinality((unsigned \cup Stranded) \cap keyed) <= BatchSize * faults

(* A message that can no longer be read takes at most the rest of its      *)
(* batch with it: a change of the master key costs a bounded number of     *)
(* messages that were accepted under the new key.                          *)
BystandersBounded ==
  Cardinality(bystanders) <= (BatchSize - 1) * Cardinality(unreadable)

(* Messages that cannot be read do not block the queue: whatever waits in  *)
(* it is claimed, while the deployment has a master key; under FairSpec.   *)
UnreadableNeverBlocks ==
  \A m \in Messages : status[m] \in Waiting ~> status[m] \notin Waiting \/ env = NoKey
=============================================================================
