--------------------------- MODULE MessageLifecycle ---------------------------
(***************************************************************************)
(* What a Postgres-backed queue of this system promises about one entry,   *)
(* with the workers, their locks, their batches and their database round   *)
(* trips hidden. For the mail queue:                                       *)
(*   - a message is attempted only while it waits (queued or deferred);    *)
(*   - an attempt ends in at most one verdict, and "sent" is a verdict     *)
(*     only for a message the sending engine has taken;                    *)
(*   - a message is put back for a retry only while attempts remain, so no *)
(*     message is attempted more than MaxAttempts times;                   *)
(*   - "sent" and "failed" are final.                                      *)
(* DeliveryQueue implements this specification with the sending engine as  *)
(* the receiver, WebhookDispatch with an endpoint as the receiver (see the *)
(* Lifecycle instance of each).                                            *)
(***************************************************************************)
EXTENDS Naturals

CONSTANTS
  Messages,       \* every message id that may ever be accepted
  MaxAttempts     \* worker.MaxAttempts

VARIABLES
  status,         \* messages.status, "new" before the row exists
  attempts,       \* messages.attempts
  accepted        \* the messages the sending engine has taken

vars == <<status, attempts, accepted>>

Waiting == {"queued", "deferred"}
Final   == {"sent", "failed"}

Init ==
  /\ status = [m \in Messages |-> "new"]
  /\ attempts = [m \in Messages |-> 0]
  /\ accepted = {}

(* New messages are accepted for delivery. *)
Accept(batch) ==
  /\ \A m \in batch : status[m] = "new"
  /\ status' = [m \in Messages |-> IF m \in batch THEN "queued" ELSE status[m]]
  /\ UNCHANGED <<attempts, accepted>>

(* A batch of waiting messages starts an attempt. *)
Attempt(batch) ==
  /\ \A m \in batch : status[m] \in Waiting
  /\ status' = [m \in Messages |-> IF m \in batch THEN "sending" ELSE status[m]]
  /\ attempts' = [m \in Messages |->
                    IF m \in batch THEN attempts[m] + 1 ELSE attempts[m]]
  /\ UNCHANGED accepted

(* The engine takes a message that is being attempted, perhaps again. *)
HandOver(m) ==
  /\ status[m] = "sending"
  /\ accepted' = accepted \cup {m}
  /\ UNCHANGED <<status, attempts>>

(* The attempt ends with a verdict. *)
Resolve(m, verdict) ==
  /\ status[m] = "sending"
  /\ verdict = "sent" => m \in accepted
  /\ verdict = "deferred" => attempts[m] < MaxAttempts
  /\ status' = [status EXCEPT ![m] = verdict]
  /\ UNCHANGED <<attempts, accepted>>

Next ==
  \/ \E batch \in SUBSET Messages : Accept(batch)
  \/ \E batch \in SUBSET Messages : Attempt(batch)
  \/ \E m \in Messages : HandOver(m)
  \/ \E m \in Messages, verdict \in Final \cup {"deferred"} : Resolve(m, verdict)

Spec == Init /\ [][Next]_vars
=============================================================================
