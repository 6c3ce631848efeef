------------------------------- MODULE MailFlow -------------------------------
(***************************************************************************)
(* A message from the API call to the recipients' mailboxes, composed with *)
(* everything that may withdraw permission on the way: suppression by an   *)
(* unsubscribe link, revocation of the API key and suspension of the       *)
(* sending domain (internal/httpapi/auth.go, send.go, unsubscribe.go;      *)
(* internal/unsubscribe/token.go; internal/store/dkim.go;                  *)
(* internal/console/console.go).                                           *)
(*                                                                         *)
(* The queue and its workers are the Queue instance of MessageLifecycle,   *)
(* which DeliveryQueue implements; intake keeps the order of the reads of  *)
(* SendIntake. There is one API key and one sending domain. The engine     *)
(* discards a message id it has taken before, so mail goes out when a      *)
(* message enters accepted, to every recipient at once and with the same   *)
(* link in it. The refusals engine.go can report carry a 3xx or 4xx code   *)
(* and classify as soft or unknown, so no refusal suppresses anyone here.  *)
(***************************************************************************)
EXTENDS Naturals, Sequences, FiniteSets

CONSTANTS
  Messages,       \* calls clients may make, each at most one message
  Addresses,      \* recipient addresses
  To,             \* the recipients of each call, in order
  MaxAttempts     \* worker.MaxAttempts

ASSUME FlowAssumption ==
  /\ To \in [Messages -> Seq(Addresses) \ {<<>>}]
  /\ MaxAttempts \in Nat \ {0}

VARIABLES
  status,         \* messages.status
  attempts,       \* messages.attempts
  accepted,       \* messages the engine has taken
  stage,          \* how far the handler of each call has come
  kept,           \* messages.recipients
  suppressed,     \* suppressions
  usable,         \* the API key is neither revoked nor expired
  trusted,        \* domains.status = 'verified'
  lapsed,         \* messages whose unsubscribe link has expired
  told,           \* readers shown "You will not receive further email"
  barred          \* history: what stood against a call before its check, and still does

queue == <<status, attempts, accepted>>
rules == <<suppressed, usable, trusted, lapsed, told>>
vars  == <<queue, stage, kept, rules, barred>>

Queue == INSTANCE MessageLifecycle

Final  == {"sent", "failed"}
Stages == {"none", "auth", "filter", "domain", "commit", "stored", "refused"}
Bars   == [to : SUBSET Addresses, key : BOOLEAN, domain : BOOLEAN]

(* The recipients stored for a message. *)
Readers(m) == {kept[m][i] : i \in 1..Len(kept[m])}

TypeOK ==
  /\ status \in [Messages -> {"new", "queued", "sending", "deferred"} \cup Final]
  /\ attempts \in [Messages -> 0..MaxAttempts]
  /\ accepted \subseteq Messages
  /\ stage \in [Messages -> Stages]
  /\ kept \in [Messages -> Seq(Addresses)]
  /\ suppressed \subseteq Addresses
  /\ usable \in BOOLEAN
  /\ trusted \in BOOLEAN
  /\ lapsed \subseteq Messages
  /\ told \subseteq Addresses
  /\ barred \in [Messages -> Bars]

Init ==
  /\ Queue!Init
  /\ stage = [m \in Messages |-> "none"]
  /\ kept = [m \in Messages |-> <<>>]
  /\ suppressed = {}
  /\ usable = TRUE
  /\ trusted = TRUE
  /\ lapsed = {}
  /\ told = {}
  /\ barred = [m \in Messages |-> [to |-> {}, key |-> FALSE, domain |-> FALSE]]

-----------------------------------------------------------------------------
(* The handler of one call.                                                *)

Receive(m) ==
  /\ stage[m] = "none"
  /\ stage' = [stage EXCEPT ![m] = "auth"]
  /\ barred' = [barred EXCEPT ![m] =
                  [to |-> suppressed, key |-> ~usable, domain |-> ~trusted]]
  /\ UNCHANGED <<queue, kept, rules>>

Authenticate(m) ==
  /\ stage[m] = "auth"
  /\ stage' = [stage EXCEPT ![m] = IF usable THEN "filter" ELSE "refused"]
  /\ UNCHANGED <<queue, kept, rules, barred>>

(* Mutant: a message is kept whole when one recipient may have it. *)
FilterMutant(m) ==
  IF \E i \in 1..Len(To[m]) : To[m][i] \notin suppressed THEN To[m] ELSE <<>>

(* Where FilterSuppressed finds an address it allows. *)
Allowed(m) == {i \in 1..Len(To[m]) : To[m][i] \notin suppressed}

(* What FilterSuppressed leaves of a call's recipients, in their order:    *)
(* SelectSeq, without its recursion, which the proofs cannot follow.       *)
Filter(m) ==
  [k \in 1..Cardinality(Allowed(m)) |->
     To[m][CHOOSE i \in Allowed(m) : Cardinality({j \in Allowed(m) : j < i}) = k - 1]]

FilterSuppressed(m) ==
  /\ stage[m] = "filter"
  /\ kept' = [kept EXCEPT ![m] = Filter(m)]
  /\ stage' = [stage EXCEPT ![m] = IF Filter(m) = <<>> THEN "refused" ELSE "domain"]
  /\ UNCHANGED <<queue, rules, barred>>

CheckDomain(m) ==
  /\ stage[m] = "domain"
  /\ stage' = [stage EXCEPT ![m] = IF trusted THEN "commit" ELSE "refused"]
  /\ UNCHANGED <<queue, kept, rules, barred>>

EnqueueMessage(m) ==
  /\ stage[m] = "commit"
  /\ stage' = [stage EXCEPT ![m] = "stored"]
  /\ Queue!Accept({m})
  /\ UNCHANGED <<kept, rules, barred>>

-----------------------------------------------------------------------------
(* The worker, as the abstract queue has it. Neither the claim, nor the    *)
(* signing key's lookup, nor the hand-off looks at suppressions, the API   *)
(* key or the status of the domain again.                                  *)

ClaimMessages(m) ==
  /\ Queue!Attempt({m})
  /\ UNCHANGED <<stage, kept, rules, barred>>

SignAndSend(m) ==
  /\ Queue!HandOver(m)
  /\ UNCHANGED <<stage, kept, rules, barred>>

RecordVerdict(m) ==
  /\ \E verdict \in Final \cup {"deferred"} : Queue!Resolve(m, verdict)
  /\ UNCHANGED <<stage, kept, rules, barred>>

-----------------------------------------------------------------------------
(* Those who withdraw permission, and those who give it back.              *)

(* The stages in which a check is still ahead of a call. *)
BeforeKey    == {"auth"}
BeforeFilter == {"auth", "filter"}
BeforeDomain == {"auth", "filter", "domain"}

(* Mutant: the link is bound to the last recipient. *)
LinkAddressMutant(m) == kept[m][Len(kept[m])]

(* sign binds the link of a message to its first recipient. *)
LinkAddress(m) == kept[m][1]

(* A reader follows the link in mail they got, within its lifetime, and    *)
(* confirms; the address in the link is suppressed.                        *)
Unsubscribe(m, reader) ==
  /\ m \in accepted \ lapsed
  /\ reader \in Readers(m)
  /\ suppressed' = suppressed \cup {LinkAddress(m)}
  /\ told' = told \cup {reader}
  /\ barred' = [n \in Messages |-> IF stage[n] \in BeforeFilter
                                  THEN [barred[n] EXCEPT !.to = @ \cup {LinkAddress(m)}]
                                  ELSE barred[n]]
  /\ UNCHANGED <<queue, stage, kept, usable, trusted, lapsed>>

(* now() passes the expiry in the link. *)
LinkLapses(m) ==
  /\ m \in accepted \ lapsed
  /\ lapsed' = lapsed \cup {m}
  /\ UNCHANGED <<queue, stage, kept, suppressed, usable, trusted, told, barred>>

(* The operator removes an address from the list in the console. *)
Unsuppress(a) ==
  /\ a \in suppressed
  /\ suppressed' = suppressed \ {a}
  /\ told' = told \ {a}
  /\ barred' = [m \in Messages |-> [barred[m] EXCEPT !.to = @ \ {a}]]
  /\ UNCHANGED <<queue, stage, kept, usable, trusted, lapsed>>

(* The operator revokes the key, or it expires; neither is undone. *)
KeyEnds ==
  /\ usable
  /\ usable' = FALSE
  /\ barred' = [m \in Messages |-> IF stage[m] \in BeforeKey
                                  THEN [barred[m] EXCEPT !.key = TRUE] ELSE barred[m]]
  /\ UNCHANGED <<queue, stage, kept, suppressed, trusted, lapsed, told>>

SuspendDomain ==
  /\ trusted
  /\ trusted' = FALSE
  /\ barred' = [m \in Messages |-> IF stage[m] \in BeforeDomain
                                  THEN [barred[m] EXCEPT !.domain = TRUE] ELSE barred[m]]
  /\ UNCHANGED <<queue, stage, kept, suppressed, usable, lapsed, told>>

MarkDomainVerified ==
  /\ ~trusted
  /\ trusted' = TRUE
  /\ barred' = [m \in Messages |-> [barred[m] EXCEPT !.domain = FALSE]]
  /\ UNCHANGED <<queue, stage, kept, suppressed, usable, lapsed, told>>

-----------------------------------------------------------------------------
Handle(m) ==
  \/ Authenticate(m)
  \/ FilterSuppressed(m)
  \/ CheckDomain(m)
  \/ EnqueueMessage(m)

Deliver(m) ==
  \/ ClaimMessages(m)
  \/ RecordVerdict(m)

Permission ==
  \/ \E m \in Messages : LinkLapses(m) \/ \E a \in Readers(m) : Unsubscribe(m, a)
  \/ \E a \in Addresses : Unsuppress(a)
  \/ KeyEnds
  \/ SuspendDomain
  \/ MarkDomainVerified

Next ==
  \/ \E m \in Messages : Receive(m) \/ Handle(m) \/ Deliver(m) \/ SignAndSend(m)
  \/ Permission

Spec == Init /\ [][Next]_vars

(* Workers go on claiming what waits. Nothing is assumed of a handler or   *)
(* of a message in hand, whose process may die, and nothing of people.     *)
FairSpec == Spec /\ \A m \in Messages : WF_vars(ClaimMessages(m))

-----------------------------------------------------------------------------
(* Properties.                                                             *)

(* Permission withdrawn before a call's own check of it counts: when the   *)
(* key is revoked, the domain suspended or an address suppressed before    *)
(* the handler asks, no mail goes out against that bar as long as it       *)
(* stands, whatever is withdrawn, given back, retried or raced meanwhile.  *)
(* Of what is withdrawn after the check, nothing is said: the code never   *)
(* asks again (NoMailAfterUnsubscribe).                                    *)
NoMailAgainstStandingBar ==
  \A m \in accepted :
    Readers(m) \cap barred[m].to = {} /\ ~barred[m].key /\ ~barred[m].domain

(* The state is well typed and no mail goes out against a standing bar. *)
FlowInv == TypeOK /\ NoMailAgainstStandingBar

(* Who is told that no further mail will come and stays off the list: only *)
(* a further recipient of a message to several, whose link names the first.*)
(* Every first recipient who follows a link is suppressed until the        *)
(* operator lifts it.                                                      *)
OnlyFurtherRecipientsSlipThrough ==
  \A a \in told \ suppressed :
    \E m \in accepted : a \in Readers(m) /\ a # kept[m][1]

(* The messages whose mail goes out in this step. *)
GoesOut(m) == m \notin accepted /\ m \in accepted'

(* What the unsubscribe page says: "You will not receive further email     *)
(* from this sender."                                                      *)
NoMailAfterUnsubscribe ==
  [][\A m \in Messages : GoesOut(m) => Readers(m) \cap told = {}]_vars
=============================================================================
