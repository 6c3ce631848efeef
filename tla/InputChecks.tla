------------------------------ MODULE InputChecks ------------------------------
(***************************************************************************)
(* The decisions of the program that rest on an input rather than on the   *)
(* database: a bounce text is classified, a template rendered, the content *)
(* of a call checked and later built into a message, an environment loaded *)
(* and processes started with it, a webhook's URL followed. A behavior is  *)
(* about one of these tasks: somebody writes the input piece by piece, and *)
(* the program decides.                                                    *)
(***************************************************************************)
EXTENDS BounceClassify, MailContent, Settings, DestinationGuard

CONSTANTS
  Words,          \* the words of a bounce text
  Codes,          \* HTTP status codes of the engine
  MaxWords,       \* bound on the length of a bounce text
  Pieces,         \* what templates are put together from, each a text
  MaxPieces,      \* bound on the pieces of a template
  VarValues,      \* values of the variable "a"; the letter "b" is left to the
                  \* texts around them and "mark" to the properties
  ContentPieces,  \* what the fields of a call are put together from
  Mailboxes,      \* whom a call may name, "x" among them
  ToLists,        \* lists of recipients
  HeaderSets,     \* sets of custom headers
  MaxEdits,       \* bound on the edits of a call or an environment
  URLs,           \* webhook destinations, at first and by redirection
  Addrs           \* what a resolver may answer

Recipient == [box : Mailboxes, upper : BOOLEAN, valid : BOOLEAN]

ASSUME InputAssumption ==
  /\ \A w \in Words : w.groups \in Seq(Nat) /\ w.bare \in BOOLEAN
  /\ Codes \subseteq 100..999
  /\ {MaxWords, MaxPieces, MaxEdits} \subseteq Nat
  /\ "mark" \in Chars
  /\ Pieces \cup ContentPieces \subseteq Seq(Chars \ {"mark"})
  /\ VarValues \subseteq Seq(Chars \ {"mark", "b"})
  /\ "x" \in Mailboxes
  /\ ToLists \subseteq Seq(Recipient)
  /\ URLs \subseteq URL
  /\ Addrs \subseteq Address

VARIABLES
  task,           \* which decision this is about
  input,          \* what has been written so far
  stage,          \* how far the program is
  result          \* what it has decided

vars == <<task, input, stage, result>>

Plain == [groups |-> <<>>, bare |-> FALSE]

OK    == [box |-> "x", upper |-> FALSE, valid |-> TRUE]
Draft(value) ==
  [from |-> OK, to |-> <<OK>>, subject |-> <<"a">>, html |-> <<>>, text |-> <<>>,
   variables |-> [n \in {<<"a">>} |-> value], replyTo |-> {}, headers |-> {},
   tags |-> {}, suppressed |-> {}, edits |-> 0]

Init ==
  /\ stage = "writing"
  /\ \/ /\ task = "bounce"
        /\ input = [source |-> "none", said |-> <<>>, complaint |-> FALSE]
        /\ result = "none"
     \/ task = "template" /\ input = <<>> /\ result = {}
     \/ task = "mail" /\ input \in {Draft(v) : v \in VarValues} /\ result = Refused
     \/ /\ task = "settings"
        /\ input \in {[env |-> e, edits |-> 0] : e \in {Fresh, Sending}}
        /\ result = {}
     \/ task = "webhook" /\ input \in {[at |-> u, made |-> 0] : u \in URLs} /\ result = {}

-----------------------------------------------------------------------------
(* Bounces: Worker.suppressIfAddressIsBad and the texts it is given.       *)

(* The engine refuses a message; the text names its HTTP status. A refusal *)
(* before the request is made has a text without digits.                   *)
EngineRefuses ==
  /\ task = "bounce" /\ stage = "writing" /\ input.source = "none"
  /\ \E text \in {<<Plain>>} \cup
                 {<<Plain, [groups |-> <<code>>, bare |-> TRUE]>> :
                    code \in {c \in Codes : EngineResult(c) = "Permanent"}} :
       input' = [source |-> "engine", said |-> text, complaint |-> FALSE]
  /\ UNCHANGED <<task, stage, result>>

(* A sender that passes on what the destination said, word by word. *)
DestinationSays(w) ==
  /\ task = "bounce" /\ stage = "writing" /\ input.source # "engine"
  /\ Len(input.said) < MaxWords
  /\ \E c \in {input.complaint, input.complaint \/ Len(input.said) < ReportCap} :
       input' = [source |-> "destination", said |-> Append(input.said, w), complaint |-> c]
  /\ UNCHANGED <<task, stage, result>>

(* The text is classified; every recipient of the message is suppressed    *)
(* when the kind Suppresses.                                               *)
SuppressIfAddressIsBad ==
  /\ task = "bounce" /\ stage = "writing" /\ input.source # "none"
  /\ result' = Classify(input.said, input.complaint)
  /\ stage' = "ended"
  /\ UNCHANGED <<task, input>>

-----------------------------------------------------------------------------
(* Templates.                                                              *)

WriteTemplate(piece) ==
  /\ task = "template" /\ Len(input) < MaxPieces
  /\ input' = Append(input, piece)
  /\ UNCHANGED <<task, stage, result>>

-----------------------------------------------------------------------------
(* A call, when it is accepted and when it is sent.                        *)

Edit(field, value) ==
  /\ task = "mail" /\ stage = "writing" /\ input.edits < MaxEdits
  /\ input' = [input EXCEPT ![field] = value, !.edits = input.edits + 1]
  /\ UNCHANGED <<task, stage, result>>

EditCall ==
  /\ task = "mail"
  /\ \/ \E field \in {"subject", "html", "text"}, piece \in ContentPieces :
          Edit(field, input[field] \o piece)
     \/ \E list \in ToLists : Edit("to", list)
     \/ \E set \in HeaderSets : Edit("headers", set)
     \/ \E set \in SUBSET Mailboxes : Edit("suppressed", set)
     \/ Edit("from", [OK EXCEPT !.valid = FALSE])
     \/ \E valid \in BOOLEAN : Edit("replyTo", {[OK EXCEPT !.valid = valid]})
     \/ Edit("tags", {<<"newline">>})

(* handleSend, as far as the content decides: 202 or 422. *)
HandleSend ==
  /\ task = "mail" /\ stage = "writing"
  /\ result' = BuildMessage(input, input.suppressed)
  /\ stage' = IF result'.ok THEN "accepted" ELSE "refused"
  /\ UNCHANGED <<task, input>>

(* The worker's sign, up to the signature. *)
WorkerBuilds ==
  /\ task = "mail" /\ stage = "accepted"
  /\ result' = Build(Envelope(result))
  /\ stage' = "built"
  /\ UNCHANGED <<task, input>>

-----------------------------------------------------------------------------
(* Settings: an operator edits the environment and starts a process.       *)

SetVariable(name) ==
  /\ task = "settings" /\ stage = "writing" /\ input.edits < MaxEdits
  /\ \E v \in Values[name] \ {input.env[name]} :
       input' = [env |-> [input.env EXCEPT ![name] = v], edits |-> input.edits + 1]
  /\ UNCHANGED <<task, stage, result>>

(* boot. *)
Boot ==
  /\ task = "settings" /\ stage = "writing"
  /\ result' = Problems(input.env)
  /\ stage' = IF result' = {} THEN "accepted" ELSE "refused"
  /\ UNCHANGED <<task, input>>

(* The rest of runServe and runWorker, the database being reachable. *)
RunServe ==
  /\ task = "settings" /\ stage = "accepted"
  /\ stage' = IF ServeStarts(Read(input.env)) THEN "serving" ELSE "unserved"
  /\ UNCHANGED <<task, input, result>>

RunWorker ==
  /\ task = "settings" /\ stage = "accepted"
  /\ Read(input.env).send
  /\ stage' = IF WorkerStarts(Read(input.env)) THEN "sending" ELSE "unsent"
  /\ UNCHANGED <<task, input, result>>

-----------------------------------------------------------------------------
(* Sender.Send and the client of netguard.                                 *)

SendWebhook ==
  /\ task = "webhook" /\ stage = "writing"
  /\ stage' = IF ValidURL(input.at) THEN "dialling" ELSE "refused"
  /\ UNCHANGED <<task, input, result>>

(* The transport resolves the host, anew at every hop; an address is its   *)
(* own answer.                                                             *)
Dial ==
  /\ task = "webhook" /\ stage = "dialling"
  /\ \E answers \in (IF input.at.named THEN {<<a>> : a \in Addrs} \cup (Addrs \X Addrs)
                                       ELSE {<<input.at.addr>>}) :
       IF MayDial(answers)
       THEN /\ result' = result \cup {answers[1]}
            /\ input' = [input EXCEPT !.made = input.made + 1]
            /\ stage' = "connected"
       ELSE stage' = "refused" /\ UNCHANGED <<input, result>>
  /\ UNCHANGED task

Redirect(u) ==
  /\ task = "webhook" /\ stage = "connected"
  /\ IF MayFollow(input.made, u)
     THEN stage' = "dialling" /\ input' = [input EXCEPT !.at = u]
     ELSE stage' = "refused" /\ UNCHANGED input
  /\ UNCHANGED <<task, result>>

Respond ==
  /\ task = "webhook" /\ stage = "connected"
  /\ stage' = "ended"
  /\ UNCHANGED <<task, input, result>>

-----------------------------------------------------------------------------
Next ==
  \/ EngineRefuses
  \/ \E w \in Words : DestinationSays(w)
  \/ SuppressIfAddressIsBad
  \/ \E piece \in Pieces : WriteTemplate(piece)
  \/ EditCall
  \/ HandleSend
  \/ WorkerBuilds
  \/ \E name \in Names : SetVariable(name)
  \/ Boot
  \/ RunServe
  \/ RunWorker
  \/ SendWebhook
  \/ Dial
  \/ \E u \in URLs : Redirect(u)
  \/ Respond

Spec == Init /\ [][Next]_vars
-----------------------------------------------------------------------------
(* Properties: bounces.                                                    *)

Classified == task = "bounce" /\ stage = "ended"

(* The HTTP status of a refusing engine is no SMTP reply: nothing the      *)
(* engine itself answers is ever read as a bounce, so only a sender that   *)
(* passes on the destination's words can suppress anybody.                 *)
EngineStatusIsNoBounce ==
  Classified /\ input.source = "engine" => ~Suppresses(result)

(* The places of a text that are parsed, those of statuses and those of    *)
(* reply codes.                                                            *)
Parsed(text)   == 1..Min({Len(text), ReportCap})
Statuses(text) == {i \in Parsed(text) : StatusStarts(text[i].groups) # {}}
Replies(text)  == {i \in Parsed(text) : IsReplyCode(text[i])}

NoAddresses(text) == \A i \in Parsed(text) : Len(text[i].groups) <= 3

(* The first status of a text, or its first reply code when it has none,   *)
(* is permanent: of class 5 and not listed as temporary, or from 500.      *)
FirstIsPermanent(text) ==
  \/ \E i \in Statuses(text) :
       /\ LeadDigit(text[i].groups[1]) = 5
       /\ text[i].groups \notin softStatus
       /\ \A j \in Statuses(text) : i <= j
  \/ /\ Statuses(text) = {}
     /\ \E i \in Replies(text) : text[i].groups[1] >= 500 /\ \A j \in Replies(text) : i <= j

(* The first verdict of a text decides: what comes later in it suppresses  *)
(* nobody, nor does what lies beyond the cap. This is said of texts that   *)
(* name no host by its IP address, part of which may be read as a status;  *)
(* and a status of class 5 suppresses although it is not listed, by the    *)
(* fallback of Classify.                                                   *)
FirstVerdictDecides ==
  Classified /\ Suppresses(result) /\ NoAddresses(input.said) =>
    input.complaint \/ FirstIsPermanent(input.said)

(* The text names this one status within the cap, among reply codes and    *)
(* plain words.                                                            *)
OnlyStatus(status) ==
  \E i \in 1..Min({Len(input.said), ReportCap}) :
    /\ input.said[i].groups = status
    /\ \A j \in 1..Len(input.said) : j # i => Len(input.said[j].groups) < 3

(* A full mailbox, greylisting or any other status listed as temporary     *)
(* never suppresses, although it may come as 5.2.2 and with a permanent    *)
(* reply code before or after it. (A text that names a host by its IP      *)
(* address is not covered: part of the address may be read as a status.)   *)
ListedTemporaryIsSoft ==
  Classified /\ ~input.complaint /\ (\E status \in softStatus : OnlyStatus(status)) =>
    result = "soft"

(* Suppression follows the text: never for the engine's own status, only   *)
(* for a text whose first verdict is permanent, and never for a listed     *)
(* temporary condition. That an unlisted status suppresses is what the     *)
(* code does, not what its comments say.                                   *)
SuppressionFollowsTheText ==
  EngineStatusIsNoBounce /\ FirstVerdictDecides /\ ListedTemporaryIsSoft

-----------------------------------------------------------------------------
(* Properties: templates.                                                  *)

Template == FlattenSeq(input)
With(v)  == [n \in {<<"a">>} |-> v]

(* Tags says what Render needs: a template renders exactly when Tags       *)
(* accepts it and every name it lists has a value, but for a template with *)
(* too many tags or too long an output.                                    *)
TagsTellsWhatRenderNeeds ==
  task = "template" =>
    \A v \in VarValues, escape \in BOOLEAN :
      LET made == Render(Template, With(v), escape)
          tags == Tags(Template)
          good == tags.ok /\ tags.names \subseteq {<<"a">>}
      IN /\ made.ok => good
         /\ good => made.ok \/ made.why \in {"tags", "output"}

(* A text with every mark replaced. *)
Replaced(s, v) ==
  FlattenSeq([i \in 1..Len(s) |-> IF s[i] = "mark" THEN v ELSE <<s[i]>>])

(* A value is data: whatever it holds, tags and markup included, the       *)
(* output is the template with the (escaped) value in place of each tag;   *)
(* the value decides nothing else, unless it makes the output too long.    *)
ValuesAreData ==
  task = "template" =>
    \A v \in VarValues, escape \in BOOLEAN :
      LET made   == Render(Template, With(v), escape)
          marked == Render(Template, With(<<"mark">>), FALSE)
      IN marked.ok =>
           IF made.ok
           THEN made.text = Replaced(marked.text, IF escape THEN Escape(v) ELSE v)
           ELSE made.why = "output"

(* No part of a tag reaches a reader: unless a value holds braces itself,  *)
(* what Render returns has no "{{" left, wherever single braces and tags   *)
(* meet.                                                                   *)
NoTagSurvives ==
  task = "template" =>
    \A v \in {v \in VarValues : Places(v, {"{", "}"}) = {}} :
      LET made == Render(Template, With(v), FALSE)
      IN made.ok => IndexPair(made.text, "{") = 0

(* A template says what it seems to say: to Tags, to its reader, and       *)
(* whatever the values hold.                                               *)
TemplatesAreFaithful ==
  TagsTellsWhatRenderNeeds /\ ValuesAreData /\ NoTagSurvives

-----------------------------------------------------------------------------
(* Properties: calls.                                                      *)

(* What was accepted can be built: a call's content never fails in the     *)
(* worker, where nobody would tell the caller.                             *)
AcceptedIsBuilt == task = "mail" /\ stage = "built" => result.ok

Count(s, c) == Cardinality(Places(s, {c}))

(* A value hides no text: the plain text made for a call without one       *)
(* keeps every letter of the HTML around the tags ("b"), whatever markup   *)
(* the value looks like.                                                   *)
ValuesHideNoText ==
  task = "mail" /\ stage = "built" /\ TrimSpace(input.text) = <<>> =>
    Count(result.text, "b") =
      Count(PlainTextFrom(Render(input.html, With(<<>>), TRUE).text), "b")

(* A message goes once to every mailbox the call names that is not         *)
(* suppressed, however often and in whichever case it is named.            *)
EachMailboxOnce ==
  task = "mail" /\ stage = "built" =>
    /\ {result.to[i].box : i \in 1..Len(result.to)} =
         {input.to[i].box : i \in 1..Len(input.to)} \ input.suppressed
    /\ \A i, j \in 1..Len(result.to) : result.to[i].box = result.to[j].box => i = j

(* What the reader gets is what the call said: the address of its sender,  *)
(* its headers, its subject, HTML and text with the tags replaced. All but *)
(* its reply_to: that is checked, not stored, and never arrives.           *)
ContentArrives ==
  task = "mail" /\ stage = "built" =>
    LET html == Render(input.html, input.variables, TRUE).text
        text == Render(input.text, input.variables, FALSE).text
    IN /\ result.from = input.from /\ result.headers = input.headers
       /\ result.subject = Render(input.subject, input.variables, FALSE).text
       /\ result.html = IF TrimSpace(html) = <<>> THEN <<>> ELSE html
       /\ TrimSpace(text) # <<>> => result.text = text
       /\ result.replyTo = {}

(* What was accepted is built, with all its content but the reply_to, and  *)
(* for every mailbox once.                                                 *)
AcceptedMailKeepsItsContent ==
  AcceptedIsBuilt /\ ContentArrives /\ ValuesHideNoText /\ EachMailboxOnce

-----------------------------------------------------------------------------
(* Properties: settings.                                                   *)

(* What Load accepts starts, with three exceptions that Load could have    *)
(* seen: parameters of the database URL stop either process, a malformed   *)
(* console hash or listening address the API process. Nothing that only    *)
(* sending needs, the ceiling, the engine or the master key, stops a       *)
(* worker after boot.                                                      *)
AcceptedSettingsStart ==
  task = "settings" =>
    /\ stage = "unserved" =>
         \/ input.env.db = "sslmode=maybe"
         \/ input.env.hash \notin {"unset", "argon2id"}
         \/ input.env.listen = "portless"
    /\ stage = "unsent" => input.env.db = "sslmode=maybe"

(* A worker that runs is bounded by a ceiling, and what the API process    *)
(* publishes as MTA-STS policy is one that receivers accept, whatever was  *)
(* mistyped in the environment.                                            *)
RunningIsBounded ==
  task = "settings" =>
    LET c == Read(input.env) IN
    /\ stage = "sending" => c.max > 0
    /\ stage = "serving" /\ c.hosts =>
         c.mode \in {"testing", "enforce", "none"} /\ c.age >= 86400 /\ c.age <= 31557600

(* Settings that Load accepts start a process, but for the named           *)
(* exceptions, and are fit to run with.                                    *)
SettingsAreFit == AcceptedSettingsStart /\ RunningIsBounded

-----------------------------------------------------------------------------
(* Properties: webhooks.                                                   *)

(* The special-purpose blocks of IPv4 that are not for the public: three   *)
(* octets and a prefix length. Those that IsBlocked refuses, ...           *)
InsideBlocks ==
  {<<0,0,0,8>>, <<10,0,0,8>>, <<100,64,0,10>>, <<127,0,0,8>>, <<169,254,0,16>>,
   <<172,16,0,12>>, <<192,0,0,24>>, <<192,168,0,16>>, <<224,0,0,4>>, <<240,0,0,4>>}

(* ... and those it lets through: three blocks for examples, one for       *)
(* benchmarks, and the former relays of 6to4.                              *)
LetThrough ==
  {<<192,0,2,24>>, <<198,51,100,24>>, <<203,0,113,24>>, <<198,18,0,15>>, <<192,88,99,24>>}

SpecialPurpose == InsideBlocks \cup LetThrough

Prefix(a, bits) == (65536 * a[1] + 256 * a[2] + a[3]) \div 2^(24 - bits)

In(a, blocks) == \E b \in blocks : Prefix(a, b[4]) = Prefix(b, b[4])

(* No special-purpose address is ever connected to, but for those of the   *)
(* five blocks that are let through, however the resolver answers from hop *)
(* to hop and wherever redirects lead, in at most maxRedirects requests;   *)
(* and no other address is refused.                                        *)
NothingInsideIsDialled ==
  task = "webhook" =>
    /\ input.made <= MaxRedirects
    /\ \A a \in result : In(a, SpecialPurpose) => In(a, LetThrough)
    /\ stage = "refused" /\ input.made = 0 /\ ~input.at.named
         /\ input.at.scheme /\ input.at.port =>
           In(input.at.addr, SpecialPurpose) /\ ~In(input.at.addr, LetThrough)
=============================================================================
