------------------------------ MODULE MailContent ------------------------------
(***************************************************************************)
(* What a call may say and what is made of it: the checks of a request's   *)
(* content in buildMessage (internal/httpapi/send.go, internal/mail/       *)
(* address.go) when the call is accepted, and mail.Build in the worker     *)
(* (internal/mail/build.go, Worker.sign) when the message is sent.         *)
(*                                                                         *)
(* An address is its mailbox, the case it is written in, and whether       *)
(* ParseAddress accepts it, which it does only without controls; a         *)
(* reply_to is a set of at most one. A custom header is whether its name   *)
(* starts with X-, whether the rest of the name is legal, and its value. A *)
(* part of a built message is what a reader decodes.                       *)
(***************************************************************************)
EXTENDS TemplateRender

CONSTANTS
  MaxRecipients,
  MaxSubject      \* MaxSubjectLength

ASSUME ContentAssumption == {MaxRecipients, MaxSubject} \subseteq Nat

-----------------------------------------------------------------------------
(* internal/mail/address.go.                                               *)

(* A tab is legal folding and no control. *)
ContainsControl(s) == Places(s, {"newline"}) # {}

ValidateSubject(s) ==
  TrimSpace(s) # <<>> /\ ~ContainsControl(s) /\ Len(s) <= MaxSubject

ValidateCustomHeader(h) == h.x /\ h.legal /\ ~ContainsControl(h.value)

(* A loop that appends some of the elements: those at the given places, in *)
(* their order.                                                            *)
Kept(s, places) ==
  [k \in 1..Cardinality(places) |->
     s[CHOOSE i \in places : Cardinality({j \in places : j < i}) = k - 1]]

(* Mutant: addresses that differ in case are two recipients. *)
DistinctMutant(raw) ==
  Kept(raw, {i \in 1..Len(raw) : \A j \in 1..(i - 1) : raw[j] # raw[i]})

(* The first of every address, whatever its case. *)
Distinct(raw) ==
  Kept(raw, {i \in 1..Len(raw) : \A j \in 1..(i - 1) : raw[j].box # raw[i].box})

(* ParseRecipients, <<>> for an error. *)
ParseRecipients(raw) ==
  IF Len(raw) <= MaxRecipients /\ \A i \in 1..Len(raw) : raw[i].valid
  THEN Distinct(raw) ELSE <<>>

(* FilterSuppressed (internal/store/suppressions.go). *)
FilterSuppressed(to, suppressed) ==
  Kept(to, {i \in 1..Len(to) : to[i].box \notin suppressed})

-----------------------------------------------------------------------------
(* buildMessage: what is stored of a request, or that it is refused.       *)

Refused == [ok |-> FALSE]

(* Mutant: the subject is checked before its tags are replaced. *)
SubjectAcceptedMutant(req, rendered) == ValidateSubject(req.subject)

(* It is the subject the reader will see that is checked. *)
SubjectAccepted(req, rendered) == ValidateSubject(rendered)

BuildMessage(req, suppressed) ==
  LET allowed == FilterSuppressed(ParseRecipients(req.to), suppressed)
      subject == Render(req.subject, req.variables, FALSE)
      html    == Render(req.html, req.variables, TRUE)
      text    == Render(req.text, req.variables, FALSE)
  IN IF /\ req.from.valid
        /\ allowed # <<>>
        /\ subject.ok /\ html.ok /\ text.ok
        /\ SubjectAccepted(req, subject.text)
        /\ TrimSpace(html.text) # <<>> \/ TrimSpace(text.text) # <<>>
        /\ \A a \in req.replyTo : a.valid
        /\ \A h \in req.headers : ValidateCustomHeader(h)
        /\ \A t \in req.tags : ~ContainsControl(t)
     THEN [ok |-> TRUE, from |-> req.from, to |-> allowed, subject |-> subject.text,
           html |-> html.text, text |-> text.text, headers |-> req.headers]
     ELSE Refused

-----------------------------------------------------------------------------
(* internal/mail/build.go.                                                 *)

(* strings.Fields and strings.Join: one space where there was white space. *)
JoinFields(s) ==
  LET gap(i) == s[i] \in Blank /\ s[i + 1] \in Blank
      kept   == {i \in 1..Len(s) : ~(i < Len(s) /\ gap(i))}
      spaced == [i \in 1..Len(s) |-> IF s[i] \in Blank THEN " " ELSE s[i]]
  IN TrimSpace(Kept(spaced, kept))

(* The loop over the characters of the HTML. *)
Strip(html) ==
  LET Loop[n \in 0..Len(html)] ==
        IF n = 0 THEN [inTag |-> FALSE, out |-> <<>>]
        ELSE LET st == Loop[n - 1] IN
             CASE html[n] = "<" -> [st EXCEPT !.inTag = TRUE]
               [] html[n] = ">" -> [inTag |-> FALSE, out |-> Append(st.out, " ")]
               [] OTHER -> IF st.inTag THEN st
                           ELSE [st EXCEPT !.out = Append(st.out, html[n])]
  IN Loop[Len(html)]

PlainTextFrom(html) == JoinFields(Strip(html).out)

(* Mutant: the text is always made from the HTML. *)
TextPartMutant(msg) == PlainTextFrom(msg.html)

TextPart(msg) == IF TrimSpace(msg.text) = <<>> THEN PlainTextFrom(msg.html) ELSE msg.text

(* What Worker.sign passes on of a stored message. No Reply-To is stored.  *)
Envelope(msg) ==
  [from |-> msg.from, to |-> msg.to, replyTo |-> {}, subject |-> msg.subject,
   html |-> msg.html, text |-> msg.text, headers |-> msg.headers]

(* The header lines write refuses none of; Message-ID, Date and the link   *)
(* are made by the program and hold no control.                            *)
HeadersClean(e) ==
  /\ e.from.valid
  /\ \A i \in 1..Len(e.to) : e.to[i].valid
  /\ \A a \in e.replyTo : a.valid
  /\ \A h \in e.headers : ValidateCustomHeader(h)

Build(e) ==
  IF ValidateSubject(e.subject) /\ e.to # <<>> /\ HeadersClean(e)
  THEN [ok |-> TRUE, from |-> e.from, to |-> e.to, replyTo |-> e.replyTo,
        subject |-> e.subject, headers |-> e.headers, text |-> TextPart(e),
        html |-> IF TrimSpace(e.html) = <<>> THEN <<>> ELSE e.html]
  ELSE Refused
=============================================================================
