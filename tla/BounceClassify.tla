---------------------------- MODULE BounceClassify ----------------------------
(***************************************************************************)
(* Reading a permanent refusal: bounce.Classify decides from the text      *)
(* whether the worker suppresses the recipients (internal/bounce/          *)
(* classify.go, Worker.suppressIfAddressIsBad in internal/worker/          *)
(* worker.go, the texts of Engine.Send in internal/delivery/engine.go).    *)
(*                                                                         *)
(* A text is a sequence of words. A word is one run of numbers joined by   *)
(* dots ("550", "5.1.1", an IPv4 address), <<>> for a word without digits; *)
(* it is bare when nothing but the run stands between two separators of    *)
(* findReplyCode. Numbers carry no leading zeros. Whether the text holds a *)
(* complaint phrase is one bit.                                            *)
(***************************************************************************)
EXTENDS Naturals, Sequences, FiniteSetsExt

CONSTANT ReportCap      \* MaxReportBytes, in words

ASSUME ReportAssumption == ReportCap \in Nat

Kinds == {"unknown", "soft", "hard", "complaint"}

-----------------------------------------------------------------------------
(* The tables and the parser.                                              *)

hardStatus ==
  {<<5,1,1>>, <<5,1,2>>, <<5,1,3>>, <<5,1,6>>, <<5,1,10>>, <<5,2,1>>, <<5,4,4>>,
   <<5,5,4>>, <<5,7,27>>}

softStatus ==
  {<<4,2,2>>, <<4,2,1>>, <<4,3,2>>, <<4,4,1>>, <<4,4,2>>, <<4,5,3>>, <<4,7,0>>,
   <<4,7,1>>, <<4,7,28>>, <<5,2,2>>}

Suppresses(k) == k \in {"hard", "complaint"}

(* The part of a text that is parsed. *)
Truncated(text) == SubSeq(text, 1, Min({Len(text), ReportCap}))

(* The first digit of a number of at most three. *)
LeadDigit(n) == IF n < 10 THEN n ELSE IF n < 100 THEN n \div 10 ELSE n \div 100

(* parseStatus: three numbers of at most three digits from the k-th on. *)
ParsesStatus(g, k) == k + 2 <= Len(g) /\ \A j \in k..(k + 2) : g[j] <= 999

(* Where in a word findEnhancedStatus may start. *)
StatusStarts(g) ==
  {k \in 1..Len(g) : ParsesStatus(g, k) /\ LeadDigit(g[k]) \in {4, 5}}

(* The leftmost status of a text, <<>> for none. *)
FindEnhancedStatus(text) ==
  LET found == {i \in 1..Len(text) : StatusStarts(text[i].groups) # {}}
  IN IF found = {} THEN <<>>
     ELSE LET g == text[Min(found)].groups
              k == Min(StatusStarts(g))
          IN SubSeq(g, k, k + 2)

(* A field that is a reply code. *)
IsReplyCode(w) == w.bare /\ Len(w.groups) = 1 /\ w.groups[1] \in 200..599

(* The first field of a text that is a reply code, 0 for none. *)
FindReplyCode(text) ==
  LET found == {i \in 1..Len(text) : IsReplyCode(text[i])}
  IN IF found = {} THEN 0 ELSE text[Min(found)].groups[1]

(* Mutant: every reply code of an error is read as permanent. *)
CodeKindMutant(code) ==
  CASE code >= 400 -> "hard"
    [] OTHER       -> "unknown"

(* What a reply code means when there is no enhanced status. *)
CodeKind(code) ==
  CASE code >= 500                -> "hard"
    [] code >= 400 /\ code < 500  -> "soft"
    [] OTHER                      -> "unknown"

(* Mutant: the class decides before the table of temporary codes. *)
StatusKindMutant(status) ==
  CASE status \in hardStatus \/ LeadDigit(status[1]) = 5 -> "hard"
    [] OTHER                                             -> "soft"

(* What an enhanced status means: the tables first, then its class. *)
StatusKind(status) ==
  CASE status \in hardStatus -> "hard"
    [] status \in softStatus -> "soft"
    [] OTHER                 -> IF LeadDigit(status[1]) = 5 THEN "hard" ELSE "soft"

Classify(text, reported) ==
  LET read == Truncated(text) IN
  CASE reported                             -> "complaint"
    [] ~reported /\ FindEnhancedStatus(read) # <<>> ->
         StatusKind(FindEnhancedStatus(read))
    [] OTHER                                -> CodeKind(FindReplyCode(read))

-----------------------------------------------------------------------------
(* The engine's answer.                                                    *)

(* Mutant: an answer of 5xx is a refusal too. *)
EngineResultMutant(code) ==
  CASE code \in 200..299 -> "Sent"
    [] code = 429        -> "Temporary"
    [] OTHER             -> "Permanent"

(* Engine.Send's reading of the HTTP status of an answer. *)
EngineResult(code) ==
  CASE code \in 200..299         -> "Sent"
    [] code = 429 \/ code >= 500 -> "Temporary"
    [] OTHER                     -> "Permanent"
=============================================================================
