---------------------------- MODULE TemplateRender ----------------------------
(***************************************************************************)
(* Merge tags: what template.Render makes of a template and what           *)
(* template.Tags says it needs (internal/template/render.go). A text is a  *)
(* sequence of characters, each a string.                                  *)
(***************************************************************************)
EXTENDS Naturals, Sequences, FiniteSetsExt, SequencesExt

CONSTANTS
  Chars,          \* the characters a text may hold
  MaxTemplate,    \* MaxTemplateBytes
  MaxOutput,      \* MaxOutputBytes
  MaxVariables,
  MaxNameLen,     \* MaxVariableNameLen
  MaxTags

ASSUME TemplateAssumption ==
  /\ {MaxTemplate, MaxOutput, MaxTags} \subseteq Nat
  /\ {MaxVariables, MaxNameLen} \subseteq Nat \ {0}
  /\ {"a", "m", "p", "l", "t", "g", "&", ";"} \subseteq Chars   \* what Escape writes

NameChars == {"a", "b"}                \* letters, digits and the underscore
Blank     == {" ", "tab", "newline"}   \* what unicode.IsSpace says of the others

-----------------------------------------------------------------------------
(* Strings.                                                                *)

Places(s, chars) == {i \in 1..Len(s) : s[i] \in chars}

(* strings.TrimSpace. *)
TrimSpace(s) ==
  LET ink == 1..Len(s) \ Places(s, Blank)
  IN IF ink = {} THEN <<>> ELSE SubSeq(s, Min(ink), Max(ink))

(* strings.Index of a character twice in a row: the first place, 0 if none. *)
IndexPair(s, c) ==
  LET found == {i \in Places(s, {c}) : i + 1 \in Places(s, {c})}
  IN IF found = {} THEN 0 ELSE Min(found)

(* Mutant: nothing is escaped. *)
EscapeMutant(s) == s

(* html.EscapeString. *)
Escape(s) ==
  FlattenSeq([i \in 1..Len(s) |->
    CASE s[i] = "<" -> <<"&", "l", "t", ";">>
      [] s[i] = ">" -> <<"&", "g", "t", ";">>
      [] s[i] = "&" -> <<"&", "a", "m", "p", ";">>
      [] OTHER      -> <<s[i]>>])

(* validateName. *)
ValidName(n) ==
  n # <<>> /\ Len(n) <= MaxNameLen /\ Places(n, NameChars) = 1..Len(n)

-----------------------------------------------------------------------------
(* Both loops look for the next tag in what is left of the template.       *)

(* Mutant: "{{" without "}}" is text. *)
TagMutant(rest) ==
  LET open    == IndexPair(rest, "{")
      from    == SubSeq(rest, open, Len(rest))
      closing == IndexPair(from, "}")
  IN IF open = 0 \/ closing = 0 THEN [kind |-> "none"]
     ELSE [kind   |-> "tag",
           before |-> SubSeq(rest, 1, open - 1),
           name   |-> TrimSpace(SubSeq(from, 3, closing - 1)),
           after  |-> SubSeq(from, closing + 2, Len(from))]

Tag(rest) ==
  LET open    == IndexPair(rest, "{")
      from    == SubSeq(rest, open, Len(rest))
      closing == IndexPair(from, "}")
  IN CASE open = 0                  -> [kind |-> "none"]
       [] open # 0 /\ closing = 0   -> [kind |-> "unclosed"]
       [] OTHER -> [kind   |-> "tag",
                    before |-> SubSeq(rest, 1, open - 1),
                    name   |-> TrimSpace(SubSeq(from, 3, closing - 1)),
                    after  |-> SubSeq(from, closing + 2, Len(from))]

Failed(why) == [ok |-> FALSE, why |-> why, text |-> <<>>]
Done(text)  == IF Len(text) > MaxOutput THEN Failed("output")
               ELSE [ok |-> TRUE, why |-> "none", text |-> text]

(* How far Render is: what is left, what is written, the tags replaced. *)
Progress == [rest : Seq(Chars), out : Seq(Chars), tags : 0..MaxTags]

(* Mutant: the value is put back in front of what is still to be scanned. *)
ScanMutant(tmpl, variables, escape) ==
  LET Loop[s \in Progress] ==
        LET t == Tag(s.rest) IN
        CASE t.kind = "none"     -> Done(s.out \o s.rest)
          [] t.kind = "unclosed" -> Failed("unclosed")
          [] OTHER ->
               CASE ~ValidName(t.name)              -> Failed("name")
                 [] t.name \notin DOMAIN variables  -> Failed("unknown")
                 [] s.tags + 1 > MaxTags            -> Failed("tags")
                 [] OTHER ->
                      Loop[[rest |-> (IF escape THEN Escape(variables[t.name])
                                                ELSE variables[t.name]) \o t.after,
                            out  |-> s.out \o t.before,
                            tags |-> s.tags + 1]]
  IN Loop[[rest |-> tmpl, out |-> <<>>, tags |-> 0]]

(* The loop of Render. *)
Scan(tmpl, variables, escape) ==
  LET Loop[s \in Progress] ==
        LET t == Tag(s.rest) IN
        CASE t.kind = "none"     -> Done(s.out \o s.rest)
          [] t.kind = "unclosed" -> Failed("unclosed")
          [] OTHER ->
               IF ~ValidName(t.name) THEN Failed("name")
               ELSE IF t.name \notin DOMAIN variables THEN Failed("unknown")
               ELSE LET value == IF escape THEN Escape(variables[t.name])
                                           ELSE variables[t.name]
                        sofar == s.out \o t.before \o value
                    IN CASE s.tags + 1 > MaxTags      -> Failed("tags")
                         [] s.tags < MaxTags /\ Len(sofar) > MaxOutput -> Failed("output")
                         [] OTHER -> Loop[[rest |-> t.after, out |-> sofar,
                                           tags |-> s.tags + 1]]
  IN Loop[[rest |-> tmpl, out |-> <<>>, tags |-> 0]]

Render(tmpl, variables, escape) ==
  CASE Len(tmpl) > MaxTemplate -> Failed("template")
    [] Len(tmpl) <= MaxTemplate /\ Cardinality(DOMAIN variables) > MaxVariables ->
         Failed("variables")
    [] OTHER -> IF \E n \in DOMAIN variables : ~ValidName(n) THEN Failed("name")
                ELSE Scan(tmpl, variables, escape)

(* The loop of Tags; it counts the names, Render counts the tags. *)
ScanNames(tmpl) ==
  LET Loop[s \in [rest : Seq(Chars), names : SUBSET Seq(Chars)]] ==
        LET t == Tag(s.rest) IN
        CASE t.kind = "none"     -> [ok |-> TRUE, names |-> s.names]
          [] t.kind = "unclosed" -> [ok |-> FALSE, names |-> {}]
          [] OTHER ->
               IF ~ValidName(t.name) \/ Cardinality(s.names \cup {t.name}) > MaxTags
               THEN [ok |-> FALSE, names |-> {}]
               ELSE Loop[[rest |-> t.after, names |-> s.names \cup {t.name}]]
  IN Loop[[rest |-> tmpl, names |-> {}]]

(* Mutant: Tags scans a template of any length. *)
TagsMutant(tmpl) == ScanNames(tmpl)

Tags(tmpl) ==
  IF Len(tmpl) > MaxTemplate THEN [ok |-> FALSE, names |-> {}]
  ELSE ScanNames(tmpl)
=============================================================================
