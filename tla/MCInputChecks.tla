---------------------------- MODULE MCInputChecks ----------------------------
(***************************************************************************)
(* TLC instance of InputChecks. Bounces: reply codes of every class, in    *)
(* and out of a field of their own; statuses of both tables and of         *)
(* neither; an IPv4 address; dotted numbers too long to be a status.       *)
(* Templates: whole tags, halves of tags, and what may stand in one.       *)
(* Values: none, a name, a tag, markup, a control character. Webhooks:     *)
(* the first and last address of special blocks and their neighbours.     *)
(***************************************************************************)
EXTENDS InputChecks

Field(g) == [groups |-> g, bare |-> TRUE]
Inside(g) == [groups |-> g, bare |-> FALSE]

MCWords ==
  {Plain, Field(<<250>>), Field(<<452>>), Field(<<550>>), Inside(<<550>>),
   Field(<<5,1,1>>), Field(<<4,2,2>>), Field(<<5,2,2>>), Inside(<<5,6,0>>),
   Field(<<4,9,99>>), Inside(<<10,5,9,100>>), Field(<<4,1,2026>>)}
MCCodes == {101, 200, 302, 400, 404, 429, 499, 500, 550, 599}

MCChars ==
  {"{", "}", " ", "tab", "newline", ".", "<", ">", "&", ";", "a", "b", "g", "l", "m", "p",
   "t", "mark"}
TagA == <<"{", "{", "a", "}", "}">>
MCPieces ==
  {TagA, <<"{", "{">>, <<"}", "}">>, <<"{">>, <<"}">>, <<"a">>, <<" ">>, <<".">>}
MCVarValues == {<<>>, <<"a">>, TagA, <<"<">>, <<">", "newline">>}

MCContentPieces == {TagA, <<"<">>, <<">">>, <<"b">>, <<"newline">>}
Upper(a) == [a EXCEPT !.upper = TRUE]
Y == [OK EXCEPT !.box = "y"]
MCToLists ==
  {<<>>, <<Upper(OK), Y, OK>>, <<[OK EXCEPT !.valid = FALSE]>>, <<OK, Y, OK, Y>>}
MCHeaderSets ==
  {{[x |-> TRUE, legal |-> TRUE, value |-> <<"a">>]},
   {[x |-> FALSE, legal |-> TRUE, value |-> <<"a">>]},
   {[x |-> TRUE, legal |-> TRUE, value |-> <<"newline">>]}}

Outside ==
  {<<172,15,0,1>>, <<172,32,0,1>>, <<100,128,0,1>>, <<192,0,1,1>>, <<192,0,2,1>>,
   <<198,17,255,1>>, <<198,19,255,1>>, <<203,0,113,1>>}
MCAddrs ==
  Outside \cup {<<10,0,0,1>>, <<172,31,0,1>>, <<100,64,0,1>>, <<169,254,0,1>>,
                <<192,0,0,1>>, <<239,1,1,1>>}
At(a) == [scheme |-> TRUE, port |-> TRUE, named |-> FALSE, name |-> "", addr |-> a]
Named(n) == [At(<<0,0,0,0>>) EXCEPT !.named = TRUE, !.name = n]
MCURLs ==
  {At(a) : a \in MCAddrs} \cup {Named("localhost"), Named("hooks")}
    \cup {[Named("hooks") EXCEPT !.scheme = FALSE], [Named("hooks") EXCEPT !.port = FALSE]}
=============================================================================
