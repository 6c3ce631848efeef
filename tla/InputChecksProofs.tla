--------------------------- MODULE InputChecksProofs ---------------------------
(***************************************************************************)
(* Proofs about InputChecks, for any words, codes, mailboxes, lists of     *)
(* recipients, templates, values, URLs and resolver answers, and any       *)
(* bounds. What a loop over a text computes is defined by recursion; the   *)
(* first section says that such a function exists, and what holds of it is *)
(* proved by induction over the text.                                      *)
(***************************************************************************)
EXTENDS InputChecks, FiniteSetTheorems, WellFoundedInduction, TLAPS

-----------------------------------------------------------------------------
(* Induction and recursion.                                                *)

(* The least of some numbers. *)
LEMMA LeastExists ==
  ASSUME NEW S \in SUBSET Nat, S # {}
  PROVE  Min(S) \in S /\ \A y \in S : Min(S) <= y
<1> DEFINE R == {p \in Nat \X Nat : p[1] < p[2]}
<1>1. IsWellFoundedOn(R, Nat)
  BY NatLessThanWellFounded DEF OpToRel
<1>2. \E t \in S : \A u \in S : ~(<<u, t>> \in R)
  <2> HIDE DEF R
  <2> QED
    BY <1>1, WFMin
<1>3. PICK t \in S : \A u \in S : ~(<<u, t>> \in R)
  BY <1>2
<1>4. ASSUME NEW u \in S PROVE t =< u
  <2>1. ~(<<u, t>> \in R) /\ u \in Nat /\ t \in Nat
    BY <1>3
  <2> QED
    BY <2>1
<1> QED
  BY <1>4 DEF Min

(* Induction over the naturals, for a set of them. *)
LEMMA Induction ==
  ASSUME NEW P \in SUBSET Nat, 0 \in P, \A n \in P : n + 1 \in P
  PROVE  P = Nat
<1> DEFINE Q == Nat \ P
<1>1. ASSUME Q # {} PROVE FALSE
  <2> DEFINE q == Min(Q)
  <2>1. q \in Q /\ \A y \in Q : q <= y
    <3>1. Q \in SUBSET Nat
      OBVIOUS
    <3> HIDE DEF Q
    <3> QED
      BY <1>1, <3>1, LeastExists
  <2> HIDE DEF q
  <2>2. q \in Nat /\ q \notin P /\ q # 0
    BY <2>1
  <2>3. q - 1 \in Nat /\ ~(q <= q - 1) /\ (q - 1) + 1 = q
    BY <2>2
  <2>4. q - 1 \in P
    BY <2>1, <2>3
  <2> QED
    BY <2>2, <2>3, <2>4
<1> QED
  BY <1>1

(* B gives the value at x of a function from D to V from its values at     *)
(* arguments of smaller measure.                                           *)
Descends(D, V, m, B) ==
  /\ V # {}
  /\ m \in [D -> Nat]
  /\ B \in [D \X [D -> V] -> V]
  /\ \A x \in D : \A f, g \in [D -> V] :
       (\A y \in D : m[y] < m[x] => f[y] = g[y]) => B[<<x, f>>] = B[<<x, g>>]

HasFunction(D, V, B) == \E f \in [D -> V] : \A x \in D : f[x] = B[<<x, f>>]

(* Then there is such a function. *)
LEMMA Recursion ==
  ASSUME NEW D, NEW V, NEW m, NEW B, Descends(D, V, m, B)
  PROVE  HasFunction(D, V, B)
<1> USE DEF Descends
<1> DEFINE Body(f, x) == B[<<x, f>>]
           Good(f, n) == \A x \in D : m[x] < n => f[x] = Body(f, x)
<1>m. \A x \in D : m[x] \in Nat
  OBVIOUS
<1>v. \A f \in [D -> V], x \in D : Body(f, x) \in V
  OBVIOUS
<1>b. ASSUME NEW f \in [D -> V], NEW g \in [D -> V], NEW x \in D,
             \A y \in D : m[y] < m[x] => f[y] = g[y]
      PROVE  Body(f, x) = Body(g, x)
  BY <1>b
<1> HIDE DEF Body
<1>1. \A n \in Nat : \E f \in [D -> V] : Good(f, n)
  <2> DEFINE P == {n \in Nat : \E f \in [D -> V] : Good(f, n)}
  <2>1. 0 \in P
    <3>0. PICK none \in V : TRUE
      OBVIOUS
    <3>1. [x \in D |-> none] \in [D -> V]
      OBVIOUS
    <3>2. Good([x \in D |-> none], 0)
      BY <1>m
    <3> QED
      BY <3>1, <3>2
  <2>2. ASSUME NEW n \in P PROVE n + 1 \in P
    <3>1. PICK f \in [D -> V] : Good(f, n)
      BY <2>2
    <3> DEFINE g == [x \in D |-> Body(f, x)]
    <3>2. g \in [D -> V] /\ \A x \in D : g[x] = Body(f, x)
      BY <1>v
    <3> HIDE DEF g
    <3>3. ASSUME NEW x \in D, m[x] < n + 1 PROVE g[x] = Body(g, x)
      <4>1. ASSUME NEW y \in D, m[y] < m[x] PROVE f[y] = g[y]
        <5>1. m[y] < n
          BY <1>m, <3>3, <4>1
        <5> QED
          BY <3>1, <3>2, <5>1
      <4>2. Body(f, x) = Body(g, x)
        BY <1>b, <3>2, <4>1
      <4> QED
        BY <3>2, <4>2
    <3> QED
      BY <3>2, <3>3
  <2>3. P \in SUBSET Nat
    OBVIOUS
  <2>4. P = Nat
    <3> HIDE DEF P
    <3> QED
      BY <2>1, <2>2, <2>3, Induction
  <2> QED
    BY <2>4
<1>2. \A n \in Nat : \A f, g \in [D -> V] :
        Good(f, n) /\ Good(g, n) => \A x \in D : m[x] < n => f[x] = g[x]
  <2> DEFINE Same(n) == \A f, g \in [D -> V] :
                   Good(f, n) /\ Good(g, n) => \A x \in D : m[x] < n => f[x] = g[x]
             P == {n \in Nat : Same(n)}
  <2>1. 0 \in P
    BY <1>m
  <2>2. ASSUME NEW n \in P PROVE n + 1 \in P
    <3>1. ASSUME NEW f \in [D -> V], NEW g \in [D -> V], Good(f, n + 1), Good(g, n + 1),
                 NEW x \in D, m[x] < n + 1
          PROVE  f[x] = g[x]
      <4>0. \A y \in D : m[y] < n => m[y] < n + 1
        BY <1>m
      <4>1. Good(f, n) /\ Good(g, n)
        BY <3>1, <4>0
      <4>2. ASSUME NEW y \in D, m[y] < m[x] PROVE f[y] = g[y]
        <5>1. m[y] < n
          BY <1>m, <3>1, <4>2
        <5>2. Same(n)
          OBVIOUS
        <5> QED
          BY <4>1, <5>1, <5>2
      <4>3. Body(f, x) = Body(g, x)
        BY <1>b, <4>2
      <4> QED
        BY <3>1, <4>3
    <3>2. Same(n + 1)
      <4> HIDE DEF Good
      <4> QED
        BY <3>1
    <3> QED
      BY <3>2
  <2>3. P \in SUBSET Nat
    OBVIOUS
  <2>4. P = Nat
    <3> HIDE DEF P
    <3> QED
      BY <2>1, <2>2, <2>3, Induction
  <2> QED
    BY <2>4
<1> DEFINE at(n) == CHOOSE f \in [D -> V] : Good(f, n)
           F == [x \in D |-> at(m[x] + 1)[x]]
<1>3. ASSUME NEW n \in Nat PROVE at(n) \in [D -> V] /\ Good(at(n), n)
  <2>1. \E f \in [D -> V] : Good(f, n)
    BY <1>1
  <2> HIDE DEF Good
  <2> QED
    BY <2>1, Zenon
<1> HIDE DEF at
<1>4. F \in [D -> V] /\ \A x \in D : F[x] = at(m[x] + 1)[x]
  <2>1. \A x \in D : at(m[x] + 1)[x] \in V
    BY <1>3, <1>m
  <2> QED
    BY <2>1
<1> HIDE DEF F
<1>5. ASSUME NEW x \in D PROVE F[x] = Body(F, x)
  <2> DEFINE h == at(m[x] + 1)
  <2>1. h \in [D -> V] /\ Good(h, m[x] + 1) /\ F[x] = h[x]
    BY <1>3, <1>4, <1>m
  <2> HIDE DEF h
  <2>2. h[x] = Body(h, x)
    BY <1>m, <2>1
  <2>3. ASSUME NEW p \in D, m[p] < m[x] PROVE h[p] = F[p]
    <3> DEFINE k == at(m[p] + 1)
    <3>1. m[p] < m[x] /\ m[p] \in Nat /\ m[x] \in Nat
      BY <1>m, <2>3
    <3>2. k \in [D -> V] /\ Good(k, m[p] + 1) /\ F[p] = k[p]
      BY <1>3, <1>4, <3>1
    <3> HIDE DEF k
    <3>3. Good(h, m[p] + 1)
      <4>1. \A y \in D : m[y] < m[p] + 1 => m[y] < m[x] + 1
        BY <1>m, <3>1
      <4> QED
        BY <2>1, <4>1
    <3>4. m[p] + 1 \in Nat /\ m[p] < m[p] + 1
      BY <3>1
    <3>5. h[p] = k[p]
      <4> HIDE DEF Good
      <4> QED
        BY <1>2, <2>1, <3>1, <3>2, <3>3, <3>4
    <3> QED
      BY <3>2, <3>5
  <2>4. Body(h, x) = Body(F, x)
    BY <1>b, <1>4, <2>1, <2>3
  <2> QED
    BY <2>1, <2>2, <2>4
<1> QED
  BY <1>4, <1>5 DEF Body, HasFunction

-----------------------------------------------------------------------------
(* Webhooks. The octets IsBlocked looks at are the special-purpose blocks  *)
(* but five.                                                               *)

(* An address is blocked exactly when it lies in a block that is refused,  *)
(* and then in none of those that are let through.                         *)
LEMMA BlockedIsInside ==
  ASSUME NEW a \in Address
  PROVE  /\ IsBlocked(a) <=> In(a, InsideBlocks)
         /\ IsBlocked(a) => ~In(a, LetThrough)
<1>0. a[1] \in 0..255 /\ a[2] \in 0..255 /\ a[3] \in 0..255
  BY DEF Address, Octet
<1>x. PICK x \in 0..255 : a[1] = x
  BY <1>0
<1>y. PICK y \in 0..255 : a[2] = y
  BY <1>0
<1>z. PICK z \in 0..255 : a[3] = z
  BY <1>0
<1>p. /\ Prefix(a, 4) = x \div 16
      /\ Prefix(a, 8) = x
      /\ Prefix(a, 10) = 4 * x + y \div 64
      /\ Prefix(a, 12) = 16 * x + y \div 16
      /\ Prefix(a, 15) = 128 * x + y \div 2
      /\ Prefix(a, 16) = 256 * x + y
      /\ Prefix(a, 24) = 65536 * x + 256 * y + z
  <2> DEFINE n == 65536 * x + 256 * y + z
  <2>1. /\ Prefix(a, 4) = n \div 1048576
        /\ Prefix(a, 8) = n \div 65536
        /\ Prefix(a, 10) = n \div 16384
        /\ Prefix(a, 12) = n \div 4096
        /\ Prefix(a, 15) = n \div 512
        /\ Prefix(a, 16) = n \div 256
        /\ Prefix(a, 24) = n \div 1
    <3>1. n = 65536 * a[1] + 256 * a[2] + a[3]
      BY <1>x, <1>y, <1>z, SMT
    <3> HIDE DEF n
    <3> QED
      BY <3>1, SMT DEF Prefix
  <2>2. /\ n \div 1048576 = x \div 16
        /\ n \div 65536 = x
        /\ n \div 16384 = 4 * x + y \div 64
        /\ n \div 4096 = 16 * x + y \div 16
        /\ n \div 512 = 128 * x + y \div 2
        /\ n \div 256 = 256 * x + y
        /\ n \div 1 = 65536 * x + 256 * y + z
    BY SMT
  <2> HIDE DEF n
  <2> QED
    BY <2>1, <2>2, SMT
<1>b. /\ Prefix(<<0,0,0,8>>, 8) = 0
      /\ Prefix(<<10,0,0,8>>, 8) = 10
      /\ Prefix(<<100,64,0,10>>, 10) = 401
      /\ Prefix(<<127,0,0,8>>, 8) = 127
      /\ Prefix(<<169,254,0,16>>, 16) = 43518
      /\ Prefix(<<172,16,0,12>>, 12) = 2753
      /\ Prefix(<<192,0,0,24>>, 24) = 12582912
      /\ Prefix(<<192,168,0,16>>, 16) = 49320
      /\ Prefix(<<224,0,0,4>>, 4) = 14
      /\ Prefix(<<240,0,0,4>>, 4) = 15
  BY SMT DEF Prefix
<1>c. /\ Prefix(<<192,0,2,24>>, 24) = 12582914
      /\ Prefix(<<198,51,100,24>>, 24) = 12989284
      /\ Prefix(<<203,0,113,24>>, 24) = 13303921
      /\ Prefix(<<198,18,0,15>>, 15) = 25353
      /\ Prefix(<<192,88,99,24>>, 24) = 12605539
  BY SMT DEF Prefix
<1>t. In(a, LetThrough) =>
        \/ Prefix(a, 24) = Prefix(<<192,0,2,24>>, 24)
        \/ Prefix(a, 24) = Prefix(<<198,51,100,24>>, 24)
        \/ Prefix(a, 24) = Prefix(<<203,0,113,24>>, 24)
        \/ Prefix(a, 15) = Prefix(<<198,18,0,15>>, 15)
        \/ Prefix(a, 24) = Prefix(<<192,88,99,24>>, 24)
  BY SMT DEF In, LetThrough
<1>u. In(a, LetThrough) =>
        \/ x = 192 /\ y = 0 /\ z = 2
        \/ x = 198 /\ y = 51
        \/ x = 203
        \/ x = 198 /\ y \in 18..19
        \/ x = 192 /\ y = 88
  BY <1>p, <1>c, <1>t, SMT
<1>r. In(a, InsideBlocks) <=>
        \/ Prefix(a, 8) = Prefix(<<0,0,0,8>>, 8)
        \/ Prefix(a, 8) = Prefix(<<10,0,0,8>>, 8)
        \/ Prefix(a, 10) = Prefix(<<100,64,0,10>>, 10)
        \/ Prefix(a, 8) = Prefix(<<127,0,0,8>>, 8)
        \/ Prefix(a, 16) = Prefix(<<169,254,0,16>>, 16)
        \/ Prefix(a, 12) = Prefix(<<172,16,0,12>>, 12)
        \/ Prefix(a, 24) = Prefix(<<192,0,0,24>>, 24)
        \/ Prefix(a, 16) = Prefix(<<192,168,0,16>>, 16)
        \/ Prefix(a, 4) = Prefix(<<224,0,0,4>>, 4)
        \/ Prefix(a, 4) = Prefix(<<240,0,0,4>>, 4)
  BY SMT DEF In, InsideBlocks
<1>q. In(a, InsideBlocks) <=>
        \/ x = 0
        \/ x = 10
        \/ x = 100 /\ y >= 64 /\ y <= 127
        \/ x = 127
        \/ x = 169 /\ y = 254
        \/ x = 172 /\ y >= 16 /\ y <= 31
        \/ x = 192 /\ y = 0 /\ z = 0
        \/ x = 192 /\ y = 168
        \/ x \in 224..239
        \/ x >= 240
  BY <1>p, <1>b, <1>r, SMT
<1>i. IsBlocked(a) <=> In(a, InsideBlocks)
  BY <1>x, <1>y, <1>z, <1>q, SMT DEF IsBlocked
<1>o. IsBlocked(a) => ~In(a, LetThrough)
  BY <1>x, <1>y, <1>z, <1>u, SMT DEF IsBlocked
<1> QED
  BY <1>i, <1>o

(* A step belongs to the task it is about, and keeps it. *)
LEMMA StepsOfATask ==
  ASSUME [Next]_vars
  PROVE  /\ task' = task
         /\ \/ task = "bounce" /\ \/ EngineRefuses
                                  \/ \E w \in Words : DestinationSays(w)
                                  \/ SuppressIfAddressIsBad
            \/ task = "template"
            \/ task = "mail" /\ (EditCall \/ HandleSend \/ WorkerBuilds)
            \/ task = "settings" /\ \/ \E name \in Names : SetVariable(name)
                                    \/ Boot
                                    \/ RunServe
                                    \/ RunWorker
            \/ task = "webhook" /\ \/ SendWebhook
                                   \/ Dial
                                   \/ \E u \in URLs : Redirect(u)
                                   \/ Respond
            \/ UNCHANGED vars
BY DEF Next, vars, EngineRefuses, DestinationSays, SuppressIfAddressIsBad, WriteTemplate,
       EditCall, Edit, HandleSend, WorkerBuilds, SetVariable, Boot, RunServe, RunWorker,
       SendWebhook, Dial, Redirect, Respond

(* Only allowed addresses are connected to; a request is made only while   *)
(* one may be.                                                             *)
WebhookInv ==
  task = "webhook" =>
    /\ input \in [at : URLs, made : Nat]
    /\ result \subseteq Address
    /\ \A a \in result : ~IsBlocked(a)
    /\ stage \in {"writing", "dialling"} => input.made < MaxRedirects
    /\ input.made <= MaxRedirects
    /\ stage = "connected" => input.made # 0
    /\ stage = "refused" /\ input.made = 0 /\ ~input.at.named
         /\ input.at.scheme /\ input.at.port => IsBlocked(input.at.addr)

(* Nothing is connected to at the start. *)
LEMMA InitWebhook == Init => WebhookInv
<1> SUFFICES ASSUME Init, task = "webhook" PROVE WebhookInv
  BY DEF WebhookInv
<1>1. PICK u \in URLs : input = [at |-> u, made |-> 0]
  BY DEF Init
<1>2. stage = "writing" /\ result = {}
  BY DEF Init
<1> QED
  BY <1>1, <1>2, GuardAssumption DEF WebhookInv

(* Every step keeps the guard. *)
LEMMA NextWebhook ==
  ASSUME WebhookInv, [Next]_vars
  PROVE  WebhookInv'
<1> SUFFICES ASSUME task' = "webhook" PROVE WebhookInv'
  BY DEF WebhookInv
<1>0. task = "webhook" /\ task' = "webhook"
  BY StepsOfATask
<1>1. /\ input \in [at : URLs, made : Nat]
      /\ result \subseteq Address
      /\ \A a \in result : ~IsBlocked(a)
      /\ stage \in {"writing", "dialling"} => input.made < MaxRedirects
      /\ input.made <= MaxRedirects
      /\ stage = "connected" => input.made # 0
      /\ stage = "refused" /\ input.made = 0 /\ ~input.at.named
           /\ input.at.scheme /\ input.at.port => IsBlocked(input.at.addr)
  BY <1>0 DEF WebhookInv
<1>2. input.at \in URLs /\ input.at.addr \in Address /\ input.made \in Nat
  <2>1. input.at \in URLs /\ input.made \in Nat
    BY <1>1
  <2> QED
    BY <2>1, InputAssumption DEF URL
<1>3. CASE SendWebhook
  <2>1. /\ stage = "writing" /\ input' = input /\ result' = result
        /\ \/ stage' = "dialling"
           \/ stage' = "refused" /\ ~ValidURL(input.at)
    BY <1>3 DEF SendWebhook
  <2> QED
    BY <1>1, <2>1 DEF WebhookInv, ValidURL
<1>4. CASE Dial
  <2>1. PICK answers \in (IF input.at.named THEN {<<a>> : a \in Addrs} \cup (Addrs \X Addrs)
                                            ELSE {<<input.at.addr>>}) :
          IF MayDial(answers)
          THEN /\ result' = result \cup {answers[1]}
               /\ input' = [input EXCEPT !.made = input.made + 1]
               /\ stage' = "connected"
          ELSE stage' = "refused" /\ UNCHANGED <<input, result>>
    BY <1>4 DEF Dial
  <2>2. answers[1] \in Address /\ 1 \in 1..Len(answers)
    <3>1. Addrs \subseteq Address
      BY InputAssumption
    <3> QED
      BY <1>2, <2>1, <3>1
  <2>3. stage = "dialling"
    BY <1>4 DEF Dial
  <2>4. CASE MayDial(answers)
    <3>1. ~IsBlocked(answers[1])
      BY <2>2, <2>4 DEF MayDial
    <3>2. /\ input' \in [at : URLs, made : Nat] /\ input'.made = input.made + 1
          /\ result' = result \cup {answers[1]} /\ stage' = "connected"
      BY <1>1, <2>1, <2>4
    <3> QED
      BY <1>1, <1>2, <2>2, <2>3, <3>1, <3>2, GuardAssumption DEF WebhookInv
  <2>5. CASE ~MayDial(answers)
    <3>1. stage' = "refused" /\ input' = input /\ result' = result
      BY <2>1, <2>5
    <3>2. ~input.at.named => IsBlocked(input.at.addr)
      <4> SUFFICES ASSUME ~input.at.named PROVE IsBlocked(input.at.addr)
        OBVIOUS
      <4>1. answers = <<input.at.addr>>
        BY <2>1
      <4>2. PICK i \in 1..Len(answers) : IsBlocked(answers[i])
        BY <2>5 DEF MayDial
      <4>3. i = 1
        BY <4>1, <4>2
      <4> QED
        BY <4>1, <4>2, <4>3
    <3> QED
      BY <1>1, <3>1, <3>2 DEF WebhookInv
  <2> QED
    BY <2>4, <2>5
<1>5. ASSUME NEW u \in URLs, Redirect(u) PROVE WebhookInv'
  <2>1. /\ stage = "connected" /\ result' = result
        /\ \/ /\ input.made < MaxRedirects /\ stage' = "dialling"
              /\ input' = [input EXCEPT !.at = u]
           \/ stage' = "refused" /\ input' = input
    BY <1>5 DEF Redirect, MayFollow
  <2>2. input' \in [at : URLs, made : Nat] /\ input'.made = input.made
    BY <1>1, <2>1
  <2> QED
    BY <1>1, <2>1, <2>2 DEF WebhookInv
<1>6. CASE Respond
  BY <1>1, <1>6 DEF Respond, WebhookInv
<1>7. CASE UNCHANGED vars
  BY <1>1, <1>7 DEF vars, WebhookInv
<1> QED
  BY <1>0, <1>3, <1>4, <1>5, <1>6, <1>7, StepsOfATask

(* A webhook reaches no special-purpose address but those of the five      *)
(* blocks let through, whatever the resolver answers from hop to hop, in a *)
(* bounded number of requests; and no other address is refused.            *)
THEOREM WebhooksDialNothingInside == Spec => []NothingInsideIsDialled
<1>1. ASSUME WebhookInv PROVE NothingInsideIsDialled
  <2> SUFFICES ASSUME task = "webhook" PROVE NothingInsideIsDialled
    BY DEF NothingInsideIsDialled
  <2>0. ASSUME NEW a PROVE In(a, SpecialPurpose) <=> In(a, InsideBlocks) \/ In(a, LetThrough)
    <3> HIDE DEF InsideBlocks, LetThrough, Prefix
    <3> QED
      BY DEF In, SpecialPurpose
  <2>1. input.at \in URLs /\ input.at.addr \in Address
    <3>1. input.at \in URLs
      BY <1>1 DEF WebhookInv
    <3> QED
      BY <3>1, InputAssumption DEF URL
  <2>2. \A a \in result : ~In(a, InsideBlocks)
    BY <1>1, BlockedIsInside DEF WebhookInv
  <2>3. IsBlocked(input.at.addr) =>
          In(input.at.addr, InsideBlocks) /\ ~In(input.at.addr, LetThrough)
    BY <2>1, BlockedIsInside
  <2> QED
    BY <1>1, <2>0, <2>2, <2>3 DEF WebhookInv, NothingInsideIsDialled
<1> QED
  BY <1>1, InitWebhook, NextWebhook, PTL DEF Spec

-----------------------------------------------------------------------------
(* Settings. Whatever runs was started with an environment Load had no     *)
(* complaint about.                                                        *)

SettingsInv ==
  task = "settings" =>
    /\ stage \notin {"writing", "refused"} => Problems(input.env) = {}
    /\ stage = "sending" => Read(input.env).send
    /\ AcceptedSettingsStart

(* What Load's silence says of a configuration. *)
LEMMA NoProblems ==
  ASSUME NEW e, Problems(e) = {}
  PROVE  LET c == Read(e) IN
         /\ c.send => c.max > 0 /\ c.key = 32
         /\ c.hosts => /\ c.mode \in {"testing", "enforce", "none"}
                       /\ c.age >= 86400 /\ c.age <= 31557600
<1> DEFINE c == Read(e)
<1>1. Validate(c) = {}
  BY DEF Problems
<1>3. c.key \in {0, 32}
  BY DEF Read
<1>m. c.max \in Int /\ c.age \in Int
  BY SMT DEF Read, EnvInt, Numbers
<1> HIDE DEF c
<1>4. /\ Problem("mode", c.hosts /\ c.mode \notin {"testing", "enforce", "none"}) = {}
      /\ Problem("age", c.hosts /\ (c.age < 86400 \/ c.age > 31557600)) = {}
      /\ c.send => NeededToSend(c) = {}
  BY <1>1, SMT DEF Validate
<1>5. c.send => ~(c.max <= 0) /\ c.key # 0
  BY <1>4, SMT DEF NeededToSend, Problem
<1>6. c.hosts => /\ c.mode \in {"testing", "enforce", "none"}
                 /\ c.age >= 86400 /\ c.age <= 31557600
  BY <1>m, <1>4, SMT DEF Problem
<1> QED
  BY <1>3, <1>m, <1>5, <1>6, SMT DEF c

(* Nothing runs at the start. *)
LEMMA InitSettings == Init => SettingsInv
BY DEF Init, SettingsInv, AcceptedSettingsStart

(* Every step keeps it so. *)
LEMMA NextSettings ==
  ASSUME SettingsInv, [Next]_vars
  PROVE  SettingsInv'
<1> SUFFICES ASSUME task' = "settings" PROVE SettingsInv'
  BY DEF SettingsInv
<1>0. task = "settings" /\ task' = "settings"
  BY StepsOfATask
<1>1. ASSUME NEW name \in Names, SetVariable(name) PROVE SettingsInv'
  BY <1>1 DEF SetVariable, SettingsInv, AcceptedSettingsStart
<1>2. CASE Boot
  BY <1>2 DEF Boot, SettingsInv, AcceptedSettingsStart
<1>3. CASE RunServe
  <2>1. /\ Problems(input.env) = {} /\ input' = input
        /\ stage' = IF ServeStarts(Read(input.env)) THEN "serving" ELSE "unserved"
    BY <1>0, <1>3 DEF RunServe, SettingsInv
  <2>2. /\ Read(input.env).key \in {0, 32} /\ Read(input.env).hash = input.env.hash
        /\ Read(input.env).db = input.env.db
        /\ Read(input.env).listen = "portless" => input.env.listen = "portless"
    BY DEF Read, EnvOr
  <2>3. stage' = "unserved" => \/ input.env.db = "sslmode=maybe"
                                \/ input.env.hash \notin {"unset", "argon2id"}
                                \/ input.env.listen = "portless"
    BY <2>1, <2>2 DEF ServeStarts, StoreOpens, KeeperOpens, Listens
  <2> QED
    BY <2>1, <2>3 DEF SettingsInv, AcceptedSettingsStart
<1>4. CASE RunWorker
  <2>1. /\ Problems(input.env) = {} /\ input' = input /\ Read(input.env).send
        /\ stage' = IF WorkerStarts(Read(input.env)) THEN "sending" ELSE "unsent"
    BY <1>0, <1>4 DEF RunWorker, SettingsInv
  <2>2. Read(input.env).db = input.env.db
    BY DEF Read
  <2>3. stage' = "unsent" => input.env.db = "sslmode=maybe"
    BY <2>1, <2>2, NoProblems DEF WorkerStarts, StoreOpens, KeeperOpens
  <2> QED
    BY <2>1, <2>3 DEF SettingsInv, AcceptedSettingsStart
<1>5. CASE UNCHANGED vars
  BY <1>5 DEF vars, SettingsInv, AcceptedSettingsStart
<1> QED
  BY <1>0, <1>1, <1>2, <1>3, <1>4, <1>5, StepsOfATask

(* Settings that Load accepts start a process, but for a malformed console *)
(* hash, listening address or database URL; what runs is bounded by a      *)
(* ceiling and publishes a policy receivers accept.                        *)
THEOREM AcceptedSettingsAreFit == Spec => []SettingsAreFit
<1>1. ASSUME SettingsInv PROVE SettingsAreFit
  <2> SUFFICES ASSUME task = "settings" PROVE SettingsAreFit
    BY DEF SettingsAreFit, AcceptedSettingsStart, RunningIsBounded
  <2>1. stage \in {"sending", "serving"} => Problems(input.env) = {}
    BY <1>1 DEF SettingsInv
  <2>2. RunningIsBounded
    BY <1>1, <2>1, NoProblems, SMT DEF RunningIsBounded, SettingsInv
  <2> QED
    BY <1>1, <2>2, SMT DEF SettingsAreFit, AcceptedSettingsStart, SettingsInv
<1> QED
  BY <1>1, InitSettings, NextSettings, PTL DEF Spec

-----------------------------------------------------------------------------
(* Recipients. What a loop keeps of a list.                                *)

(* The k-th smallest of finitely many places exists. *)
LEMMA KthPlace ==
  ASSUME NEW n \in Nat, NEW S \in SUBSET (1..n), NEW k \in 1..Cardinality(S)
  PROVE  \E i \in S : Cardinality({j \in S : j < i}) = k - 1
<1> DEFINE upto(i) == {j \in S : j <= i}
           below(i) == {j \in S : j < i}
           T == {i \in Nat : Cardinality(upto(i)) >= k}
           R == {p \in Nat \X Nat : p[1] < p[2]}
<1>n. \A j \in S : j \in Nat /\ 1 <= j /\ j <= n
  OBVIOUS
<1>f. IsFiniteSet(S) /\ Cardinality(S) \in Nat
  <2>1. IsFiniteSet(1..n)
    BY FS_Interval
  <2> QED
    BY <2>1, FS_Subset, FS_CardinalityType
<1>g. \A U \in SUBSET S : IsFiniteSet(U) /\ Cardinality(U) \in Nat
  BY <1>f, FS_Subset, FS_CardinalityType
<1>1. n \in T
  <2>1. upto(n) = S
    BY <1>n
  <2>2. Cardinality(S) >= k
    BY <1>f
  <2> QED
    BY <2>1, <2>2
<1>2. IsWellFoundedOn(R, Nat)
  BY NatLessThanWellFounded DEF OpToRel
<1>w. \E t \in T : \A u \in T : ~(<<u, t>> \in R)
  <2>1. T \subseteq Nat /\ T # {}
    BY <1>1
  <2> HIDE DEF T, R
  <2> QED
    BY <1>2, <2>1, WFMin
<1>3. PICK i \in T : \A u \in T : ~(u < i)
  BY <1>w
<1>4. i \in Nat /\ Cardinality(upto(i)) >= k
  BY <1>3
<1>5. i # 0
  <2>0. \A j \in S : ~(j <= 0)
    BY <1>n
  <2>1. upto(0) = {}
    BY <2>0
  <2>2. ~(Cardinality(upto(0)) >= k)
    BY <1>f, <2>1, FS_EmptySet
  <2> QED
    BY <1>4, <2>2
<1>6. ~(Cardinality(below(i)) >= k)
  <2>1. i - 1 \in Nat /\ i - 1 < i
    BY <1>4, <1>5
  <2>0. \A j \in S : j <= i - 1 <=> j < i
    BY <1>n, <1>4
  <2>2. upto(i - 1) = below(i)
    BY <2>0
  <2>3. i - 1 \notin T
    BY <1>3, <2>1
  <2> QED
    BY <2>1, <2>2, <2>3
<1>7. i \in S
  <2>1. CASE i \notin S
    <3>0. \A j \in S : j <= i <=> j < i
      BY <1>n, <1>4, <2>1
    <3>1. upto(i) = below(i)
      BY <3>0
    <3> QED
      BY <1>4, <1>6, <3>1
  <2> QED
    BY <2>1
<1>8. upto(i) = below(i) \cup {i} /\ i \notin below(i)
  <2>1. \A j \in S : j <= i <=> (j < i \/ j = i)
    BY <1>n, <1>4
  <2>2. i <= i /\ ~(i < i)
    BY <1>4
  <2> QED
    BY <1>7, <2>1, <2>2
<1>9. below(i) \in SUBSET S
  OBVIOUS
<1> HIDE DEF upto, below
<1>10. Cardinality(upto(i)) = Cardinality(below(i)) + 1
  BY <1>8, <1>g, <1>9, FS_AddElement
<1>11. Cardinality(below(i)) = k - 1
  BY <1>4, <1>6, <1>10, <1>f, <1>g, <1>9
<1> QED
  BY <1>7, <1>11 DEF below

(* Two places with as many before them are one. *)
LEMMA PlaceIsUnique ==
  ASSUME NEW n \in Nat, NEW S \in SUBSET (1..n), NEW i \in S, NEW k \in S,
         Cardinality({j \in S : j < i}) = Cardinality({j \in S : j < k})
  PROVE  i = k
<1> DEFINE below(x) == {j \in S : j < x}
<1>n. \A j \in S : j \in Nat
  OBVIOUS
<1>f. \A U \in SUBSET S : IsFiniteSet(U) /\ Cardinality(U) \in Nat
  <2>1. IsFiniteSet(1..n)
    BY FS_Interval
  <2> QED
    BY <2>1, FS_Subset, FS_CardinalityType
<1>1. ASSUME NEW x \in S, NEW y \in S, x < y
      PROVE  Cardinality(below(x)) < Cardinality(below(y))
  <2>0. /\ \A j \in S : j < x => j < y
        /\ ~(x < x)
    BY <1>n, <1>1
  <2>1. below(x) \subseteq below(y) /\ x \in below(y) /\ x \notin below(x)
    BY <1>1, <2>0
  <2>2. below(x) \in SUBSET S /\ below(y) \in SUBSET S
    OBVIOUS
  <2> HIDE DEF below
  <2>3. IsFiniteSet(below(y)) /\ IsFiniteSet(below(x))
        /\ Cardinality(below(x)) \in Nat /\ Cardinality(below(y)) \in Nat
    BY <1>f, <2>2
  <2>4. Cardinality(below(x)) <= Cardinality(below(y))
    BY <2>1, <2>3, FS_Subset
  <2>5. Cardinality(below(x)) # Cardinality(below(y))
    <3>1. ASSUME Cardinality(below(x)) = Cardinality(below(y)) PROVE FALSE
      <4>1. below(x) = below(y)
        BY <2>1, <2>3, <3>1, FS_Subset
      <4> QED
        BY <2>1, <4>1
    <3> QED
      BY <3>1
  <2> QED
    BY <2>3, <2>4, <2>5
<1>2. Cardinality(below(i)) = Cardinality(below(k)) /\ Cardinality(below(i)) \in Nat
  BY <1>f
<1> HIDE DEF below
<1>3. ~(i < k) /\ ~(k < i)
  <2>1. ASSUME i < k PROVE FALSE
    <3>1. Cardinality(below(i)) < Cardinality(below(k))
      BY <1>1, <2>1
    <3> QED
      BY <1>2, <3>1
  <2>2. ASSUME k < i PROVE FALSE
    <3>1. Cardinality(below(k)) < Cardinality(below(i))
      BY <1>1, <2>2
    <3> QED
      BY <1>2, <3>1
  <2> QED
    BY <2>1, <2>2
<1> QED
  BY <1>n, <1>3

(* What is kept of a list is what stands at the places, each once. *)
LEMMA KeptPlaces ==
  ASSUME NEW T, NEW s \in Seq(T), NEW places \in SUBSET (1..Len(s))
  PROVE  \E at \in [1..Cardinality(places) -> places] :
           /\ Kept(s, places) = [k \in 1..Cardinality(places) |-> s[at[k]]]
           /\ \A i \in places : \E k \in 1..Cardinality(places) : at[k] = i
           /\ \A k, l \in 1..Cardinality(places) : at[k] = at[l] => k = l
           /\ Cardinality(places) \in Nat
<1> DEFINE N == Cardinality(places)
           below(i) == {j \in places : j < i}
           at == [k \in 1..N |-> CHOOSE i \in places : Cardinality(below(i)) = k - 1]
<1>l. Len(s) \in Nat
  OBVIOUS
<1>f. /\ \A U \in SUBSET places : IsFiniteSet(U) /\ Cardinality(U) \in Nat
      /\ N \in Nat
  <2>1. IsFiniteSet(1..Len(s))
    BY FS_Interval
  <2> QED
    BY <2>1, FS_Subset, FS_CardinalityType
<1>1. ASSUME NEW k \in 1..N PROVE at[k] \in places /\ Cardinality(below(at[k])) = k - 1
  <2>1. \E i \in places : Cardinality(below(i)) = k - 1
    <3> HIDE DEF at
    <3> QED
      BY <1>l, KthPlace
  <2>2. at[k] = CHOOSE i \in places : Cardinality(below(i)) = k - 1
    OBVIOUS
  <2> HIDE DEF at, below
  <2> QED
    BY <2>1, <2>2, Zenon
<1>2. at \in [1..N -> places]
  <2>1. \A k \in 1..N : at[k] \in places
    BY <1>1
  <2>2. at = [k \in 1..N |-> at[k]]
    <3> HIDE DEF N, below
    <3> QED
      OBVIOUS
  <2> HIDE DEF at, N
  <2> QED
    BY <2>1, <2>2
<1>3. Kept(s, places) = [k \in 1..N |-> s[at[k]]]
  BY DEF Kept
<1>4. ASSUME NEW i \in places PROVE \E k \in 1..N : at[k] = i
  <2>1. below(i) \in SUBSET places /\ i \notin below(i)
    OBVIOUS
  <2>2. Cardinality(below(i)) \in Nat /\ IsFiniteSet(places) /\ IsFiniteSet(below(i))
    BY <1>f, <2>1
  <2>3. Cardinality(below(i)) < N
    <3> HIDE DEF below
    <3>1. Cardinality(below(i)) <= N
      BY <2>1, <2>2, FS_Subset
    <3>2. ASSUME Cardinality(below(i)) = N PROVE FALSE
      <4>1. below(i) = places
        BY <2>1, <2>2, <3>2, FS_Subset
      <4> QED
        BY <2>1, <4>1
    <3> QED
      BY <1>f, <2>2, <3>1, <3>2
  <2> DEFINE k == Cardinality(below(i)) + 1
  <2>4. k \in 1..N /\ k - 1 = Cardinality(below(i))
    BY <1>f, <2>2, <2>3
  <2>5. at[k] \in places /\ Cardinality(below(at[k])) = Cardinality(below(i))
    <3> HIDE DEF k, at, below, N
    <3> QED
      BY <1>1, <2>4
  <2>6. at[k] = i
    <3> HIDE DEF k, at
    <3> QED
      BY <1>l, <2>5, PlaceIsUnique
  <2> QED
    BY <2>4, <2>6
<1>5. ASSUME NEW k \in 1..N, NEW l \in 1..N, at[k] = at[l] PROVE k = l
  <2>1. Cardinality(below(at[k])) = k - 1 /\ Cardinality(below(at[l])) = l - 1
    BY <1>1
  <2> HIDE DEF at, below, N
  <2> QED
    BY <1>5, <1>f, <2>1
<1> HIDE DEF at, N
<1> QED
  BY <1>2, <1>3, <1>4, <1>5, <1>f DEF N

Boxes(list)    == {list[i].box : i \in 1..Len(list)}
OnceEach(list) == \A i, j \in 1..Len(list) : list[i].box = list[j].box => i = j

(* Keeping the places where every box of a set occurs, and each once, is a *)
(* list of that set, each once.                                            *)
LEMMA KeptBoxes ==
  ASSUME NEW s \in Seq(Recipient), NEW places \in SUBSET (1..Len(s)),
         \A i, j \in places : s[i].box = s[j].box => i = j
  PROVE  LET out == Kept(s, places) IN
         /\ out \in Seq(Recipient)
         /\ Boxes(out) = {s[i].box : i \in places}
         /\ OnceEach(out)
<1> DEFINE out == Kept(s, places)
           N == Cardinality(places)
<1>1. PICK at \in [1..N -> places] :
        /\ out = [k \in 1..N |-> s[at[k]]]
        /\ \A i \in places : \E k \in 1..N : at[k] = i
        /\ \A k, l \in 1..N : at[k] = at[l] => k = l
        /\ N \in Nat
  BY KeptPlaces
<1> HIDE DEF out, N
<1>2. \A k \in 1..N : at[k] \in places /\ out[k] = s[at[k]]
  BY <1>1
<1>3. out \in Seq(Recipient) /\ Len(out) = N
  <2>1. ASSUME NEW k \in 1..N PROVE out[k] \in Recipient
    <3>1. at[k] \in 1..Len(s) /\ out[k] = s[at[k]]
      BY <1>2
    <3> QED
      BY <3>1
  <2>2. DOMAIN out = 1..N /\ out = [k \in 1..N |-> out[k]]
    BY <1>1
  <2>3. out \in [1..N -> Recipient]
    BY <2>1, <2>2
  <2>4. out \in Seq(Recipient)
    BY <1>1, <2>3
  <2>5. Len(out) = N
    BY <1>1, <2>2, <2>4
  <2> QED
    BY <2>4, <2>5
<1>4. Boxes(out) = {s[i].box : i \in places}
  <2>1. Boxes(out) = {out[k].box : k \in 1..N}
    BY <1>3 DEF Boxes
  <2>2. ASSUME NEW k \in 1..N PROVE out[k].box \in {s[i].box : i \in places}
    BY <1>2
  <2>3. ASSUME NEW i \in places PROVE s[i].box \in {out[k].box : k \in 1..N}
    <3>1. PICK k \in 1..N : at[k] = i
      BY <1>1
    <3>2. out[k] = s[i]
      BY <1>2, <3>1
    <3> QED
      BY <3>2
  <2> QED
    BY <2>1, <2>2, <2>3
<1>5. OnceEach(out)
  <2>1. ASSUME NEW k \in 1..N, NEW l \in 1..N, out[k].box = out[l].box PROVE k = l
    <3>1. at[k] \in places /\ at[l] \in places /\ s[at[k]].box = s[at[l]].box
      BY <1>2, <2>1
    <3>2. at[k] = at[l]
      BY <3>1
    <3> QED
      BY <1>1, <3>2
  <2> QED
    BY <1>3, <2>1 DEF OnceEach
<1> QED
  BY <1>3, <1>4, <1>5 DEF out

(* ParseRecipients loses no mailbox and repeats none. *)
LEMMA DistinctBoxes ==
  ASSUME NEW raw \in Seq(Recipient)
  PROVE  /\ Distinct(raw) \in Seq(Recipient)
         /\ Boxes(Distinct(raw)) = Boxes(raw)
         /\ OnceEach(Distinct(raw))
<1> DEFINE fresh == {i \in 1..Len(raw) : \A j \in 1..(i - 1) : raw[j].box # raw[i].box}
<1>0. Len(raw) \in Nat /\ fresh \in SUBSET (1..Len(raw))
  OBVIOUS
<1>1. ASSUME NEW i \in fresh, NEW j \in fresh, raw[i].box = raw[j].box PROVE i = j
  <2>1. i \in Nat /\ j \in Nat /\ 1 <= i /\ 1 <= j
    OBVIOUS
  <2>2. ~(i < j) /\ ~(j < i)
    <3>1. i < j => i \in 1..(j - 1)
      BY <2>1
    <3>2. j < i => j \in 1..(i - 1)
      BY <2>1
    <3> QED
      BY <1>1, <3>1, <3>2
  <2> QED
    BY <2>1, <2>2
<1>2. {raw[i].box : i \in fresh} = Boxes(raw)
  <2>1. ASSUME NEW i \in 1..Len(raw) PROVE \E f \in fresh : raw[f].box = raw[i].box
    <3> DEFINE same == {j \in 1..Len(raw) : raw[j].box = raw[i].box}
               f == Min(same)
    <3>1. same \in SUBSET Nat /\ same # {}
      OBVIOUS
    <3>2. f \in same /\ \A y \in same : f <= y
      <4> HIDE DEF same
      <4> QED
        BY <3>1, LeastExists
    <3>3. f \in 1..Len(raw) /\ raw[f].box = raw[i].box
      BY <3>2
    <3> HIDE DEF f
    <3>4. ASSUME NEW j \in 1..(f - 1) PROVE raw[j].box # raw[f].box
      <4>1. j \in 1..Len(raw) /\ ~(f <= j)
        BY <1>0, <3>3
      <4> QED
        BY <3>2, <3>3, <4>1
    <3>5. f \in fresh
      BY <3>3, <3>4
    <3> QED
      BY <3>3, <3>5
  <2> HIDE DEF fresh
  <2>2. {raw[i].box : i \in fresh} \subseteq Boxes(raw)
    BY <1>0 DEF Boxes
  <2>3. Boxes(raw) \subseteq {raw[i].box : i \in fresh}
    BY <2>1 DEF Boxes
  <2> QED
    BY <2>2, <2>3
<1>3. Distinct(raw) = Kept(raw, fresh)
  BY DEF Distinct
<1> HIDE DEF fresh
<1> QED
  BY <1>0, <1>1, <1>2, <1>3, KeptBoxes

(* FilterSuppressed drops the suppressed mailboxes and no other. *)
LEMMA FilteredBoxes ==
  ASSUME NEW to \in Seq(Recipient), OnceEach(to), NEW suppressed
  PROVE  LET out == FilterSuppressed(to, suppressed) IN
         /\ out \in Seq(Recipient)
         /\ Boxes(out) = Boxes(to) \ suppressed
         /\ OnceEach(out)
<1> DEFINE open == {i \in 1..Len(to) : to[i].box \notin suppressed}
<1>1. open \in SUBSET (1..Len(to)) /\ \A i, j \in open : to[i].box = to[j].box => i = j
  BY DEF OnceEach
<1>2. {to[i].box : i \in open} = Boxes(to) \ suppressed
  BY DEF Boxes
<1>3. FilterSuppressed(to, suppressed) = Kept(to, open)
  BY DEF FilterSuppressed
<1> HIDE DEF open
<1> QED
  BY <1>1, <1>2, <1>3, KeptBoxes

-----------------------------------------------------------------------------
(* Mail. What buildMessage stores has passed every check Build repeats.    *)

Buildable(msg) ==
  /\ ValidateSubject(msg.subject)
  /\ msg.to # <<>>
  /\ msg.from.valid
  /\ \A i \in 1..Len(msg.to) : msg.to[i].valid
  /\ \A h \in msg.headers : ValidateCustomHeader(h)

(* What is stored of a call, and what arrives of it. *)
Stores(req, msg) ==
  /\ msg.from = req.from /\ msg.headers = req.headers
  /\ msg.subject = Render(req.subject, req.variables, FALSE).text
  /\ msg.html = Render(req.html, req.variables, TRUE).text
  /\ msg.text = Render(req.text, req.variables, FALSE).text

Delivers(req, made) ==
  LET html == Render(req.html, req.variables, TRUE).text
      text == Render(req.text, req.variables, FALSE).text
  IN /\ made.from = req.from /\ made.headers = req.headers
     /\ made.subject = Render(req.subject, req.variables, FALSE).text
     /\ made.html = IF TrimSpace(html) = <<>> THEN <<>> ELSE html
     /\ TrimSpace(text) # <<>> => made.text = text
     /\ made.replyTo = {}

MailInv ==
  task = "mail" =>
    /\ stage = "accepted" => Buildable(result) /\ Stores(input, result)
    /\ stage = "built" => result.ok /\ Delivers(input, result)

(* What is kept of a list was in it. *)
LEMMA KeptValid ==
  ASSUME NEW s \in Seq(Recipient), NEW places \in SUBSET (1..Len(s)),
         \A i \in 1..Len(s) : s[i].valid
  PROVE  \A k \in 1..Len(Kept(s, places)) : Kept(s, places)[k].valid
<1> DEFINE out == Kept(s, places)
           N == Cardinality(places)
<1>1. PICK at \in [1..N -> places] : out = [k \in 1..N |-> s[at[k]]] /\ N \in Nat
  BY KeptPlaces
<1> HIDE DEF out, N
<1>2. ASSUME NEW k \in 1..N PROVE s[at[k]] \in Recipient
  <2>1. at[k] \in 1..Len(s)
    BY <1>1
  <2> QED
    BY <2>1
<1>s. out \in [1..N -> Recipient]
  BY <1>1, <1>2
<1>3. Len(out) = N
  BY <1>1, <1>s
<1>4. ASSUME NEW k \in 1..N PROVE out[k].valid
  <2>1. at[k] \in places /\ out[k] = s[at[k]]
    BY <1>1
  <2> QED
    BY <2>1
<1> QED
  BY <1>3, <1>4 DEF out

(* The recipients of an accepted call are valid addresses. *)
LEMMA StoredAreValid ==
  ASSUME NEW raw \in Seq(Recipient), NEW suppressed,
         FilterSuppressed(ParseRecipients(raw), suppressed) # <<>>
  PROVE  LET out == FilterSuppressed(ParseRecipients(raw), suppressed) IN
         \A i \in 1..Len(out) : out[i].valid
<1> DEFINE fresh == {i \in 1..Len(raw) : \A j \in 1..(i - 1) : raw[j].box # raw[i].box}
           parsed == ParseRecipients(raw)
           open == {i \in 1..Len(parsed) : parsed[i].box \notin suppressed}
<1>0. fresh \in SUBSET (1..Len(raw)) /\ Distinct(raw) = Kept(raw, fresh)
  BY DEF Distinct
<1>1. parsed \in Seq(Recipient) /\ \A i \in 1..Len(parsed) : parsed[i].valid
  <2>1. CASE parsed = <<>>
    BY <2>1
  <2>2. CASE parsed # <<>>
    <3>1. parsed = Distinct(raw) /\ \A i \in 1..Len(raw) : raw[i].valid
      BY <2>2 DEF ParseRecipients
    <3>2. parsed \in Seq(Recipient)
      BY <3>1, DistinctBoxes
    <3> HIDE DEF fresh, parsed
    <3> QED
      BY <1>0, <3>1, <3>2, KeptValid
  <2> QED
    BY <2>1, <2>2
<1>2. open \in SUBSET (1..Len(parsed)) /\ FilterSuppressed(parsed, suppressed) = Kept(parsed, open)
  BY DEF FilterSuppressed
<1> HIDE DEF parsed, open
<1> QED
  BY <1>1, <1>2, KeptValid DEF parsed

(* What is stored of an accepted call can be built. *)
LEMMA StoredIsBuilt ==
  ASSUME NEW req, req.to \in Seq(Recipient), NEW suppressed,
         BuildMessage(req, suppressed).ok
  PROVE  /\ Buildable(BuildMessage(req, suppressed))
         /\ Stores(req, BuildMessage(req, suppressed))
<1> DEFINE allowed == FilterSuppressed(ParseRecipients(req.to), suppressed)
           msg == BuildMessage(req, suppressed)
<1>1. /\ ValidateSubject(msg.subject)
      /\ msg.to = allowed /\ allowed # <<>>
      /\ msg.from.valid
      /\ \A h \in msg.headers : ValidateCustomHeader(h)
  BY DEF BuildMessage, Refused, SubjectAccepted
<1>2. Stores(req, msg)
  BY DEF BuildMessage, Refused, Stores
<1>3. \A i \in 1..Len(allowed) : allowed[i].valid
  BY <1>1, StoredAreValid
<1> HIDE DEF msg, allowed
<1>4. Buildable(msg)
  BY <1>1, <1>3 DEF Buildable
<1> QED
  BY <1>2, <1>4 DEF msg

(* What is built of a stored message. *)
LEMMA BuiltOf ==
  ASSUME NEW msg, Buildable(msg)
  PROVE  LET made == Build(Envelope(msg)) IN
         /\ made.ok /\ made.to = msg.to /\ made.text = TextPart(msg)
         /\ \A req : Stores(req, msg) => Delivers(req, made)
<1> DEFINE e == Envelope(msg)
           made == Build(e)
<1>1. /\ e.from = msg.from /\ e.to = msg.to /\ e.replyTo = {} /\ e.subject = msg.subject
      /\ e.html = msg.html /\ e.text = msg.text /\ e.headers = msg.headers
  BY DEF Envelope
<1> HIDE DEF e
<1>2. ValidateSubject(e.subject) /\ e.to # <<>> /\ HeadersClean(e)
  BY <1>1 DEF Buildable, HeadersClean
<1>3. made = [ok |-> TRUE, from |-> e.from, to |-> e.to, replyTo |-> e.replyTo,
              subject |-> e.subject, headers |-> e.headers, text |-> TextPart(e),
              html |-> IF TrimSpace(e.html) = <<>> THEN <<>> ELSE e.html]
  BY <1>2, Zenon DEF Build
<1>4. TextPart(e) = TextPart(msg)
  BY <1>1, Zenon DEF TextPart
<1>5. /\ made.ok /\ made.to = msg.to /\ made.text = TextPart(msg)
      /\ made.from = msg.from /\ made.headers = msg.headers
      /\ made.subject = msg.subject /\ made.replyTo = {}
      /\ made.html = IF TrimSpace(msg.html) = <<>> THEN <<>> ELSE msg.html
  <2> HIDE DEF made
  <2> QED
    BY <1>1, <1>3, <1>4
<1>6. TrimSpace(msg.text) # <<>> => TextPart(msg) = msg.text
  BY Zenon DEF TextPart
<1> HIDE DEF made
<1>7. ASSUME NEW req, Stores(req, msg) PROVE Delivers(req, made)
  BY <1>5, <1>6, <1>7, Zenon DEF Stores, Delivers
<1> QED
  BY <1>5, <1>7 DEF made, e

(* The recipients of a call, and of what is stored and built of it. *)
RecipientsInv ==
  task = "mail" =>
    /\ "to" \in DOMAIN input /\ "suppressed" \in DOMAIN input
    /\ input.to \in Seq(Recipient)
    /\ stage \in {"accepted", "built"} =>
         /\ Boxes(result.to) = Boxes(input.to) \ input.suppressed
         /\ OnceEach(result.to)

(* Every step keeps it so. *)
LEMMA NextMail ==
  ASSUME MailInv, RecipientsInv, [Next]_vars
  PROVE  MailInv'
<1> SUFFICES ASSUME task' = "mail" PROVE MailInv'
  BY DEF MailInv
<1>0. task = "mail" /\ task' = "mail"
  BY StepsOfATask
<1>1. CASE EditCall
  <2>1. stage' = "writing"
    BY <1>1 DEF EditCall, Edit
  <2> QED
    BY <2>1 DEF MailInv
<1>2. CASE HandleSend
  <2>1. /\ result' = BuildMessage(input, input.suppressed) /\ input' = input
        /\ stage' = IF result'.ok THEN "accepted" ELSE "refused"
    BY <1>2 DEF HandleSend
  <2>2. input.to \in Seq(Recipient)
    BY <1>0 DEF RecipientsInv
  <2>3. result'.ok => Buildable(result') /\ Stores(input', result')
    BY <2>1, <2>2, StoredIsBuilt, Zenon
  <2>4. stage' # "built" /\ (stage' = "accepted" => result'.ok)
    BY <2>1
  <2> QED
    BY <2>3, <2>4, Zenon DEF MailInv
<1>3. CASE WorkerBuilds
  <2>1. /\ stage = "accepted" /\ stage' = "built"
        /\ result' = Build(Envelope(result)) /\ input' = input
    BY <1>3 DEF WorkerBuilds
  <2>2. Buildable(result) /\ Stores(input, result)
    BY <1>0, <2>1 DEF MailInv
  <2>3. result'.ok /\ Delivers(input', result')
    BY <2>1, <2>2, BuiltOf, Zenon
  <2> QED
    BY <2>1, <2>3 DEF MailInv
<1>4. CASE UNCHANGED vars
  <2>1. input' = input /\ result' = result /\ stage' = stage
    BY <1>4 DEF vars
  <2>2. /\ stage' = "accepted" => Buildable(result') /\ Stores(input', result')
        /\ stage' = "built" => result'.ok /\ Delivers(input', result')
    BY <1>0, <2>1, Zenon DEF MailInv
  <2> QED
    BY <2>2 DEF MailInv
<1> QED
  BY <1>0, <1>1, <1>2, <1>3, <1>4, StepsOfATask

(* What is stored of a call is for every mailbox once. *)
LEMMA StoredForEach ==
  ASSUME NEW req, req.to \in Seq(Recipient), NEW suppressed,
         BuildMessage(req, suppressed).ok
  PROVE  LET msg == BuildMessage(req, suppressed) IN
         Boxes(msg.to) = Boxes(req.to) \ suppressed /\ OnceEach(msg.to)
<1> DEFINE parsed == ParseRecipients(req.to)
           allowed == FilterSuppressed(parsed, suppressed)
<1>1. BuildMessage(req, suppressed).to = allowed /\ allowed # <<>>
  BY DEF BuildMessage, Refused
<1>2. parsed # <<>>
  <2>1. ASSUME parsed = <<>> PROVE FALSE
    <3>1. parsed \in Seq(Recipient) /\ OnceEach(parsed) /\ Boxes(parsed) = {}
      BY <2>1 DEF OnceEach, Boxes
    <3> HIDE DEF parsed
    <3>2. allowed \in Seq(Recipient) /\ Boxes(allowed) = {} \ suppressed
      BY <3>1, FilteredBoxes
    <3> HIDE DEF allowed
    <3>3. ~(1 \in 1..Len(allowed))
      BY <3>2 DEF Boxes
    <3> QED
      BY <1>1, <3>2, <3>3
  <2> QED
    BY <2>1
<1>3. parsed = Distinct(req.to)
  BY <1>2 DEF ParseRecipients
<1>4. /\ parsed \in Seq(Recipient) /\ OnceEach(parsed)
      /\ Boxes(parsed) = Boxes(req.to)
  BY <1>3, DistinctBoxes
<1> HIDE DEF parsed
<1>5. Boxes(allowed) = Boxes(req.to) \ suppressed /\ OnceEach(allowed)
  BY <1>4, FilteredBoxes
<1> QED
  BY <1>1, <1>5

(* Calls start with one recipient. *)
LEMMA InitRecipients == Init => RecipientsInv
<1> SUFFICES ASSUME Init, task = "mail" PROVE RecipientsInv
  BY DEF RecipientsInv
<1>1. PICK v \in VarValues : input = Draft(v)
  BY DEF Init
<1>2. OK \in Recipient
  BY InputAssumption DEF OK, Recipient
<1>3. input.to = <<OK>> /\ "to" \in DOMAIN input /\ "suppressed" \in DOMAIN input
  BY <1>1 DEF Draft
<1>4. stage = "writing"
  BY DEF Init
<1> QED
  BY <1>2, <1>3, <1>4 DEF RecipientsInv

(* Every step keeps it so. *)
LEMMA NextRecipients ==
  ASSUME RecipientsInv, MailInv, [Next]_vars
  PROVE  RecipientsInv'
<1> SUFFICES ASSUME task' = "mail" PROVE RecipientsInv'
  BY DEF RecipientsInv
<1>0. task = "mail" /\ task' = "mail"
  BY StepsOfATask
<1>i. /\ "to" \in DOMAIN input /\ "suppressed" \in DOMAIN input
      /\ input.to \in Seq(Recipient)
  BY <1>0 DEF RecipientsInv
<1>1. CASE EditCall
  <2>0. stage' = "writing"
    BY <1>1 DEF EditCall, Edit
  <2>1. ASSUME NEW field, NEW value, Edit(field, value),
               field = "to" => value \in Seq(Recipient)
        PROVE  /\ "to" \in DOMAIN input' /\ "suppressed" \in DOMAIN input'
               /\ input'.to \in Seq(Recipient)
    <3>1. input' = [input EXCEPT ![field] = value, !.edits = input.edits + 1]
      BY <2>1 DEF Edit
    <3>2. DOMAIN input' = DOMAIN input
      BY <3>1
    <3>3. CASE field = "to"
      BY <1>i, <2>1, <3>1, <3>3
    <3>4. CASE field # "to"
      BY <1>i, <3>1, <3>4
    <3> QED
      BY <1>i, <3>2, <3>3, <3>4
  <2>2. PICK field, value : Edit(field, value) /\ (field = "to" => value \in Seq(Recipient))
    <3>1. CASE \E field \in {"subject", "html", "text"}, piece \in ContentPieces :
                 Edit(field, input[field] \o piece)
      BY <3>1
    <3>2. CASE \E list \in ToLists : Edit("to", list)
      <4>1. ToLists \subseteq Seq(Recipient)
        BY InputAssumption
      <4> QED
        BY <3>2, <4>1
    <3>3. CASE \E set \in HeaderSets : Edit("headers", set)
      BY <3>3
    <3>4. CASE \E set \in SUBSET Mailboxes : Edit("suppressed", set)
      BY <3>4
    <3>5. CASE Edit("from", [OK EXCEPT !.valid = FALSE])
      BY <3>5
    <3>6. CASE \E valid \in BOOLEAN : Edit("replyTo", {[OK EXCEPT !.valid = valid]})
      BY <3>6
    <3>7. CASE Edit("tags", {<<"newline">>})
      BY <3>7
    <3> QED
      BY <1>1, <3>1, <3>2, <3>3, <3>4, <3>5, <3>6, <3>7 DEF EditCall
  <2> QED
    BY <2>0, <2>1, <2>2 DEF RecipientsInv
<1>2. CASE HandleSend
  <2>1. /\ input' = input
        /\ result' = BuildMessage(input, input.suppressed)
        /\ stage' = IF result'.ok THEN "accepted" ELSE "refused"
    BY <1>2 DEF HandleSend
  <2>2. CASE result'.ok
    <3>1. /\ Boxes(result'.to) = Boxes(input.to) \ input.suppressed
          /\ OnceEach(result'.to)
      BY <1>i, <2>1, <2>2, StoredForEach
    <3>2. Boxes(result.to)' = Boxes(result'.to) /\ Boxes(input.to)' = Boxes(input.to)
          /\ OnceEach(result.to)' = OnceEach(result'.to)
      BY <2>1 DEF Boxes, OnceEach
    <3>3. Boxes(result.to)' = Boxes(input.to)' \ input'.suppressed /\ OnceEach(result.to)'
      BY <2>1, <3>1, <3>2
    <3>4. input'.to \in Seq(Recipient)
          /\ "to" \in DOMAIN input' /\ "suppressed" \in DOMAIN input'
      BY <1>i, <2>1
    <3> QED
      BY <3>3, <3>4 DEF RecipientsInv
  <2>3. CASE ~result'.ok
    <3>1. stage' = "refused"
      BY <2>1, <2>3
    <3> QED
      BY <1>i, <2>1, <3>1 DEF RecipientsInv
  <2> QED
    BY <2>2, <2>3
<1>3. CASE WorkerBuilds
  <2>1. /\ stage = "accepted" /\ stage' = "built" /\ input' = input
        /\ result' = Build(Envelope(result))
    BY <1>3 DEF WorkerBuilds
  <2>2. Buildable(result)
    BY <1>0, <2>1 DEF MailInv
  <2>3. result'.to = result.to
    BY <2>1, <2>2, BuiltOf, Zenon
  <2>4. /\ Boxes(result.to) = Boxes(input.to) \ input.suppressed
        /\ OnceEach(result.to)
    BY <1>0, <2>1 DEF RecipientsInv
  <2> QED
    BY <1>i, <2>1, <2>3, <2>4 DEF RecipientsInv, Boxes, OnceEach
<1>4. CASE UNCHANGED vars
  BY <1>4 DEF vars, RecipientsInv, Boxes, OnceEach
<1> QED
  BY <1>0, <1>1, <1>2, <1>3, <1>4, StepsOfATask

(* A message goes once to every mailbox the call names that is not         *)
(* suppressed, however long the list and whichever the case of its         *)
(* addresses.                                                              *)
THEOREM EachMailboxIsServedOnce == Spec => []EachMailboxOnce
<1>1. Init => MailInv
  BY DEF Init, MailInv
<1>2. RecipientsInv => EachMailboxOnce
  BY DEF RecipientsInv, EachMailboxOnce, Boxes, OnceEach
<1> QED
  BY <1>1, <1>2, InitRecipients, NextRecipients, NextMail, PTL DEF Spec

(* What was accepted can be built: no content of a call ever fails in the  *)
(* worker, where nobody would tell the caller.                             *)
THEOREM AcceptedMailIsBuilt == Spec => []AcceptedIsBuilt
<1>1. Init => MailInv
  BY DEF Init, MailInv
<1>2. MailInv => AcceptedIsBuilt
  BY DEF MailInv, AcceptedIsBuilt
<1> QED
  BY <1>1, <1>2, InitRecipients, NextRecipients, NextMail, PTL DEF Spec

(* What the reader gets is what the call said, but for its reply_to.       *)
LEMMA ContentIsDelivered == Spec => []ContentArrives
<1>1. Init => MailInv
  BY DEF Init, MailInv
<1>2. MailInv => ContentArrives
  BY Zenon DEF MailInv, ContentArrives, Delivers
<1> QED
  BY <1>1, <1>2, InitRecipients, NextRecipients, NextMail, PTL DEF Spec

-----------------------------------------------------------------------------
(* Bounces. What the parser finds in a text is a part of it.               *)

AnyWord == Words \cup {Plain} \cup {[groups |-> <<c>>, bare |-> TRUE] : c \in Codes}

(* A word is a run of numbers. *)
LEMMA WordType ==
  ASSUME NEW w \in AnyWord
  PROVE  w.groups \in Seq(Nat)
<1>1. CASE w \in Words
  BY <1>1, InputAssumption
<1>2. CASE w = Plain
  BY <1>2 DEF Plain
<1>3. ASSUME NEW c \in Codes, w = [groups |-> <<c>>, bare |-> TRUE]
      PROVE  w.groups \in Seq(Nat)
  <2>1. c \in Nat
    BY InputAssumption
  <2> QED
    BY <1>3, <2>1
<1> QED
  BY <1>1, <1>2, <1>3 DEF AnyWord

(* What is parsed is the beginning of the text. *)
LEMMA TruncatedText ==
  ASSUME NEW text \in Seq(AnyWord)
  PROVE  /\ Min({Len(text), ReportCap}) \in Nat
         /\ Min({Len(text), ReportCap}) <= Len(text)
         /\ Truncated(text) \in Seq(AnyWord)
         /\ Len(Truncated(text)) = Min({Len(text), ReportCap})
         /\ \A i \in 1..Len(Truncated(text)) : Truncated(text)[i] = text[i]
<1> DEFINE L == Min({Len(text), ReportCap})
<1>1. Len(text) \in Nat /\ ReportCap \in Nat
  BY ReportAssumption
<1>2. L \in {Len(text), ReportCap} /\ \A y \in {Len(text), ReportCap} : L <= y
  BY <1>1, LeastExists
<1>3. L \in Nat /\ L <= Len(text)
  BY <1>1, <1>2
<1> HIDE DEF L
<1>4. Truncated(text) = SubSeq(text, 1, L)
  BY DEF Truncated, L
<1>5. /\ SubSeq(text, 1, L) \in Seq(AnyWord) /\ Len(SubSeq(text, 1, L)) = L
      /\ \A i \in 1..L : SubSeq(text, 1, L)[i] = text[i]
  BY <1>1, <1>3
<1> QED
  BY <1>3, <1>4, <1>5 DEF L

(* findEnhancedStatus returns a status of the first word that holds one,   *)
(* if any does.                                                            *)
LEMMA StatusFound ==
  ASSUME NEW text \in Seq(AnyWord)
  PROVE  \/ /\ FindEnhancedStatus(text) = <<>>
            /\ \A i \in 1..Len(text) : StatusStarts(text[i].groups) = {}
         \/ \E i \in 1..Len(text) : \E k \in StatusStarts(text[i].groups) :
              /\ FindEnhancedStatus(text) = SubSeq(text[i].groups, k, k + 2)
              /\ \A j \in 1..Len(text) : StatusStarts(text[j].groups) # {} => i <= j
<1> DEFINE found == {i \in 1..Len(text) : StatusStarts(text[i].groups) # {}}
<1>1. CASE found = {}
  BY <1>1 DEF FindEnhancedStatus
<1>2. CASE found # {}
  <2> DEFINE i == Min(found)
             g == text[i].groups
             k == Min(StatusStarts(g))
  <2>1. i \in found /\ \A j \in found : i <= j
    <3>1. found \in SUBSET Nat
      OBVIOUS
    <3> HIDE DEF found
    <3> QED
      BY <1>2, <3>1, LeastExists
  <2>2. i \in 1..Len(text) /\ StatusStarts(g) # {}
    BY <2>1
  <2>3. StatusStarts(g) \in SUBSET Nat
    BY DEF StatusStarts
  <2>4. k \in StatusStarts(g)
    <3> HIDE DEF g
    <3> QED
      BY <2>2, <2>3, LeastExists
  <2>5. FindEnhancedStatus(text) = SubSeq(g, k, k + 2)
    BY <1>2 DEF FindEnhancedStatus
  <2>6. \A j \in 1..Len(text) : StatusStarts(text[j].groups) # {} => i <= j
    BY <2>1
  <2> HIDE DEF found, k, i
  <2> QED
    BY <2>2, <2>4, <2>5, <2>6
<1> QED
  BY <1>1, <1>2

(* findReplyCode returns the first field that is a reply code, if any is.  *)
LEMMA CodeFound ==
  ASSUME NEW text \in Seq(AnyWord)
  PROVE  \/ FindReplyCode(text) = 0
         \/ \E i \in 1..Len(text) :
              /\ IsReplyCode(text[i])
              /\ FindReplyCode(text) = text[i].groups[1]
              /\ \A j \in 1..Len(text) : IsReplyCode(text[j]) => i <= j
<1> DEFINE found == {i \in 1..Len(text) : IsReplyCode(text[i])}
<1>1. CASE found = {}
  BY <1>1 DEF FindReplyCode
<1>2. CASE found # {}
  <2>1. found \in SUBSET Nat
    OBVIOUS
  <2>2. Min(found) \in found /\ \A j \in found : Min(found) <= j
    <3> HIDE DEF found
    <3> QED
      BY <1>2, <2>1, LeastExists
  <2>3. FindReplyCode(text) = text[Min(found)].groups[1]
    BY <1>2 DEF FindReplyCode
  <2> DEFINE i == Min(found)
  <2>4. i \in found /\ (\A j \in found : i <= j) /\ FindReplyCode(text) = text[i].groups[1]
    BY <2>2, <2>3
  <2> HIDE DEF i
  <2> QED
    BY <2>4
<1> QED
  BY <1>1, <1>2

(* The listed temporary statuses are statuses, and none is listed as       *)
(* permanent.                                                              *)
LEMMA SoftStatuses ==
  ASSUME NEW status \in softStatus
  PROVE  /\ status \in Seq(Nat) /\ Len(status) = 3
         /\ \A j \in 1..3 : status[j] <= 999
         /\ LeadDigit(status[1]) \in {4, 5}
         /\ status \notin hardStatus
<1>a. status \in Seq(Nat)
  BY DEF softStatus
<1>b. Len(status) = 3
  BY DEF softStatus
<1>1. status[1] \in {4, 5}
  BY DEF softStatus
<1>c. status[2] \in 0..9
  BY DEF softStatus
<1>d. status[3] \in 0..99
  BY DEF softStatus
<1>2. ASSUME NEW j \in 1..3 PROVE status[j] <= 999
  <2>1. j = 1 \/ j = 2 \/ j = 3
    OBVIOUS
  <2> QED
    BY <1>1, <1>c, <1>d, <2>1
<1>3. LeadDigit(status[1]) \in {4, 5}
  BY <1>1 DEF LeadDigit
<1>4. status \notin hardStatus
  BY DEF softStatus, hardStatus
<1> QED
  BY <1>a, <1>b, <1>2, <1>3, <1>4

(* A status that suppresses is of the permanent class and not listed as    *)
(* temporary.                                                              *)
LEMMA HardStatuses ==
  ASSUME NEW status, StatusKind(status) = "hard"
  PROVE  LeadDigit(status[1]) = 5 /\ status \notin softStatus
<1>1. CASE status \in hardStatus
  <2>1. status[1] = 5
    BY <1>1 DEF hardStatus
  <2>2. status \notin softStatus
    BY <1>1, SoftStatuses
  <2> QED
    BY <2>1, <2>2 DEF LeadDigit
<1>2. CASE status \notin hardStatus
  BY <1>2 DEF StatusKind
<1> QED
  BY <1>1, <1>2

(* A word of fewer than three numbers holds no status. *)
LEMMA ShortWords ==
  ASSUME NEW g \in Seq(Nat), Len(g) < 3
  PROVE  StatusStarts(g) = {}
BY DEF StatusStarts, ParsesStatus

(* The kinds of a classification. *)
LEMMA ClassifyKinds ==
  ASSUME NEW text, NEW reported \in BOOLEAN, ~reported
  PROVE  LET read == Truncated(text) IN
         /\ FindEnhancedStatus(read) # <<>> =>
              Classify(text, reported) = StatusKind(FindEnhancedStatus(read))
         /\ FindEnhancedStatus(read) = <<>> =>
              Classify(text, reported) = CodeKind(FindReplyCode(read))
BY DEF Classify

-----------------------------------------------------------------------------
(* The invariant of the task: a text is words, the engine's is one of its  *)
(* own, and the result is what Classify made of it.                        *)

EngineText(text) ==
  \/ text = <<Plain>>
  \/ \E code \in Codes : /\ EngineResult(code) = "Permanent"
                         /\ text = <<Plain, [groups |-> <<code>>, bare |-> TRUE]>>

Sources == {"none", "engine", "destination"}

BounceInv ==
  task = "bounce" =>
    /\ input \in [source : Sources, said : Seq(AnyWord), complaint : BOOLEAN]
    /\ input.source = "engine" => ~input.complaint /\ EngineText(input.said)
    /\ stage = "ended" => result = Classify(input.said, input.complaint)

(* There is no text at the start. *)
LEMMA InitBounce == Init => BounceInv
<1> SUFFICES ASSUME Init, task = "bounce" PROVE BounceInv
  BY DEF BounceInv
<1>1. stage = "writing" /\ input = [source |-> "none", said |-> <<>>, complaint |-> FALSE]
  BY DEF Init
<1>2. <<>> \in Seq(AnyWord)
  OBVIOUS
<1> QED
  BY <1>1, <1>2 DEF BounceInv, Sources

(* Every step keeps it so. *)
LEMMA NextBounce ==
  ASSUME BounceInv, [Next]_vars
  PROVE  BounceInv'
<1> SUFFICES ASSUME task' = "bounce" PROVE BounceInv'
  BY DEF BounceInv
<1>0. task = "bounce" /\ task' = "bounce"
  BY StepsOfATask
<1>i. /\ input \in [source : Sources, said : Seq(AnyWord), complaint : BOOLEAN]
      /\ input.source = "engine" => ~input.complaint /\ EngineText(input.said)
      /\ stage = "ended" => result = Classify(input.said, input.complaint)
  BY <1>0 DEF BounceInv
<1>1. CASE EngineRefuses
  <2>1. PICK text : /\ EngineText(text)
                    /\ input' = [source |-> "engine", said |-> text, complaint |-> FALSE]
    BY <1>1 DEF EngineRefuses, EngineText
  <2>2. text \in Seq(AnyWord)
    <3>1. CASE text = <<Plain>>
      BY <3>1 DEF AnyWord
    <3>2. ASSUME NEW code \in Codes, text = <<Plain, [groups |-> <<code>>, bare |-> TRUE]>>
          PROVE  text \in Seq(AnyWord)
      <4>1. Plain \in AnyWord /\ [groups |-> <<code>>, bare |-> TRUE] \in AnyWord
        BY DEF AnyWord
      <4> QED
        BY <3>2, <4>1
    <3> QED
      BY <2>1, <3>1, <3>2 DEF EngineText
  <2>3. stage' = "writing"
    BY <1>1 DEF EngineRefuses
  <2> QED
    BY <2>1, <2>2, <2>3 DEF BounceInv, Sources
<1>2. ASSUME NEW w \in Words, DestinationSays(w) PROVE BounceInv'
  <2>1. PICK c \in {input.complaint, input.complaint \/ Len(input.said) < ReportCap} :
          input' = [source |-> "destination", said |-> Append(input.said, w),
                    complaint |-> c]
    BY <1>2 DEF DestinationSays
  <2>2. c \in BOOLEAN
    BY <1>i, <2>1
  <2>3. Append(input.said, w) \in Seq(AnyWord)
    <3>1. w \in AnyWord /\ input.said \in Seq(AnyWord)
      BY <1>i DEF AnyWord
    <3> QED
      BY <3>1
  <2>4. stage' = "writing"
    BY <1>2 DEF DestinationSays
  <2> QED
    BY <2>1, <2>2, <2>3, <2>4 DEF BounceInv, Sources
<1>3. CASE SuppressIfAddressIsBad
  BY <1>i, <1>3 DEF SuppressIfAddressIsBad, BounceInv
<1>4. CASE UNCHANGED vars
  BY <1>i, <1>4 DEF vars, BounceInv
<1> QED
  BY <1>0, <1>1, <1>2, <1>3, <1>4, StepsOfATask

(* What holds of a classified text. *)
LEMMA EngineIsNoBounce ==
  ASSUME NEW text \in Seq(AnyWord), EngineText(text)
  PROVE  ~Suppresses(Classify(text, FALSE))
<1> DEFINE read == Truncated(text)
<1>1. /\ read \in Seq(AnyWord) /\ Len(read) \in Nat /\ Len(read) <= Len(text)
      /\ \A i \in 1..Len(read) : read[i] = text[i]
  BY TruncatedText
<1>2. ASSUME NEW i \in 1..Len(text)
      PROVE  \/ text[i].groups = <<>>
             \/ \E code \in Codes : EngineResult(code) = "Permanent" /\ text[i].groups = <<code>>
  <2>1. CASE text = <<Plain>>
    <3>1. i = 1
      BY <2>1
    <3> QED
      BY <2>1, <3>1 DEF Plain
  <2>2. ASSUME NEW code \in Codes, EngineResult(code) = "Permanent",
               text = <<Plain, [groups |-> <<code>>, bare |-> TRUE]>>
        PROVE  text[i].groups = <<>> \/ text[i].groups = <<code>>
    <3>1. i = 1 \/ i = 2
      BY <2>2
    <3> QED
      BY <2>2, <3>1 DEF Plain
  <2> QED
    BY <2>1, <2>2 DEF EngineText
<1>3. \A i \in 1..Len(read) : i \in 1..Len(text)
  BY <1>1
<1>4. ASSUME NEW i \in 1..Len(read) PROVE StatusStarts(read[i].groups) = {}
  <2>1. read[i] \in AnyWord
    BY <1>1
  <2>2. read[i].groups \in Seq(Nat)
    BY <2>1, WordType
  <2>3. Len(read[i].groups) < 3
    <3>1. \/ read[i].groups = <<>>
          \/ \E code \in Codes : read[i].groups = <<code>>
      BY <1>1, <1>2, <1>3
    <3>2. CASE read[i].groups = <<>>
      BY <3>2
    <3>3. ASSUME NEW code \in Codes, read[i].groups = <<code>> PROVE Len(read[i].groups) < 3
      BY <3>3
    <3> QED
      BY <3>1, <3>2, <3>3
  <2> QED
    BY <2>2, <2>3, ShortWords
<1>5. FindEnhancedStatus(read) = <<>>
  <2> HIDE DEF read
  <2> QED
    BY <1>1, <1>4, StatusFound
<1>6. CodeKind(FindReplyCode(read)) # "hard" /\ CodeKind(FindReplyCode(read)) # "complaint"
  <2>1. CASE FindReplyCode(read) = 0
    BY <2>1 DEF CodeKind
  <2>2. ASSUME NEW i \in 1..Len(read), Len(read[i].groups) = 1,
               FindReplyCode(read) = read[i].groups[1]
        PROVE  CodeKind(FindReplyCode(read)) # "hard" /\ CodeKind(FindReplyCode(read)) # "complaint"
    <3>1. PICK code \in Codes : EngineResult(code) = "Permanent" /\ read[i].groups = <<code>>
      <4>1. read[i] = text[i] /\ i \in 1..Len(text)
        BY <1>1, <1>3
      <4>2. read[i].groups # <<>>
        BY <2>2
      <4> QED
        BY <1>2, <4>1, <4>2
    <3>2. FindReplyCode(read) = code
      BY <2>2, <3>1
    <3>3. code \in 100..999
      BY InputAssumption
    <3>4. ~(code >= 500)
      BY <3>1, <3>3 DEF EngineResult
    <3> QED
      BY <3>2, <3>3, <3>4 DEF CodeKind
  <2> HIDE DEF read
  <2> QED
    BY <1>1, <2>1, <2>2, CodeFound DEF IsReplyCode
<1>7. Classify(text, FALSE) = CodeKind(FindReplyCode(read))
  BY <1>5, ClassifyKinds
<1> QED
  BY <1>6, <1>7 DEF Suppresses

(* A text that suppresses without a complaint begins with a permanent      *)
(* verdict.                                                                *)
LEMMA SuppressionHasCause ==
  ASSUME NEW text \in Seq(AnyWord), NEW reported \in BOOLEAN,
         Suppresses(Classify(text, reported)), ~reported, NoAddresses(text)
  PROVE  FirstIsPermanent(text)
<1> DEFINE read == Truncated(text)
<1>1. /\ read \in Seq(AnyWord) /\ Len(read) = Min({Len(text), ReportCap})
      /\ \A i \in 1..Len(read) : read[i] = text[i]
  BY TruncatedText
<1>k. /\ FindEnhancedStatus(read) # <<>> =>
           Classify(text, reported) = StatusKind(FindEnhancedStatus(read))
      /\ FindEnhancedStatus(read) = <<>> =>
           Classify(text, reported) = CodeKind(FindReplyCode(read))
  BY ClassifyKinds
<1> HIDE DEF read
<1>p. Parsed(text) = 1..Len(read)
  BY <1>1 DEF Parsed
<1>s. Statuses(text) = {i \in 1..Len(read) : StatusStarts(read[i].groups) # {}}
  BY <1>1, <1>p DEF Statuses
<1>c. Replies(text) = {i \in 1..Len(read) : IsReplyCode(read[i])}
  BY <1>1, <1>p DEF Replies
<1>2. CASE FindEnhancedStatus(read) # <<>>
  <2>1. StatusKind(FindEnhancedStatus(read)) = "hard"
    BY <1>k, <1>2 DEF Suppresses, StatusKind
  <2>0. PICK i \in 1..Len(read) : \E k \in StatusStarts(read[i].groups) :
          /\ FindEnhancedStatus(read) = SubSeq(read[i].groups, k, k + 2)
          /\ \A j \in 1..Len(read) : StatusStarts(read[j].groups) # {} => i <= j
    BY <1>1, <1>2, StatusFound
  <2>2. PICK k \in StatusStarts(read[i].groups) :
          FindEnhancedStatus(read) = SubSeq(read[i].groups, k, k + 2)
    BY <2>0
  <2> DEFINE g == read[i].groups
  <2>3. g \in Seq(Nat)
    BY <1>1, WordType
  <2>4. k \in 1..Len(g) /\ k + 2 <= Len(g)
    BY <2>2, <2>3 DEF StatusStarts, ParsesStatus
  <2>5. Len(g) <= 3
    BY <1>1, <1>p DEF NoAddresses
  <2>6. k \in StatusStarts(g) /\ FindEnhancedStatus(read) = SubSeq(g, k, k + 2)
    BY <2>2
  <2>7. i \in Statuses(text) /\ \A j \in Statuses(text) : i <= j
    BY <1>s, <2>0, <2>6
  <2>g. g = text[i].groups
    BY <1>1
  <2> HIDE DEF g
  <2>8. k = 1 /\ Len(g) = 3
    <3>1. Len(g) \in Nat
      BY <2>3
    <3>2. \A n, m \in Nat : 1 <= m /\ m + 2 <= n /\ n <= 3 => m = 1 /\ n = 3
      OBVIOUS
    <3>3. k \in Nat /\ 1 <= k
      BY <2>4, <3>1
    <3> QED
      BY <2>4, <2>5, <3>1, <3>2, <3>3, Zenon
  <2>9. SubSeq(g, k, k + 2) = g
    BY <2>3, <2>8
  <2>10. LeadDigit(g[1]) = 5 /\ g \notin softStatus
    BY <2>1, <2>6, <2>9, HardStatuses
  <2> QED
    BY <2>7, <2>10, <2>g DEF FirstIsPermanent
<1>3. CASE FindEnhancedStatus(read) = <<>>
  <2>1. CodeKind(FindReplyCode(read)) \in {"hard", "complaint"}
    BY <1>k, <1>3 DEF Suppresses
  <2>2. FindReplyCode(read) # 0
    BY <2>1 DEF CodeKind
  <2>3. PICK i \in 1..Len(read) :
          /\ IsReplyCode(read[i])
          /\ FindReplyCode(read) = read[i].groups[1]
          /\ \A j \in 1..Len(read) : IsReplyCode(read[j]) => i <= j
    BY <1>1, <2>2, CodeFound
  <2>4. PICK code \in 200..599 : read[i].groups[1] = code
    BY <2>3 DEF IsReplyCode
  <2>5. code >= 500
    BY <2>1, <2>3, <2>4 DEF CodeKind
  <2>6. i \in Replies(text) /\ \A j \in Replies(text) : i <= j
    BY <1>c, <2>3
  <2>7. text[i].groups[1] >= 500
    <3>1. read[i] = text[i]
      BY <1>1
    <3> QED
      BY <2>4, <2>5, <3>1
  <2>8. Statuses(text) = {}
    <3>1. ASSUME NEW j \in 1..Len(read), NEW k \in StatusStarts(read[j].groups),
                 FindEnhancedStatus(read) = SubSeq(read[j].groups, k, k + 2)
          PROVE  FALSE
      <4> DEFINE g == read[j].groups
      <4>1. g \in Seq(Nat)
        BY <1>1, WordType
      <4>2. k \in 1..Len(g) /\ k + 2 <= Len(g)
        BY <3>1, <4>1 DEF StatusStarts, ParsesStatus
      <4>3. SubSeq(g, k, k + 2) = <<>>
        BY <1>3, <3>1
      <4> HIDE DEF g
      <4>4. Len(SubSeq(g, k, k + 2)) = 3
        BY <4>1, <4>2
      <4>5. Len(<<>>) # 3
        OBVIOUS
      <4> QED
        BY <4>3, <4>4, <4>5, Zenon
    <3>2. \A j \in 1..Len(read) : StatusStarts(read[j].groups) = {}
      BY <1>1, <3>1, StatusFound
    <3> QED
      BY <1>s, <3>2
  <2> QED
    BY <2>6, <2>7, <2>8 DEF FirstIsPermanent
<1> QED
  BY <1>2, <1>3

(* A text whose only status is listed as temporary is a soft bounce. *)
LEMMA TemporaryIsSoft ==
  ASSUME NEW text \in Seq(AnyWord), NEW status \in softStatus,
         NEW i \in 1..Min({Len(text), ReportCap}), text[i].groups = status,
         \A j \in 1..Len(text) : j # i => Len(text[j].groups) < 3
  PROVE  Classify(text, FALSE) = "soft"
<1> DEFINE read == Truncated(text)
<1>1. /\ read \in Seq(AnyWord) /\ Len(read) = Min({Len(text), ReportCap})
      /\ Min({Len(text), ReportCap}) \in Nat
      /\ Min({Len(text), ReportCap}) <= Len(text)
      /\ \A j \in 1..Len(read) : read[j] = text[j]
  BY TruncatedText
<1>2. /\ status \in Seq(Nat) /\ Len(status) = 3
      /\ \A j \in 1..3 : status[j] <= 999
      /\ LeadDigit(status[1]) \in {4, 5}
      /\ status \notin hardStatus
  BY SoftStatuses
<1>3. i \in 1..Len(read) /\ read[i].groups = status
  BY <1>1
<1>4. StatusStarts(status) = {1}
  BY <1>2 DEF StatusStarts, ParsesStatus
<1>5. ASSUME NEW j \in 1..Len(read), j # i PROVE StatusStarts(read[j].groups) = {}
  <2>1. read[j] \in AnyWord /\ read[j] = text[j] /\ j \in 1..Len(text)
    <3> HIDE DEF read
    <3>1. Len(read) \in Nat /\ Len(read) <= Len(text)
      BY <1>1
    <3>2. read[j] \in AnyWord
      BY <1>1
    <3>3. read[j] = text[j]
      BY <1>1
    <3>4. j \in 1..Len(text)
      BY <3>1
    <3> QED
      BY <3>2, <3>3, <3>4
  <2>2. read[j].groups \in Seq(Nat)
    BY <2>1, WordType
  <2>3. Len(text[j].groups) < 3
    BY <1>5, <2>1
  <2>4. Len(read[j].groups) < 3
    <3> HIDE DEF read
    <3> QED
      BY <2>1, <2>3
  <2> QED
    BY <2>2, <2>4, ShortWords
<1> HIDE DEF read
<1>6. \E j \in 1..Len(read) : \E k \in StatusStarts(read[j].groups) :
        FindEnhancedStatus(read) = SubSeq(read[j].groups, k, k + 2)
  <2>1. StatusStarts(read[i].groups) # {}
    <3>1. StatusStarts(read[i].groups) = {1}
      BY <1>3, <1>4
    <3> QED
      BY <3>1
  <2> QED
    BY <1>1, <1>3, <2>1, StatusFound
<1>7. FindEnhancedStatus(read) = SubSeq(status, 1, 1 + 2)
  <2>1. PICK j \in 1..Len(read) : \E k \in StatusStarts(read[j].groups) :
          FindEnhancedStatus(read) = SubSeq(read[j].groups, k, k + 2)
    BY <1>6
  <2>2. PICK k \in StatusStarts(read[j].groups) :
          FindEnhancedStatus(read) = SubSeq(read[j].groups, k, k + 2)
    BY <2>1
  <2>3. j = i
    BY <1>5, <2>2
  <2>4. k = 1
    BY <1>3, <1>4, <2>2, <2>3
  <2> QED
    BY <1>3, <2>2, <2>3, <2>4
<1>8. SubSeq(status, 1, 1 + 2) = status
  BY <1>2
<1>9. FindEnhancedStatus(read) = status /\ status # <<>>
  <2>1. FindEnhancedStatus(read) = status
    BY <1>7, <1>8
  <2>2. ASSUME status = <<>> PROVE FALSE
    <3>1. Len(status) = 0
      BY <2>2
    <3> QED
      BY <1>2, <3>1
  <2> QED
    BY <2>1, <2>2
<1>10. Classify(text, FALSE) = StatusKind(status)
  BY <1>9, ClassifyKinds DEF read
<1> QED
  BY <1>2, <1>10 DEF StatusKind

(* The engine's own answers suppress nobody, nothing but a complaint or a  *)
(* permanent first verdict does, and no listed temporary condition.        *)
THEOREM BouncesAreReadAsWritten == Spec => []SuppressionFollowsTheText
<1>1. ASSUME BounceInv PROVE SuppressionFollowsTheText
  <2> SUFFICES ASSUME Classified PROVE SuppressionFollowsTheText
    BY DEF SuppressionFollowsTheText, EngineStatusIsNoBounce, FirstVerdictDecides,
           ListedTemporaryIsSoft
  <2>1. /\ input.said \in Seq(AnyWord) /\ input.complaint \in BOOLEAN
        /\ input.source = "engine" => ~input.complaint /\ EngineText(input.said)
        /\ result = Classify(input.said, input.complaint)
    BY <1>1 DEF Classified, BounceInv
  <2>2. EngineStatusIsNoBounce
    <3>1. ASSUME input.source = "engine" PROVE ~Suppresses(result)
      <4>1. input.complaint = FALSE
        BY <2>1, <3>1
      <4> QED
        BY <2>1, <3>1, <4>1, EngineIsNoBounce
    <3> QED
      BY <3>1 DEF EngineStatusIsNoBounce
  <2>3. FirstVerdictDecides
    BY <2>1, SuppressionHasCause DEF FirstVerdictDecides
  <2>4. ListedTemporaryIsSoft
    <3>1. ASSUME ~input.complaint, NEW status \in softStatus, OnlyStatus(status)
          PROVE  result = "soft"
      <4>1. PICK i \in 1..Min({Len(input.said), ReportCap}) :
              /\ input.said[i].groups = status
              /\ \A j \in 1..Len(input.said) : j # i => Len(input.said[j].groups) < 3
        BY <3>1 DEF OnlyStatus
      <4>2. input.complaint = FALSE
        BY <2>1, <3>1
      <4>3. Classify(input.said, FALSE) = "soft"
        BY <2>1, <4>1, TemporaryIsSoft
      <4> QED
        BY <2>1, <4>2, <4>3
    <3> QED
      BY <3>1 DEF ListedTemporaryIsSoft
  <2> QED
    BY <2>2, <2>3, <2>4 DEF SuppressionFollowsTheText
<1> QED
  BY <1>1, InitBounce, NextBounce, PTL DEF Spec

-----------------------------------------------------------------------------
(* Texts. FlattenSeq and what is made with it, character by character.     *)

(* FlattenSeq goes through its argument from the left. *)
LEMMA FlattenSteps ==
  ASSUME NEW T, NEW seqs \in Seq(Seq(T)), Len(seqs) > 0
  PROVE  \E f \in [1..Len(seqs) -> Seq(T)] :
           /\ FlattenSeq(seqs) = f[Len(seqs)]
           /\ f[1] = seqs[1]
           /\ \A i \in 1..Len(seqs) : i # 1 => f[i] = f[i - 1] \o seqs[i]
<1> DEFINE N == Len(seqs)
           D == 1..N
           V == Seq(T)
           Is(f) == f = [i \in D |-> IF i = 1 THEN seqs[i] ELSE f[i - 1] \o seqs[i]]
           c == CHOOSE f : Is(f)
<1>n. N \in Nat /\ N > 0 /\ 1 \in D /\ N \in D
  OBVIOUS
<1>s. \A i \in D : seqs[i] \in V
  OBVIOUS
<1>c. \A u, v \in V : u \o v \in V
  OBVIOUS
<1>p. \A i \in D : i \in Nat /\ (i # 1 => i - 1 \in D /\ i - 1 < i)
  OBVIOUS
<1> HIDE DEF N, D
<1>1. \E f : Is(f)
  <2> DEFINE F == [D -> V]
             m == [i \in D |-> i]
             Body(i, f) == IF i = 1 THEN seqs[i] ELSE f[i - 1] \o seqs[i]
             B == [p \in D \X F |-> Body(p[1], p[2])]
  <2>1. m \in [D -> Nat] /\ V # {}
    <3>1. <<>> \in V
      OBVIOUS
    <3> QED
      BY <1>p, <3>1
  <2>2. B \in [D \X F -> V] /\ \A i \in D, f \in F : B[<<i, f>>] = Body(i, f)
    <3>1. ASSUME NEW i \in D, NEW f \in F PROVE Body(i, f) \in V
      BY <1>s, <1>c, <1>p
    <3> HIDE DEF F, V, Body
    <3> QED
      BY <3>1
  <2>3. ASSUME NEW i \in D, NEW f \in F, NEW g \in F,
               \A j \in D : m[j] < m[i] => f[j] = g[j]
        PROVE  B[<<i, f>>] = B[<<i, g>>]
    <3>1. i # 1 => f[i - 1] = g[i - 1]
      BY <1>p, <2>3
    <3>2. Body(i, f) = Body(i, g)
      BY <3>1
    <3> HIDE DEF F, B, Body
    <3> QED
      BY <2>2, <3>2
  <2>4. Descends(D, V, m, B)
    <3> HIDE DEF m, B, V
    <3> QED
      BY <2>1, <2>2, <2>3 DEF Descends
  <2>5. HasFunction(D, V, B)
    <3> HIDE DEF m, B, V
    <3> QED
      BY <2>4, Recursion
  <2>6. PICK f \in F : \A i \in D : f[i] = B[<<i, f>>]
    <3> HIDE DEF m, B, V
    <3> QED
      BY <2>5 DEF HasFunction
  <2>7. ASSUME NEW i \in D PROVE f[i] = IF i = 1 THEN seqs[i] ELSE f[i - 1] \o seqs[i]
    <3>1. f[i] = Body(i, f)
      <4> HIDE DEF F, B, Body
      <4> QED
        BY <2>2, <2>6
    <3> QED
      BY <3>1
  <2>8. Is(f)
    <3>1. DOMAIN f = D /\ f = [i \in D |-> f[i]]
      OBVIOUS
    <3> QED
      BY <2>7, <3>1
  <2> QED
    BY <2>8
<1>2. Is(c)
  <2> HIDE DEF Is
  <2> QED
    BY <1>1, Zenon
<1> HIDE DEF c
<1>3. /\ c[1] = seqs[1]
      /\ \A i \in D : i # 1 => c[i] = c[i - 1] \o seqs[i]
      /\ c = [i \in D |-> c[i]]
  BY <1>2, <1>n
<1>4. \A i \in D : c[i] \in V
  <2> DEFINE P == {n \in Nat : n + 1 \in D => c[n + 1] \in V}
  <2>1. 0 \in P
    BY <1>3, <1>s, <1>n
  <2>2. ASSUME NEW n \in P PROVE n + 1 \in P
    <3>1. ASSUME n + 2 \in D PROVE c[n + 2] \in V
      <4>1. n + 1 \in D /\ (n + 2) - 1 = n + 1 /\ n + 2 # 1
        BY <1>n, <3>1 DEF D
      <4>2. c[n + 1] \in V
        BY <4>1
      <4>3. c[n + 2] = c[n + 1] \o seqs[n + 2]
        BY <1>3, <3>1, <4>1
      <4> HIDE DEF V
      <4> QED
        BY <1>c, <1>s, <3>1, <4>2, <4>3
    <3>2. (n + 1) + 1 = n + 2
      OBVIOUS
    <3> QED
      BY <3>1, <3>2
  <2>3. P = Nat
    <3>1. P \in SUBSET Nat
      OBVIOUS
    <3> HIDE DEF P
    <3> QED
      BY <2>1, <2>2, <3>1, Induction
  <2>4. ASSUME NEW i \in D PROVE c[i] \in V
    <3>1. i - 1 \in Nat /\ (i - 1) + 1 = i
      BY <1>n DEF D
    <3>2. i - 1 \in P
      BY <2>3, <3>1
    <3> QED
      BY <3>1, <3>2
  <2> QED
    BY <2>4
<1>5. c \in [D -> V]
  <2> HIDE DEF V
  <2> QED
    BY <1>3, <1>4
<1>6. FlattenSeq(seqs) = c[N]
  BY <1>n DEF FlattenSeq, c, N, D
<1> QED
  BY <1>3, <1>5, <1>6 DEF N, D

(* A sequence that is not empty, without its last element. *)
LEMMA SeqFront ==
  ASSUME NEW T, NEW s \in Seq(T), Len(s) > 0
  PROVE  \E r \in Seq(T) : \E c \in T : Len(r) = Len(s) - 1 /\ s = Append(r, c)
<1> DEFINE r == SubSeq(s, 1, Len(s) - 1)
<1>1. r \in Seq(T) /\ Len(r) = Len(s) - 1
  OBVIOUS
<1>2. s[Len(s)] \in T /\ s = Append(r, s[Len(s)])
  OBVIOUS
<1> HIDE DEF r
<1> QED
  BY <1>1, <1>2

(* A set of sequences that holds the empty one and, with each, its         *)
(* extensions holds all.                                                   *)
LEMMA SeqInduction ==
  ASSUME NEW T, NEW Q \in SUBSET Seq(T), <<>> \in Q,
         \A s \in Q : \A c \in T : Append(s, c) \in Q
  PROVE  Q = Seq(T)
<1> DEFINE P == {n \in Nat : \A s \in Seq(T) : Len(s) = n => s \in Q}
<1>1. 0 \in P
  <2>1. \A s \in Seq(T) : Len(s) = 0 => s = <<>>
    OBVIOUS
  <2> QED
    BY <2>1
<1>2. ASSUME NEW n \in P PROVE n + 1 \in P
  <2>1. ASSUME NEW s \in Seq(T), Len(s) = n + 1 PROVE s \in Q
    <3>0. n \in Nat /\ Len(s) > 0 /\ Len(s) - 1 = n
      BY <2>1
    <3>1. PICK r \in Seq(T) : \E c \in T : Len(r) = Len(s) - 1 /\ s = Append(r, c)
      BY <3>0, SeqFront
    <3>2. r \in Q
      BY <3>0, <3>1
    <3> QED
      BY <3>1, <3>2
  <2> QED
    BY <2>1
<1>3. P \in SUBSET Nat
  OBVIOUS
<1>4. P = Nat
  <2> HIDE DEF P
  <2> QED
    BY <1>1, <1>2, <1>3, Induction
<1>5. ASSUME NEW s \in Seq(T) PROVE s \in Q
  <2>1. Len(s) \in P
    BY <1>4
  <2> QED
    BY <2>1
<1> QED
  BY <1>5

(* FlattenSeq, as a sequence grows. *)
LEMMA FlattenEmpty == FlattenSeq(<<>>) = <<>>
  BY DEF FlattenSeq

(* Texts put together are a text. *)
LEMMA FlattenType ==
  ASSUME NEW T, NEW seqs \in Seq(Seq(T))
  PROVE  FlattenSeq(seqs) \in Seq(T)
<1>1. CASE Len(seqs) = 0
  <2>1. seqs = <<>>
    BY <1>1
  <2>2. <<>> \in Seq(T)
    OBVIOUS
  <2> QED
    BY <2>1, <2>2, FlattenEmpty, Zenon
<1>2. CASE Len(seqs) > 0
  <2>1. PICK f \in [1..Len(seqs) -> Seq(T)] : FlattenSeq(seqs) = f[Len(seqs)]
    BY <1>2, FlattenSteps
  <2>2. Len(seqs) \in 1..Len(seqs)
    BY <1>2
  <2> QED
    BY <2>1, <2>2, Zenon
<1> QED
  BY <1>1, <1>2

(* One more text comes last. *)
LEMMA FlattenAppend ==
  ASSUME NEW T, NEW seqs \in Seq(Seq(T)), NEW last \in Seq(T)
  PROVE  FlattenSeq(Append(seqs, last)) = FlattenSeq(seqs) \o last
<1> DEFINE more == Append(seqs, last)
           N == Len(seqs)
<1>0. /\ more \in Seq(Seq(T)) /\ Len(more) = N + 1 /\ N \in Nat
      /\ \A i \in 1..N : more[i] = seqs[i]
      /\ more[N + 1] = last
  OBVIOUS
<1> HIDE DEF more
<1>1. PICK g \in [1..Len(more) -> Seq(T)] :
        /\ FlattenSeq(more) = g[Len(more)]
        /\ g[1] = more[1]
        /\ \A i \in 1..Len(more) : i # 1 => g[i] = g[i - 1] \o more[i]
  <2>1. Len(more) > 0 /\ more \in Seq(Seq(T))
    BY <1>0
  <2> QED
    BY <2>1, FlattenSteps, Zenon
<1>2. CASE N = 0
  <2>1. seqs = <<>>
    BY <1>2
  <2>2. FlattenSeq(more) = last
    BY <1>0, <1>1, <1>2
  <2> QED
    BY <2>1, <2>2, FlattenEmpty DEF more
<1>3. CASE N # 0
  <2>1. PICK f \in [1..N -> Seq(T)] :
          /\ FlattenSeq(seqs) = f[N]
          /\ f[1] = seqs[1]
          /\ \A i \in 1..N : i # 1 => f[i] = f[i - 1] \o seqs[i]
    <3>1. Len(seqs) > 0
      BY <1>0, <1>3
    <3> QED
      BY <3>1, FlattenSteps, Zenon
  <2> DEFINE P == {n \in Nat : n + 1 \in 1..N => f[n + 1] = g[n + 1]}
  <2>2. 0 \in P
    BY <1>0, <1>1, <1>3, <2>1
  <2>3. ASSUME NEW n \in P PROVE n + 1 \in P
    <3>1. ASSUME (n + 1) + 1 \in 1..N PROVE f[(n + 1) + 1] = g[(n + 1) + 1]
      <4>1. /\ n + 1 \in 1..N /\ n + 2 \in 1..N /\ n + 2 \in 1..Len(more) /\ n + 2 # 1
            /\ (n + 2) - 1 = n + 1 /\ (n + 1) + 1 = n + 2
        BY <1>0, <3>1
      <4>2. f[n + 2] = f[n + 1] \o seqs[n + 2] /\ g[n + 2] = g[n + 1] \o more[n + 2]
        BY <1>1, <2>1, <4>1
      <4>3. f[n + 1] = g[n + 1]
        BY <2>3, <4>1
      <4> QED
        BY <1>0, <4>1, <4>2, <4>3
    <3> QED
      BY <3>1
  <2>4. P \in SUBSET Nat
    OBVIOUS
  <2>5. P = Nat
    <3> HIDE DEF P
    <3> QED
      BY <2>2, <2>3, <2>4, Induction
  <2>6. f[N] = g[N]
    <3>1. N - 1 \in Nat /\ (N - 1) + 1 = N /\ N \in 1..N
      BY <1>0, <1>3
    <3>2. N - 1 \in P
      <4> HIDE DEF P
      <4> QED
        BY <2>5, <3>1
    <3> QED
      BY <3>1, <3>2
  <2>7. g[N + 1] = g[N] \o more[N + 1]
    <3>1. N + 1 \in 1..Len(more) /\ N + 1 # 1 /\ (N + 1) - 1 = N
      BY <1>0, <1>3
    <3> QED
      BY <1>1, <3>1
  <2> QED
    BY <1>0, <1>1, <2>1, <2>6, <2>7 DEF more
<1> QED
  BY <1>2, <1>3

(* A text in which each character is replaced by a text. *)
Spread(s, h) == FlattenSeq([i \in 1..Len(s) |-> h[s[i]]])

(* The result is a text. *)
LEMMA SpreadType ==
  ASSUME NEW T, NEW U, NEW h \in [T -> Seq(U)], NEW s \in Seq(T)
  PROVE  Spread(s, h) \in Seq(U)
<1>1. [i \in 1..Len(s) |-> h[s[i]]] \in Seq(Seq(U))
  OBVIOUS
<1> QED
  BY <1>1, FlattenType DEF Spread

(* Nothing becomes nothing. *)
LEMMA SpreadEmpty == ASSUME NEW h PROVE Spread(<<>>, h) = <<>>
<1>1. [i \in 1..Len(<<>>) |-> h[<<>>[i]]] = <<>>
  OBVIOUS
<1> QED
  BY <1>1, FlattenEmpty DEF Spread

(* One more character comes last. *)
LEMMA SpreadAppend ==
  ASSUME NEW T, NEW U, NEW h \in [T -> Seq(U)], NEW s \in Seq(T), NEW c \in T
  PROVE  Spread(Append(s, c), h) = Spread(s, h) \o h[c]
<1> DEFINE hs == [i \in 1..Len(s) |-> h[s[i]]]
           more == [i \in 1..Len(Append(s, c)) |-> h[Append(s, c)[i]]]
<1>1. hs \in Seq(Seq(U)) /\ h[c] \in Seq(U)
  OBVIOUS
<1>2. more = Append(hs, h[c])
  OBVIOUS
<1> QED
  BY <1>1, <1>2, FlattenAppend DEF Spread

(* The parts of a text become the parts of the result. *)
LEMMA SpreadConcat ==
  ASSUME NEW T, NEW U, NEW h \in [T -> Seq(U)], NEW s \in Seq(T), NEW t \in Seq(T)
  PROVE  Spread(s \o t, h) = Spread(s, h) \o Spread(t, h)
<1> DEFINE Q == {x \in Seq(T) : Spread(s \o x, h) = Spread(s, h) \o Spread(x, h)}
<1>0. Spread(s, h) \in Seq(U)
  BY SpreadType
<1>1. <<>> \in Q
  <2>1. s \o <<>> = s /\ Spread(s, h) \o <<>> = Spread(s, h)
    BY <1>0
  <2>2. Spread(s \o <<>>, h) = Spread(s, h) \o Spread(<<>>, h)
    BY <2>1, SpreadEmpty, Zenon
  <2>3. <<>> \in Seq(T)
    OBVIOUS
  <2> QED
    BY <2>2, <2>3, Zenon
<1>2. ASSUME NEW x \in Q, NEW c \in T PROVE Append(x, c) \in Q
  <2>1. /\ x \in Seq(T) /\ s \o x \in Seq(T) /\ Append(x, c) \in Seq(T)
        /\ s \o Append(x, c) = Append(s \o x, c)
    OBVIOUS
  <2>2. /\ Spread(Append(s \o x, c), h) = Spread(s \o x, h) \o h[c]
        /\ Spread(Append(x, c), h) = Spread(x, h) \o h[c]
    BY <2>1, SpreadAppend
  <2>3. Spread(s \o x, h) = Spread(s, h) \o Spread(x, h)
    OBVIOUS
  <2>4. Spread(x, h) \in Seq(U) /\ h[c] \in Seq(U)
    BY <2>1, SpreadType
  <2>5. (Spread(s, h) \o Spread(x, h)) \o h[c] = Spread(s, h) \o (Spread(x, h) \o h[c])
    BY <1>0, <2>4
  <2> QED
    BY <2>1, <2>2, <2>3, <2>5
<1>3. Q \in SUBSET Seq(T)
  OBVIOUS
<1>4. Q = Seq(T)
  <2> HIDE DEF Q
  <2> QED
    BY <1>1, <1>2, <1>3, SeqInduction
<1> QED
  BY <1>4

(* The characters of a text. *)
LEMMA SeqElements ==
  ASSUME NEW T, NEW s \in Seq(T)
  PROVE  Len(s) \in Nat /\ \A i \in 1..Len(s) : s[i] \in T
  OBVIOUS

(* A text followed by a text is a text. *)
LEMMA ConcatType ==
  ASSUME NEW T, NEW s \in Seq(T), NEW t \in Seq(T)
  PROVE  s \o t \in Seq(T)
  OBVIOUS

(* A text and a character are a text. *)
LEMMA AppendType ==
  ASSUME NEW T, NEW s \in Seq(T), NEW c \in T
  PROVE  Append(s, c) \in Seq(T)
  OBVIOUS

(* A character is a text. *)
LEMMA OneSeq == ASSUME NEW T, NEW a \in T PROVE <<a>> \in Seq(T)
  OBVIOUS

(* Four characters are a text. *)
LEMMA FourSeq ==
  ASSUME NEW T, NEW a \in T, NEW b \in T, NEW c \in T, NEW d \in T
  PROVE  <<a, b, c, d>> \in Seq(T)
  OBVIOUS

(* Five characters are a text. *)
LEMMA FiveSeq ==
  ASSUME NEW T, NEW a \in T, NEW b \in T, NEW c \in T, NEW d \in T, NEW e \in T
  PROVE  <<a, b, c, d, e>> \in Seq(T)
  OBVIOUS

(* A part of a text. *)
LEMMA SubSeqFacts ==
  ASSUME NEW T, NEW s \in Seq(T), NEW a \in Nat, a > 0, NEW b \in Int, b <= Len(s)
  PROVE  /\ SubSeq(s, a, b) \in Seq(T)
         /\ Len(SubSeq(s, a, b)) = IF a <= b THEN b - a + 1 ELSE 0
         /\ \A i \in 1..Len(SubSeq(s, a, b)) : SubSeq(s, a, b)[i] = s[a + i - 1]
  OBVIOUS

(* The text that replaces a character, when marks are replaced. *)
Put(T, v) == [c \in T |-> IF c = "mark" THEN v ELSE <<c>>]

(* Replaced goes through a text character by character. *)
LEMMA ReplacedSpread ==
  ASSUME NEW T, NEW v \in Seq(T), NEW s \in Seq(T)
  PROVE  Replaced(s, v) = Spread(s, Put(T, v)) /\ Put(T, v) \in [T -> Seq(T)]
<1>1. Put(T, v) \in [T -> Seq(T)]
  BY DEF Put
<1>2. \A i \in 1..Len(s) : s[i] \in T
  OBVIOUS
<1>3. [i \in 1..Len(s) |-> IF s[i] = "mark" THEN v ELSE <<s[i]>>]
        = [i \in 1..Len(s) |-> Put(T, v)[s[i]]]
  BY <1>2 DEF Put
<1> QED
  BY <1>1, <1>3 DEF Replaced, Spread

(* Marks are replaced in each part of a text. *)
LEMMA ReplacedConcat ==
  ASSUME NEW v \in Seq(Chars), NEW s \in Seq(Chars), NEW t \in Seq(Chars)
  PROVE  /\ Replaced(s, v) \in Seq(Chars)
         /\ Replaced(s \o t, v) = Replaced(s, v) \o Replaced(t, v)
<1>1. s \o t \in Seq(Chars)
  OBVIOUS
<1>2. /\ Replaced(s, v) = Spread(s, Put(Chars, v))
      /\ Replaced(t, v) = Spread(t, Put(Chars, v))
      /\ Replaced(s \o t, v) = Spread(s \o t, Put(Chars, v))
      /\ Put(Chars, v) \in [Chars -> Seq(Chars)]
  BY <1>1, ReplacedSpread
<1>3. Spread(s, Put(Chars, v)) \in Seq(Chars)
  BY <1>2, SpreadType, Zenon
<1>4. Spread(s \o t, Put(Chars, v)) = Spread(s, Put(Chars, v)) \o Spread(t, Put(Chars, v))
  BY <1>2, SpreadConcat, Zenon
<1> QED
  BY <1>2, <1>3, <1>4, Zenon

(* A mark becomes the value. *)
LEMMA ReplacedMark ==
  ASSUME NEW T, "mark" \in T, NEW v \in Seq(T)
  PROVE  Replaced(<<"mark">>, v) = v
<1>1. <<"mark">> \in Seq(T) /\ <<>> \in Seq(T) /\ <<"mark">> = Append(<<>>, "mark")
  OBVIOUS
<1>2. Replaced(<<"mark">>, v) = Spread(<<"mark">>, Put(T, v)) /\ Put(T, v) \in [T -> Seq(T)]
  BY <1>1, ReplacedSpread
<1>3. Spread(Append(<<>>, "mark"), Put(T, v)) = Spread(<<>>, Put(T, v)) \o Put(T, v)["mark"]
  BY <1>1, <1>2, SpreadAppend, Zenon
<1>4. Put(T, v)["mark"] = v /\ <<>> \o v = v
  BY DEF Put
<1> QED
  BY <1>1, <1>2, <1>3, <1>4, SpreadEmpty, Zenon

(* A text without marks stays as it is. *)
LEMMA ReplacedPlain ==
  ASSUME NEW T, NEW v \in Seq(T), NEW s \in Seq(T \ {"mark"})
  PROVE  Replaced(s, v) = s
<1> DEFINE U == T \ {"mark"}
           Q == {x \in Seq(U) : Replaced(x, v) = x}
<1>0. \A x \in Seq(U) : x \in Seq(T)
  OBVIOUS
<1>1. <<>> \in Q
  <2>1. <<>> \in Seq(U) /\ <<>> \in Seq(T)
    OBVIOUS
  <2>2. Replaced(<<>>, v) = Spread(<<>>, Put(T, v))
    BY <2>1, ReplacedSpread
  <2> QED
    BY <2>1, <2>2, SpreadEmpty, Zenon
<1>2. ASSUME NEW x \in Q, NEW c \in U PROVE Append(x, c) \in Q
  <2>1. /\ x \in Seq(T) /\ c \in T /\ Append(x, c) \in Seq(T) /\ Append(x, c) \in Seq(U)
        /\ Append(x, c) = x \o <<c>>
    BY <1>0
  <2>2. /\ Replaced(x, v) = Spread(x, Put(T, v))
        /\ Replaced(Append(x, c), v) = Spread(Append(x, c), Put(T, v))
        /\ Put(T, v) \in [T -> Seq(T)]
    BY <2>1, ReplacedSpread
  <2>3. Spread(Append(x, c), Put(T, v)) = Spread(x, Put(T, v)) \o Put(T, v)[c]
    BY <2>1, <2>2, SpreadAppend
  <2>4. Put(T, v)[c] = <<c>>
    BY <2>1 DEF Put
  <2>5. Replaced(x, v) = x
    OBVIOUS
  <2> HIDE DEF U
  <2> QED
    BY <2>1, <2>2, <2>3, <2>4, <2>5, Zenon
<1>3. Q \in SUBSET Seq(U)
  OBVIOUS
<1>4. Q = Seq(U)
  <2> HIDE DEF Q, U
  <2> QED
    BY <1>1, <1>2, <1>3, SeqInduction
<1> QED
  BY <1>4

(* What html.EscapeString writes for a character. *)
Entity(T) ==
  [c \in T |-> CASE c = "<" -> <<"&", "l", "t", ";">>
                 [] c = ">" -> <<"&", "g", "t", ";">>
                 [] c = "&" -> <<"&", "a", "m", "p", ";">>
                 [] OTHER   -> <<c>>]

(* Escape goes through a text character by character. *)
LEMMA EscapeSpread ==
  ASSUME NEW T, NEW s \in Seq(T)
  PROVE  Escape(s) = Spread(s, Entity(T))
<1>1. \A i \in 1..Len(s) : s[i] \in T
  OBVIOUS
<1>2. [i \in 1..Len(s) |->
        CASE s[i] = "<" -> <<"&", "l", "t", ";">>
          [] s[i] = ">" -> <<"&", "g", "t", ";">>
          [] s[i] = "&" -> <<"&", "a", "m", "p", ";">>
          [] OTHER      -> <<s[i]>>] = [i \in 1..Len(s) |-> Entity(T)[s[i]]]
  BY <1>1 DEF Entity
<1> QED
  BY <1>2 DEF Escape, Spread

(* What Escape writes has no angle brackets. *)
LEMMA EscapeType ==
  ASSUME NEW T, NEW U, NEW s \in Seq(T), T \ {"<", ">"} \subseteq U,
         {"a", "m", "p", "l", "t", "g", "&", ";"} \subseteq U
  PROVE  Escape(s) \in Seq(U)
<1>1. Entity(T) \in [T -> Seq(U)]
  <2>0. /\ "a" \in U /\ "m" \in U /\ "p" \in U /\ "l" \in U /\ "t" \in U /\ "g" \in U
        /\ "&" \in U /\ ";" \in U
    OBVIOUS
  <2>1. ASSUME NEW c \in T PROVE Entity(T)[c] \in Seq(U)
    <3>1. CASE c = "<"
      <4>1. Entity(T)[c] = <<"&", "l", "t", ";">>
        BY <3>1 DEF Entity
      <4> QED
        BY <2>0, <4>1, FourSeq, Zenon
    <3>2. CASE c = ">"
      <4>1. Entity(T)[c] = <<"&", "g", "t", ";">>
        BY <3>2 DEF Entity
      <4> QED
        BY <2>0, <4>1, FourSeq, Zenon
    <3>3. CASE c = "&"
      <4>1. Entity(T)[c] = <<"&", "a", "m", "p", ";">>
        BY <3>3 DEF Entity
      <4>2. "&" \in U /\ "a" \in U /\ "m" \in U /\ "p" \in U /\ ";" \in U
        BY <2>0
      <4>3. <<"&", "a", "m", "p", ";">> \in Seq(U)
        BY <4>2, FiveSeq
      <4> QED
        BY <4>1, <4>3, Zenon
    <3>4. CASE c \notin {"<", ">", "&"}
      <4>1. Entity(T)[c] = <<c>>
        BY <3>4 DEF Entity
      <4>2. c \in U
        BY <3>4
      <4> QED
        BY <4>1, <4>2, OneSeq, Zenon
    <3> QED
      BY <3>1, <3>2, <3>3, <3>4
  <2> QED
    BY <2>1 DEF Entity
<1>4. Escape(s) = Spread(s, Entity(T))
  BY EscapeSpread
<1> QED
  <2>1. Spread(s, Entity(T)) \in Seq(U)
    BY <1>1, SpreadType
  <2> QED
    BY <1>4, <2>1, Zenon

(* Nothing is escaped to nothing. *)
LEMMA EscapeEmpty == Escape(<<>>) = <<>>
<1>1. <<>> \in Seq({})
  OBVIOUS
<1> QED
  BY <1>1, EscapeSpread, SpreadEmpty, Zenon

(* A character twice in a row. *)
PairAt(s, c, i) == i \in 1..Len(s) /\ i + 1 \in 1..Len(s) /\ s[i] = c /\ s[i + 1] = c

(* IndexPair finds the first pair, if there is one. *)
LEMMA FoundPair ==
  ASSUME NEW T, NEW s \in Seq(T), NEW c
  PROVE  /\ IndexPair(s, c) \in 0..Len(s)
         /\ IndexPair(s, c) = 0 => \A i \in Nat : ~PairAt(s, c, i)
         /\ IndexPair(s, c) # 0 => PairAt(s, c, IndexPair(s, c))
         /\ \A i \in Nat : i < IndexPair(s, c) => ~PairAt(s, c, i)
<1> DEFINE found == {i \in Places(s, {c}) : i + 1 \in Places(s, {c})}
<1>1. /\ found \in SUBSET Nat
      /\ found \in SUBSET (0..Len(s))
      /\ \A i : i \in found <=> PairAt(s, c, i)
  BY DEF Places, PairAt
<1>2. IndexPair(s, c) = IF found = {} THEN 0 ELSE Min(found)
  BY DEF IndexPair
<1> HIDE DEF found
<1>3. CASE found = {}
  <2>1. IndexPair(s, c) = 0
    BY <1>2, <1>3
  <2>2. Len(s) \in Nat
    OBVIOUS
  <2>3. \A i \in Nat : ~PairAt(s, c, i)
    BY <1>1, <1>3, Zenon
  <2> QED
    BY <2>1, <2>2, <2>3
<1>4. CASE found # {}
  <2>1. Min(found) \in found /\ \A y \in found : Min(found) <= y
    BY <1>1, <1>4, LeastExists
  <2>2. IndexPair(s, c) = Min(found)
    BY <1>2, <1>4
  <2>3. IndexPair(s, c) \in 0..Len(s) /\ PairAt(s, c, IndexPair(s, c))
    BY <1>1, <2>1, <2>2
  <2>4. IndexPair(s, c) # 0
    BY <2>3 DEF PairAt
  <2>5. ASSUME NEW i \in Nat, i < IndexPair(s, c) PROVE ~PairAt(s, c, i)
    <3>1. ~(IndexPair(s, c) <= i)
      BY <2>3, <2>5
    <3> QED
      BY <1>1, <2>1, <2>2, <3>1
  <2> QED
    BY <2>3, <2>4, <2>5
<1> QED
  BY <1>3, <1>4

(* The greatest of some numbers up to a bound. *)
LEMMA GreatestExists ==
  ASSUME NEW n \in Nat, NEW S \in SUBSET (0..n), S # {}
  PROVE  Max(S) \in S /\ \A y \in S : y <= Max(S)
<1> DEFINE R == {k \in Nat : n - k \in S}
<1>1. R \in SUBSET Nat /\ R # {}
  <2>1. PICK x \in S : TRUE
    OBVIOUS
  <2>2. n - x \in R
    BY <2>1
  <2> QED
    BY <2>2
<1>2. Min(R) \in R /\ \A y \in R : Min(R) <= y
  <2> HIDE DEF R
  <2> QED
    BY <1>1, LeastExists
<1> DEFINE g == n - Min(R)
<1>3. g \in S
  BY <1>2
<1>4. ASSUME NEW y \in S PROVE g >= y
  <2>1. n - y \in R /\ y \in Nat
    OBVIOUS
  <2>2. Min(R) <= n - y /\ Min(R) \in Nat
    <3> HIDE DEF R
    <3> QED
      BY <1>1, <1>2, <2>1
  <2> QED
    BY <2>1, <2>2
<1> HIDE DEF g
<1>5. \E x \in S : \A y \in S : x >= y
  BY <1>3, <1>4
<1>6. Max(S) \in S /\ \A y \in S : Max(S) >= y
  BY <1>5, Zenon DEF Max
<1> QED
  BY <1>6

(* strings.TrimSpace cuts off white space at both ends, and nothing else. *)
LEMMA Trimmed ==
  ASSUME NEW T, NEW s \in Seq(T)
  PROVE  \/ TrimSpace(s) = <<>> /\ \A i \in 1..Len(s) : s[i] \in Blank
         \/ \E a, b \in 1..Len(s) :
              /\ a <= b /\ TrimSpace(s) = SubSeq(s, a, b)
              /\ s[a] \notin Blank
              /\ \A i \in 1..Len(s) : i < a \/ b < i => s[i] \in Blank
<1> DEFINE ink == 1..Len(s) \ Places(s, Blank)
           a == Min(ink)
           b == Max(ink)
<1>0. TrimSpace(s) = IF ink = {} THEN <<>> ELSE SubSeq(s, a, b)
  BY DEF TrimSpace
<1>1. \A i : i \in ink <=> i \in 1..Len(s) /\ s[i] \notin Blank
  BY DEF Places
<1>2. ink \in SUBSET Nat /\ ink \in SUBSET (0..Len(s)) /\ Len(s) \in Nat
  OBVIOUS
<1> HIDE DEF ink
<1>3. CASE ink = {}
  BY <1>0, <1>1, <1>3
<1>4. CASE ink # {}
  <2>1. a \in ink /\ \A y \in ink : a <= y
    BY <1>2, <1>4, LeastExists
  <2>2. b \in ink /\ \A y \in ink : y <= b
    BY <1>2, <1>4, GreatestExists
  <2>3. TrimSpace(s) = SubSeq(s, a, b)
    BY <1>0, <1>4
  <2> HIDE DEF a, b
  <2>4. a \in 1..Len(s) /\ b \in 1..Len(s) /\ a <= b /\ s[a] \notin Blank
    BY <1>1, <2>1, <2>2
  <2>5. ASSUME NEW i \in 1..Len(s), i < a \/ b < i PROVE s[i] \in Blank
    <3>1. ~(a <= i) \/ ~(i <= b)
      BY <2>4, <2>5
    <3>2. i \notin ink
      BY <2>1, <2>2, <3>1
    <3> QED
      BY <1>1, <3>2
  <2> QED
    BY <2>3, <2>4, <2>5
<1> QED
  BY <1>3, <1>4

(* A trimmed text is a text. *)
LEMMA TrimType ==
  ASSUME NEW T, NEW s \in Seq(T)
  PROVE  TrimSpace(s) \in Seq(T)
<1>1. \/ TrimSpace(s) = <<>>
      \/ \E a, b \in 1..Len(s) : a <= b /\ TrimSpace(s) = SubSeq(s, a, b)
  BY Trimmed
<1>2. <<>> \in Seq(T)
  OBVIOUS
<1>3. ASSUME NEW a \in 1..Len(s), NEW b \in 1..Len(s), a <= b PROVE SubSeq(s, a, b) \in Seq(T)
  BY <1>3
<1> QED
  BY <1>1, <1>2, <1>3, Zenon

(* What is found in front of, in and after the first tag. *)
LEMMA TagFound ==
  ASSUME NEW T, NEW rest \in Seq(T)
  PROVE  LET t == Tag(rest) IN
         \/ t = [kind |-> "none"] /\ IndexPair(rest, "{") = 0
         \/ t = [kind |-> "unclosed"] /\ IndexPair(rest, "{") # 0
         \/ /\ t \in [kind : {"tag"}, before : Seq(T), name : Seq(T), after : Seq(T)]
            /\ Len(t.after) < Len(rest)
            /\ IndexPair(rest, "{") # 0
            /\ t.before = SubSeq(rest, 1, IndexPair(rest, "{") - 1)
<1> DEFINE open    == IndexPair(rest, "{")
           from    == SubSeq(rest, open, Len(rest))
           closing == IndexPair(from, "}")
           name    == TrimSpace(SubSeq(from, 3, closing - 1))
           before  == SubSeq(rest, 1, open - 1)
           after   == SubSeq(from, closing + 2, Len(from))
<1>0. open \in 0..Len(rest) /\ Len(rest) \in Nat
  BY FoundPair, SeqElements, Zenon
<1>1. Tag(rest) = CASE open = 0                -> [kind |-> "none"]
                    [] open # 0 /\ closing = 0 -> [kind |-> "unclosed"]
                    [] OTHER -> [kind |-> "tag", before |-> before, name |-> name,
                                 after |-> after]
  BY DEF Tag
<1>2. CASE open = 0
  <2>1. Tag(rest) = [kind |-> "none"]
    BY <1>1, <1>2
  <2> QED
    BY <1>2, <2>1
<1>3. CASE open # 0 /\ closing = 0
  <2>1. Tag(rest) = [kind |-> "unclosed"]
    BY <1>1, <1>3
  <2> QED
    BY <1>3, <2>1
<1>4. CASE open # 0 /\ closing # 0
  <2> HIDE DEF open
  <2>0. open \in Nat /\ open > 0 /\ Len(rest) \in Int /\ Len(rest) <= Len(rest)
        /\ open - 1 \in Int /\ open - 1 <= Len(rest) /\ 1 \in Nat /\ 1 > 0
    <3>1. open # 0
      BY <1>4
    <3> QED
      BY <1>0, <3>1
  <2>1. from \in Seq(T) /\ Len(from) \in Nat /\ Len(from) <= Len(rest)
    <3>1. /\ from \in Seq(T)
          /\ Len(from) = IF open <= Len(rest) THEN Len(rest) - open + 1 ELSE 0
      BY <2>0, SubSeqFacts, Zenon
    <3> HIDE DEF from
    <3> QED
      BY <1>0, <2>0, <3>1
  <2>2. before \in Seq(T)
    BY <2>0, SubSeqFacts, Zenon
  <2> HIDE DEF from
  <2>3. closing \in 0..Len(from)
    BY <2>1, FoundPair, Zenon
  <2> HIDE DEF closing
  <2>c. /\ closing + 2 \in Nat /\ closing + 2 > 0 /\ Len(from) \in Int /\ Len(from) <= Len(from)
        /\ 3 \in Nat /\ 3 > 0 /\ closing - 1 \in Int /\ closing - 1 <= Len(from)
    BY <1>4, <2>1, <2>3
  <2>4. after \in Seq(T) /\ Len(after) < Len(rest)
    <3>1. /\ after \in Seq(T)
          /\ Len(after) = IF closing + 2 <= Len(from) THEN Len(from) - (closing + 2) + 1 ELSE 0
      BY <2>1, <2>c, SubSeqFacts, Zenon
    <3> HIDE DEF after
    <3> QED
      BY <1>0, <1>4, <2>0, <2>1, <2>3, <3>1
  <2>5. SubSeq(from, 3, closing - 1) \in Seq(T)
    BY <2>1, <2>c, SubSeqFacts, Zenon
  <2>6. name \in Seq(T)
    BY <2>5, TrimType
  <2>7. Tag(rest) = [kind |-> "tag", before |-> before, name |-> name, after |-> after]
    BY <1>1, <1>4
  <2> HIDE DEF before, name, after
  <2>8. /\ Tag(rest) \in [kind : {"tag"}, before : Seq(T), name : Seq(T), after : Seq(T)]
        /\ Tag(rest).after = after /\ Tag(rest).before = before
    BY <2>2, <2>4, <2>6, <2>7
  <2> QED
    BY <1>4, <2>4, <2>8, Zenon DEF before, open
<1> QED
  BY <1>2, <1>3, <1>4

-----------------------------------------------------------------------------
(* Templates. What Render finds next and what it comes to.                 *)

(* There is no tag, one that is not closed, or a tag. *)
LEMMA TagKinds ==
  ASSUME NEW T, NEW rest \in Seq(T)
  PROVE  /\ Tag(rest).kind \in {"none", "unclosed", "tag"}
         /\ Tag(rest).kind = "none" => IndexPair(rest, "{") = 0
<1>1. CASE Tag(rest) = [kind |-> "none"] /\ IndexPair(rest, "{") = 0
  <2>0. Tag(rest) = [kind |-> "none"]
    BY <1>1, Zenon
  <2>1. Tag(rest).kind = "none"
    BY <2>0
  <2> QED
    BY <1>1, <2>1, Zenon
<1>2. CASE Tag(rest) = [kind |-> "unclosed"]
  BY <1>2
<1>3. CASE Tag(rest) \in [kind : {"tag"}, before : Seq(T), name : Seq(T), after : Seq(T)]
  BY <1>3
<1> QED
  BY <1>1, <1>2, <1>3, TagFound, Zenon

(* A tag leaves less than there was. *)
LEMMA TagParts ==
  ASSUME NEW T, NEW rest \in Seq(T), Tag(rest).kind = "tag"
  PROVE  /\ Tag(rest).before \in Seq(T) /\ Tag(rest).name \in Seq(T)
         /\ Tag(rest).after \in Seq(T) /\ Len(Tag(rest).after) < Len(rest)
         /\ IndexPair(rest, "{") # 0
         /\ Tag(rest).before = SubSeq(rest, 1, IndexPair(rest, "{") - 1)
<1>1. Tag(rest) # [kind |-> "none"] /\ Tag(rest) # [kind |-> "unclosed"]
  OBVIOUS
<1>2. /\ Tag(rest) \in [kind : {"tag"}, before : Seq(T), name : Seq(T), after : Seq(T)]
      /\ Len(Tag(rest).after) < Len(rest)
      /\ IndexPair(rest, "{") # 0
      /\ Tag(rest).before = SubSeq(rest, 1, IndexPair(rest, "{") - 1)
  BY <1>1, TagFound, Zenon
<1>3. /\ Tag(rest).before \in Seq(T) /\ Tag(rest).name \in Seq(T)
      /\ Tag(rest).after \in Seq(T)
  BY <1>2
<1> QED
  BY <1>2, <1>3, Zenon

(* What Render writes for the variable. *)
Written(v, escape) == IF escape THEN Escape(v) ELSE v

(* It is a text. *)
LEMMA WrittenType ==
  ASSUME NEW v \in Seq(Chars), NEW escape \in BOOLEAN
  PROVE  Written(v, escape) \in Seq(Chars)
<1>1. Escape(v) \in Seq(Chars)
  <2>1. Chars \ {"<", ">"} \subseteq Chars
    OBVIOUS
  <2> QED
    BY <2>1, TemplateAssumption, EscapeType, Zenon
<1> QED
  BY <1>1, Zenon DEF Written

(* What Render finds next, when the variable "a" is the only one. *)
Finds(s) ==
  LET t == Tag(s.rest) IN
  IF t.kind # "tag" THEN t.kind
  ELSE IF ~ValidName(t.name) THEN "name"
  ELSE IF t.name # <<"a">> THEN "unknown"
  ELSE IF s.tags = MaxTags THEN "tags" ELSE "value"

(* How far it is after the next tag. *)
After(s, val) ==
  [rest |-> Tag(s.rest).after, out |-> (s.out \o Tag(s.rest).before) \o val, tags |-> s.tags + 1]

(* What Render may answer. *)
Whys   == {"none", "template", "variables", "unclosed", "name", "unknown", "tags", "output"}
Answer == [ok : BOOLEAN, why : Whys, text : Seq(Chars)]

(* What a run of the loop comes to, in terms of what later runs come to. *)
Comes(f, val, s) ==
  IF Finds(s) = "none" THEN Done(s.out \o s.rest)
  ELSE IF Finds(s) # "value" THEN Failed(Finds(s))
  ELSE IF Len(After(s, val).out) > MaxOutput THEN Failed("output")
  ELSE f[After(s, val)]

(* The parts of the progress of Render. *)
LEMMA ProgressType ==
  ASSUME NEW s \in Progress
  PROVE  /\ s.rest \in Seq(Chars) /\ s.out \in Seq(Chars) /\ s.tags \in 0..MaxTags
         /\ Len(s.rest) \in Nat /\ s.tags \in Nat
         /\ s = [rest |-> s.rest, out |-> s.out, tags |-> s.tags]
<1>1. /\ s.rest \in Seq(Chars) /\ s.out \in Seq(Chars) /\ s.tags \in 0..MaxTags
      /\ s = [rest |-> s.rest, out |-> s.out, tags |-> s.tags]
  BY DEF Progress
<1>2. MaxTags \in Nat
  BY TemplateAssumption
<1> QED
  BY <1>1, <1>2

(* There is always something to find: nothing, an error or a value. *)
LEMMA FindsOne ==
  ASSUME NEW s \in Progress
  PROVE  Finds(s) \in {"none", "unclosed", "name", "unknown", "tags", "value"}
<1>1. s.rest \in Seq(Chars)
  BY ProgressType
<1>2. Tag(s.rest).kind \in {"none", "unclosed", "tag"}
  BY <1>1, TagKinds, Zenon
<1> QED
  BY <1>2 DEF Finds

(* After a tag less is left. *)
LEMMA AfterType ==
  ASSUME NEW s \in Progress, NEW val \in Seq(Chars), Finds(s) = "value"
  PROVE  /\ After(s, val) \in Progress
         /\ Len(After(s, val).rest) < Len(s.rest)
         /\ Tag(s.rest).before \in Seq(Chars) /\ Tag(s.rest).after \in Seq(Chars)
         /\ After(s, val).rest = Tag(s.rest).after
         /\ After(s, val).out = (s.out \o Tag(s.rest).before) \o val
         /\ After(s, val).tags = s.tags + 1
<1> DEFINE t == Tag(s.rest)
<1>1. s.rest \in Seq(Chars) /\ s.out \in Seq(Chars) /\ s.tags \in 0..MaxTags
  BY ProgressType
<1>2. t.kind = "tag" /\ s.tags # MaxTags
  <2>1. t.kind \in {"none", "unclosed", "tag"}
    BY <1>1, TagKinds, Zenon
  <2> HIDE DEF t
  <2> QED
    BY <2>1 DEF Finds, t
<1>3. /\ t.before \in Seq(Chars) /\ t.after \in Seq(Chars)
      /\ Len(t.after) < Len(s.rest)
  BY <1>1, <1>2, TagParts, Zenon
<1> HIDE DEF t
<1>4. (s.out \o t.before) \o val \in Seq(Chars)
  BY <1>1, <1>3
<1>5. s.tags + 1 \in 0..MaxTags
  <2>1. MaxTags \in Nat
    BY TemplateAssumption
  <2> QED
    BY <1>1, <1>2, <2>1
<1>6. After(s, val) = [rest |-> t.after, out |-> (s.out \o t.before) \o val, tags |-> s.tags + 1]
  BY DEF After, t
<1>7. After(s, val) \in Progress
  BY <1>3, <1>4, <1>5, <1>6 DEF Progress
<1>8. /\ After(s, val).rest = t.after
      /\ After(s, val).out = (s.out \o t.before) \o val
      /\ After(s, val).tags = s.tags + 1
  <2> DEFINE a == t.after
             b == (s.out \o t.before) \o val
             c == s.tags + 1
             p == After(s, val)
  <2>1. p = [rest |-> a, out |-> b, tags |-> c]
    BY <1>6
  <2> HIDE DEF a, b, c, p
  <2>2. p.rest = a /\ p.out = b /\ p.tags = c
    BY <2>1
  <2> QED
    BY <2>2, Zenon DEF a, b, c, p
<1> QED
  BY <1>3, <1>7, <1>8, Zenon DEF t

(* The loop answers. *)
LEMMA ComesType ==
  ASSUME NEW f, NEW val \in Seq(Chars), NEW s \in Progress,
         Finds(s) = "value" => f[After(s, val)] \in Answer
  PROVE  Comes(f, val, s) \in Answer
<1>0. \A why \in Whys : Failed(why) \in Answer
  BY DEF Failed, Answer
<1>1. \A text \in Seq(Chars) : Done(text) \in Answer
  <2> SUFFICES ASSUME NEW text \in Seq(Chars) PROVE Done(text) \in Answer
    OBVIOUS
  <2>1. Failed("output") \in Answer
    BY <1>0 DEF Whys
  <2>2. [ok |-> TRUE, why |-> "none", text |-> text] \in Answer
    BY DEF Answer, Whys
  <2> QED
    BY <2>1, <2>2 DEF Done
<1>2. s.out \o s.rest \in Seq(Chars)
  <2>1. s.out \in Seq(Chars) /\ s.rest \in Seq(Chars)
    BY ProgressType
  <2> QED
    BY <2>1
<1>4. Finds(s) \in Whys \cup {"value"}
  BY FindsOne DEF Whys
<1>5. Failed("output") \in Answer
  BY <1>0 DEF Whys
<1>6. Finds(s) # "value" => Failed(Finds(s)) \in Answer
  BY <1>0, <1>4
<1> QED
  BY <1>1, <1>2, <1>5, <1>6, Zenon DEF Comes

(* Where the loop of Render starts. *)
Start(tmpl) == [rest |-> tmpl, out |-> <<>>, tags |-> 0]

(* f says what the loop of Render comes to from anywhere. *)
Scans(f, val) == f \in [Progress -> Answer] /\ \A s \in Progress : f[s] = Comes(f, val, s)

(* The body of the loop is Comes. *)
LEMMA ScanBody ==
  ASSUME NEW v \in Seq(Chars), NEW escape \in BOOLEAN, NEW f, NEW s \in Progress
  PROVE  (LET t == Tag(s.rest) IN
          CASE t.kind = "none"     -> Done(s.out \o s.rest)
            [] t.kind = "unclosed" -> Failed("unclosed")
            [] OTHER ->
                 IF ~ValidName(t.name) THEN Failed("name")
                 ELSE IF t.name \notin DOMAIN With(v) THEN Failed("unknown")
                 ELSE LET value == IF escape THEN Escape(With(v)[t.name])
                                             ELSE With(v)[t.name]
                          sofar == s.out \o t.before \o value
                      IN CASE s.tags + 1 > MaxTags      -> Failed("tags")
                           [] s.tags < MaxTags /\ Len(sofar) > MaxOutput -> Failed("output")
                           [] OTHER -> f[[rest |-> t.after, out |-> sofar,
                                          tags |-> s.tags + 1]])
         = Comes(f, Written(v, escape), s)
<1> DEFINE t == Tag(s.rest)
           val == Written(v, escape)
           value == IF escape THEN Escape(With(v)[t.name]) ELSE With(v)[t.name]
           sofar == s.out \o t.before \o value
           next == f[[rest |-> t.after, out |-> sofar, tags |-> s.tags + 1]]
           over == s.tags + 1 > MaxTags
           long == Len(sofar) > MaxOutput
           Tagged == CASE over -> Failed("tags")
                       [] s.tags < MaxTags /\ long -> Failed("output")
                       [] OTHER -> next
           Body == CASE t.kind = "none"     -> Done(s.out \o s.rest)
                     [] t.kind = "unclosed" -> Failed("unclosed")
                     [] OTHER ->
                          IF ~ValidName(t.name) THEN Failed("name")
                          ELSE IF t.name \notin DOMAIN With(v) THEN Failed("unknown")
                          ELSE Tagged
<1>1. t.kind \in {"none", "unclosed", "tag"}
  <2>1. s.rest \in Seq(Chars)
    BY ProgressType
  <2> QED
    BY <2>1, TagKinds, Zenon
<1>2. DOMAIN With(v) = {<<"a">>} /\ With(v)[<<"a">>] = v
  BY DEF With
<1>3. s.tags \in Nat /\ s.tags <= MaxTags /\ MaxTags \in Nat
  <2>1. s.tags \in 0..MaxTags
    BY ProgressType
  <2>2. MaxTags \in Nat
    BY TemplateAssumption
  <2> QED
    BY <2>1, <2>2
<1>4. (over <=> s.tags = MaxTags) /\ (s.tags < MaxTags <=> s.tags # MaxTags)
  BY <1>3
<1>5. t.name = <<"a">> => value = val
  BY <1>2, Zenon DEF Written
<1> HIDE DEF value, val
<1>6. t.name = <<"a">> => next = f[After(s, val)] /\ sofar = After(s, val).out
  <2> SUFFICES ASSUME t.name = <<"a">> PROVE next = f[After(s, val)] /\ sofar = After(s, val).out
    OBVIOUS
  <2>1. value = val
    BY <1>5
  <2> DEFINE o == (s.out \o t.before) \o val
             n == s.tags + 1
             a == t.after
  <2>2. After(s, val) = [rest |-> a, out |-> o, tags |-> n] /\ sofar = o
    BY <2>1, Zenon DEF After
  <2>3. next = f[[rest |-> a, out |-> o, tags |-> n]]
    BY <2>1, Zenon
  <2> HIDE DEF o, n, a, sofar, next
  <2>4. After(s, val).out = o
    <3> DEFINE p == After(s, val)
    <3>1. p = [rest |-> a, out |-> o, tags |-> n]
      BY <2>2
    <3> HIDE DEF p
    <3>2. p.out = o
      BY <3>1
    <3> QED
      BY <3>2 DEF p
  <2> QED
    BY <2>2, <2>3, <2>4, Zenon
<1> HIDE DEF next, sofar, over
<1>7. t.name = <<"a">> /\ s.tags # MaxTags =>
        Tagged = IF Len(After(s, val).out) > MaxOutput THEN Failed("output") ELSE f[After(s, val)]
  <2> HIDE DEF t
  <2> QED
    BY <1>4, <1>6
<1>8. s.tags = MaxTags => Tagged = Failed("tags")
  BY <1>4, Zenon
<1> HIDE DEF Tagged
<1>9. Body = Comes(f, val, s)
  <2> HIDE DEF t
  <2>1. Finds(s) = IF t.kind # "tag" THEN t.kind
                   ELSE IF ~ValidName(t.name) THEN "name"
                   ELSE IF t.name # <<"a">> THEN "unknown"
                   ELSE IF s.tags = MaxTags THEN "tags" ELSE "value"
    BY DEF Finds, t
  <2>2. CASE t.kind = "none"
    BY <2>1, <2>2 DEF Comes
  <2>3. CASE t.kind = "unclosed"
    BY <2>1, <2>3 DEF Comes
  <2>4. CASE t.kind = "tag" /\ ~ValidName(t.name)
    BY <2>1, <2>4 DEF Comes
  <2>5. CASE t.kind = "tag" /\ ValidName(t.name) /\ t.name # <<"a">>
    BY <1>2, <2>1, <2>5 DEF Comes
  <2>6. CASE t.kind = "tag" /\ ValidName(t.name) /\ t.name = <<"a">> /\ s.tags = MaxTags
    BY <1>2, <1>8, <2>1, <2>6 DEF Comes
  <2>7. CASE t.kind = "tag" /\ ValidName(t.name) /\ t.name = <<"a">> /\ s.tags # MaxTags
    BY <1>2, <1>7, <2>1, <2>7 DEF Comes
  <2> QED
    BY <1>1, <2>2, <2>3, <2>4, <2>5, <2>6, <2>7
<1> QED
  BY <1>9 DEF Tagged, over, next, sofar, value, val

(* The loop of Render is such a function. *)
LEMMA ScanLoop ==
  ASSUME NEW v \in Seq(Chars), NEW escape \in BOOLEAN
  PROVE  \E f : /\ Scans(f, Written(v, escape))
                /\ \A tmpl : Scan(tmpl, With(v), escape) = f[Start(tmpl)]
<1> DEFINE val == Written(v, escape)
           Body(f, s) ==
             LET t == Tag(s.rest) IN
             CASE t.kind = "none"     -> Done(s.out \o s.rest)
               [] t.kind = "unclosed" -> Failed("unclosed")
               [] OTHER ->
                    IF ~ValidName(t.name) THEN Failed("name")
                    ELSE IF t.name \notin DOMAIN With(v) THEN Failed("unknown")
                    ELSE LET value == IF escape THEN Escape(With(v)[t.name])
                                                ELSE With(v)[t.name]
                             sofar == s.out \o t.before \o value
                         IN CASE s.tags + 1 > MaxTags      -> Failed("tags")
                              [] s.tags < MaxTags /\ Len(sofar) > MaxOutput -> Failed("output")
                              [] OTHER -> f[[rest |-> t.after, out |-> sofar,
                                             tags |-> s.tags + 1]]
           Is(f) == f = [s \in Progress |-> Body(f, s)]
           c == CHOOSE f : Is(f)
           F == [Progress -> Answer]
           m == [s \in Progress |-> Len(s.rest)]
           B == [p \in Progress \X F |-> Comes(p[2], val, p[1])]
<1>0. val \in Seq(Chars)
  BY WrittenType
<1>1. ASSUME NEW f, NEW s \in Progress PROVE Body(f, s) = Comes(f, val, s)
  BY ScanBody
<1>c. \A tmpl : Scan(tmpl, With(v), escape) = c[Start(tmpl)]
  BY Zenon DEF Scan, Start
<1> HIDE DEF Body, val
<1>2. \E f : Is(f)
  <2>1. m \in [Progress -> Nat] /\ \A s \in Progress : m[s] = Len(s.rest)
    BY ProgressType
  <2>2. B \in [Progress \X F -> Answer] /\ \A s \in Progress, f \in F : B[<<s, f>>] = Comes(f, val, s)
    <3>1. \A s \in Progress, f \in F : Comes(f, val, s) \in Answer
      BY <1>0, AfterType, ComesType
    <3> HIDE DEF F
    <3> QED
      BY <3>1
  <2>3. ASSUME NEW s \in Progress, NEW f \in F, NEW g \in F,
               \A x \in Progress : m[x] < m[s] => f[x] = g[x]
        PROVE  B[<<s, f>>] = B[<<s, g>>]
    <3>1. Finds(s) = "value" => f[After(s, val)] = g[After(s, val)]
      <4> SUFFICES ASSUME Finds(s) = "value" PROVE f[After(s, val)] = g[After(s, val)]
        OBVIOUS
      <4>1. After(s, val) \in Progress /\ Len(After(s, val).rest) < Len(s.rest)
        BY <1>0, AfterType
      <4> HIDE DEF m
      <4> QED
        BY <2>1, <2>3, <4>1
    <3>2. Comes(f, val, s) = Comes(g, val, s)
      BY <3>1 DEF Comes
    <3> HIDE DEF B, F
    <3> QED
      BY <2>2, <3>2
  <2>4. Answer # {}
    <3>1. Failed("name") \in Answer
      <4>1. <<>> \in Seq(Chars)
        OBVIOUS
      <4> QED
        BY <4>1 DEF Failed, Answer, Whys
    <3> QED
      BY <3>1
  <2> HIDE DEF m, B
  <2>5. Descends(Progress, Answer, m, B)
    BY <2>1, <2>2, <2>3, <2>4 DEF Descends
  <2>6. HasFunction(Progress, Answer, B)
    BY <2>5, Recursion
  <2>7. PICK f \in F : \A s \in Progress : f[s] = B[<<s, f>>]
    BY <2>6 DEF HasFunction
  <2>8. \A s \in Progress : f[s] = Body(f, s)
    <3> HIDE DEF F
    <3> QED
      BY <1>1, <2>2, <2>7
  <2>9. f = [s \in Progress |-> f[s]]
    OBVIOUS
  <2>10. Is(f)
    BY <2>8, <2>9
  <2> QED
    BY <2>10
<1>3. Is(c)
  <2> HIDE DEF Is
  <2> QED
    BY <1>2, Zenon
<1> HIDE DEF c
<1>4. c = [s \in Progress |-> Body(c, s)]
  BY <1>3
<1> HIDE DEF Is
<1>5. \A s \in Progress : c[s] = Comes(c, val, s)
  BY <1>1, <1>4
<1>6. \A s \in Progress : c[s] \in Answer
  <2> DEFINE P == {n \in Nat : \A s \in Progress : Len(s.rest) < n => c[s] \in Answer}
  <2>1. 0 \in P
    BY ProgressType
  <2>2. ASSUME NEW n \in P PROVE n + 1 \in P
    <3>1. ASSUME NEW s \in Progress, Len(s.rest) < n + 1 PROVE c[s] \in Answer
      <4>1. ASSUME Finds(s) = "value" PROVE c[After(s, val)] \in Answer
        <5>1. After(s, val) \in Progress /\ Len(After(s, val).rest) < Len(s.rest)
          BY <1>0, <4>1, AfterType
        <5>2. Len(After(s, val).rest) \in Nat /\ Len(s.rest) \in Nat /\ n \in Nat
          BY <5>1, ProgressType
        <5>3. Len(After(s, val).rest) < n
          BY <3>1, <5>1, <5>2
        <5> QED
          BY <5>1, <5>3
      <4>2. Comes(c, val, s) \in Answer
        BY <1>0, <4>1, ComesType
      <4> QED
        BY <1>5, <4>2
    <3> QED
      BY <3>1
  <2>3. P \in SUBSET Nat
    OBVIOUS
  <2>4. P = Nat
    <3> HIDE DEF P
    <3> QED
      BY <2>1, <2>2, <2>3, Induction
  <2>5. ASSUME NEW s \in Progress PROVE c[s] \in Answer
    <3>1. Len(s.rest) \in Nat
      BY ProgressType
    <3>2. Len(s.rest) + 1 \in Nat /\ Len(s.rest) < Len(s.rest) + 1
      BY <3>1
    <3>3. Len(s.rest) + 1 \in P
      <4> HIDE DEF P
      <4> QED
        BY <2>4, <3>2
    <3> QED
      BY <3>2, <3>3
  <2> QED
    BY <2>5
<1>7. c \in [Progress -> Answer]
  BY <1>4, <1>6
<1>8. Scans(c, val)
  BY <1>5, <1>7 DEF Scans
<1> QED
  BY <1>c, <1>8, Zenon DEF val

(* The loop of Tags, likewise. *)
Listing      == [rest : Seq(Chars), names : SUBSET Seq(Chars)]
NamesAfter(s) == [rest |-> Tag(s.rest).after, names |-> s.names \cup {Tag(s.rest).name}]
NoNames      == [ok |-> FALSE, names |-> {}]
Lists(g, s) ==
  IF Tag(s.rest).kind = "none" THEN [ok |-> TRUE, names |-> s.names]
  ELSE IF Tag(s.rest).kind = "unclosed" THEN NoNames
  ELSE IF ~ValidName(Tag(s.rest).name) \/ Cardinality(NamesAfter(s).names) > MaxTags THEN NoNames
  ELSE g[NamesAfter(s)]

(* The parts of the progress of Tags. *)
LEMMA ListingType ==
  ASSUME NEW s \in Listing
  PROVE  /\ s.rest \in Seq(Chars) /\ Len(s.rest) \in Nat /\ s.names \in SUBSET Seq(Chars)
         /\ NamesAfter(s).names = s.names \cup {Tag(s.rest).name}
         /\ NamesAfter(s).rest = Tag(s.rest).after
         /\ Tag(s.rest).kind = "tag" =>
              /\ NamesAfter(s) \in Listing
              /\ Len(NamesAfter(s).rest) < Len(s.rest)
<1>1. s.rest \in Seq(Chars) /\ s.names \in SUBSET Seq(Chars)
  BY DEF Listing
<1>2. Len(s.rest) \in Nat
  BY <1>1
<1> DEFINE a == Tag(s.rest).after
           n == s.names \cup {Tag(s.rest).name}
           p == NamesAfter(s)
<1>3. p = [rest |-> a, names |-> n]
  BY Zenon DEF NamesAfter
<1>4. ASSUME Tag(s.rest).kind = "tag" PROVE a \in Seq(Chars) /\ n \in SUBSET Seq(Chars) /\ Len(a) < Len(s.rest)
  <2>1. /\ a \in Seq(Chars) /\ Len(a) < Len(s.rest) /\ Tag(s.rest).name \in Seq(Chars)
    BY <1>1, <1>4, TagParts, Zenon
  <2> QED
    BY <1>1, <2>1, Zenon
<1> HIDE DEF a, n, p
<1>5. p.rest = a /\ p.names = n
  BY <1>3
<1>6. a \in Seq(Chars) /\ n \in SUBSET Seq(Chars) => p \in Listing
  BY <1>3 DEF Listing
<1> QED
  BY <1>1, <1>2, <1>4, <1>5, <1>6, Zenon DEF a, n, p

(* What the loop of Tags comes to is what Lists says of it. *)
LEMMA NamesLoop ==
  \E g : /\ \A s \in Listing : g[s] = Lists(g, s)
         /\ \A tmpl : ScanNames(tmpl) = g[[rest |-> tmpl, names |-> {}]]
<1> DEFINE Body(g, s) ==
             LET t == Tag(s.rest) IN
             CASE t.kind = "none"     -> [ok |-> TRUE, names |-> s.names]
               [] t.kind = "unclosed" -> [ok |-> FALSE, names |-> {}]
               [] OTHER ->
                    IF ~ValidName(t.name) \/ Cardinality(s.names \cup {t.name}) > MaxTags
                    THEN [ok |-> FALSE, names |-> {}]
                    ELSE g[[rest |-> t.after, names |-> s.names \cup {t.name}]]
           Is(g) == g = [s \in Listing |-> Body(g, s)]
           c == CHOOSE g : Is(g)
           V == [ok : BOOLEAN, names : SUBSET Seq(Chars)]
           F == [Listing -> V]
           m == [s \in Listing |-> Len(s.rest)]
           B == [p \in Listing \X F |-> Lists(p[2], p[1])]
<1>c. \A tmpl : ScanNames(tmpl) = c[[rest |-> tmpl, names |-> {}]]
  BY Zenon DEF ScanNames, Listing
<1>1. ASSUME NEW g, NEW s \in Listing PROVE Body(g, s) = Lists(g, s)
  <2> DEFINE t == Tag(s.rest)
             n == s.names \cup {t.name}
             next == g[[rest |-> t.after, names |-> n]]
             bad == ~ValidName(t.name) \/ Cardinality(n) > MaxTags
  <2>1. t.kind \in {"none", "unclosed", "tag"}
    BY ListingType, TagKinds, Zenon
  <2>2. NamesAfter(s).names = n /\ next = g[NamesAfter(s)]
    <3>1. NamesAfter(s).names = n
      BY ListingType, Zenon
    <3>2. next = g[NamesAfter(s)]
      BY Zenon DEF NamesAfter
    <3> QED
      BY <3>1, <3>2
  <2>3. Lists(g, s) = IF t.kind = "none" THEN [ok |-> TRUE, names |-> s.names]
                      ELSE IF t.kind = "unclosed" THEN NoNames
                      ELSE IF bad THEN NoNames ELSE next
    BY <2>2, Zenon DEF Lists
  <2>4. Body(g, s) = CASE t.kind = "none"     -> [ok |-> TRUE, names |-> s.names]
                       [] t.kind = "unclosed" -> NoNames
                       [] OTHER -> IF bad THEN NoNames ELSE next
    BY DEF NoNames
  <2> HIDE DEF Body, t, n, next, bad
  <2>5. CASE t.kind = "none"
    BY <2>3, <2>4, <2>5
  <2>6. CASE t.kind = "unclosed"
    BY <2>3, <2>4, <2>6
  <2>7. CASE t.kind = "tag"
    BY <2>3, <2>4, <2>7
  <2> QED
    BY <2>1, <2>5, <2>6, <2>7
<1> HIDE DEF Body
<1>2. \E g : Is(g)
  <2>1. m \in [Listing -> Nat] /\ \A s \in Listing : m[s] = Len(s.rest)
    BY ListingType
  <2>2. B \in [Listing \X F -> V] /\ \A s \in Listing, f \in F : B[<<s, f>>] = Lists(f, s)
    <3>1. ASSUME NEW s \in Listing, NEW f \in F PROVE Lists(f, s) \in V
      <4>1. NoNames \in V
        BY DEF NoNames
      <4>2. [ok |-> TRUE, names |-> s.names] \in V
        <5>1. s.names \in SUBSET Seq(Chars)
          BY ListingType
        <5> QED
          BY <5>1
      <4>3. Tag(s.rest).kind = "tag" => f[NamesAfter(s)] \in V
        <5>1. Tag(s.rest).kind = "tag" => NamesAfter(s) \in Listing
          BY ListingType
        <5> HIDE DEF V
        <5> QED
          BY <5>1
      <4>4. Tag(s.rest).kind \in {"none", "unclosed", "tag"}
        BY ListingType, TagKinds, Zenon
      <4> HIDE DEF V
      <4> QED
        BY <4>1, <4>2, <4>3, <4>4, Zenon DEF Lists
    <3> HIDE DEF F, V
    <3> QED
      BY <3>1
  <2>3. ASSUME NEW s \in Listing, NEW f \in F, NEW g \in F,
               \A x \in Listing : m[x] < m[s] => f[x] = g[x]
        PROVE  B[<<s, f>>] = B[<<s, g>>]
    <3>1. Tag(s.rest).kind = "tag" => f[NamesAfter(s)] = g[NamesAfter(s)]
      <4> SUFFICES ASSUME Tag(s.rest).kind = "tag" PROVE f[NamesAfter(s)] = g[NamesAfter(s)]
        OBVIOUS
      <4>1. NamesAfter(s) \in Listing /\ Len(NamesAfter(s).rest) < Len(s.rest)
        BY ListingType
      <4> HIDE DEF m
      <4> QED
        BY <2>1, <2>3, <4>1
    <3>2. Tag(s.rest).kind \in {"none", "unclosed", "tag"}
      BY ListingType, TagKinds, Zenon
    <3>3. Lists(f, s) = Lists(g, s)
      BY <3>1, <3>2 DEF Lists
    <3> HIDE DEF B, F
    <3> QED
      BY <2>2, <3>3
  <2>4. V # {}
    <3>1. NoNames \in V
      BY DEF NoNames
    <3> QED
      BY <3>1
  <2> HIDE DEF m, B, V
  <2>5. Descends(Listing, V, m, B)
    BY <2>1, <2>2, <2>3, <2>4 DEF Descends
  <2>6. HasFunction(Listing, V, B)
    BY <2>5, Recursion
  <2>7. PICK g \in F : \A s \in Listing : g[s] = B[<<s, g>>]
    BY <2>6 DEF HasFunction
  <2>8. \A s \in Listing : g[s] = Body(g, s)
    <3> HIDE DEF F
    <3> QED
      BY <1>1, <2>2, <2>7
  <2>9. g = [s \in Listing |-> g[s]]
    OBVIOUS
  <2>10. Is(g)
    BY <2>8, <2>9
  <2> QED
    BY <2>10
<1>3. Is(c)
  <2> HIDE DEF Is
  <2> QED
    BY <1>2, Zenon
<1> HIDE DEF c
<1>4. c = [s \in Listing |-> Body(c, s)]
  BY <1>3
<1> HIDE DEF Is
<1>5. \A s \in Listing : c[s] = Lists(c, s)
  BY <1>1, <1>4
<1> QED
  BY <1>c, <1>5, Zenon

(* What holds of a text when it holds of all shorter ones holds of all. *)
LEMMA ShorterInduction ==
  ASSUME NEW T, NEW Q \in SUBSET Seq(T),
         \A s \in Seq(T) : (\A x \in Seq(T) : Len(x) < Len(s) => x \in Q) => s \in Q
  PROVE  Q = Seq(T)
<1> DEFINE P == {n \in Nat : \A s \in Seq(T) : Len(s) < n => s \in Q}
<1>0. \A s \in Seq(T) : Len(s) \in Nat
  OBVIOUS
<1>1. 0 \in P
  BY <1>0
<1>2. ASSUME NEW n \in P PROVE n + 1 \in P
  <2>1. ASSUME NEW s \in Seq(T), Len(s) < n + 1 PROVE s \in Q
    <3>1. ASSUME NEW x \in Seq(T), Len(x) < Len(s) PROVE x \in Q
      <4>1. n \in Nat /\ Len(x) < n
        BY <1>0, <2>1, <3>1
      <4> QED
        BY <1>2, <4>1
    <3> QED
      BY <3>1
  <2> QED
    BY <2>1
<1>3. P \in SUBSET Nat
  OBVIOUS
<1>4. P = Nat
  <2> HIDE DEF P
  <2> QED
    BY <1>1, <1>2, <1>3, Induction
<1>5. ASSUME NEW s \in Seq(T) PROVE s \in Q
  <2>1. Len(s) + 1 \in Nat /\ Len(s) < Len(s) + 1
    BY <1>0
  <2>2. Len(s) + 1 \in P
    <3> HIDE DEF P
    <3> QED
      BY <1>4, <2>1
  <2> QED
    BY <2>1, <2>2
<1> QED
  BY <1>5

(* Errors are errors, and only a long output is one at the end. *)
LEMMA Answers ==
  /\ \A why : Failed(why).ok = FALSE /\ Failed(why).why = why
  /\ \A text : \/ /\ Done(text).ok = TRUE /\ Done(text).text = text
                  /\ ~(Len(text) > MaxOutput)
               \/ /\ Done(text).ok = FALSE /\ Done(text).why = "output"
                  /\ Len(text) > MaxOutput
<1>1. ASSUME NEW why PROVE Failed(why).ok = FALSE /\ Failed(why).why = why
  BY DEF Failed
<1>2. ASSUME NEW text, Len(text) > MaxOutput PROVE Done(text) = Failed("output")
  BY <1>2 DEF Done
<1>3. ASSUME NEW text, ~(Len(text) > MaxOutput)
      PROVE  Done(text).ok = TRUE /\ Done(text).text = text
  <2>1. Done(text) = [ok |-> TRUE, why |-> "none", text |-> text]
    BY <1>3, Zenon DEF Done
  <2> QED
    BY <2>1
<1>4. Failed("output").ok = FALSE /\ Failed("output").why = "output"
  BY DEF Failed
<1> QED
  BY <1>1, <1>2, <1>3, <1>4, Zenon

(* Tags forgets no name. *)
LEMMA NamesGrow ==
  ASSUME NEW g, \A s \in Listing : g[s] = Lists(g, s), NEW s \in Listing, g[s].ok
  PROVE  s.names \subseteq g[s].names
<1> DEFINE Q == {rest \in Seq(Chars) :
                   \A x \in Listing : x.rest = rest /\ g[x].ok => x.names \subseteq g[x].names}
<1>0. NoNames.ok = FALSE
  BY DEF NoNames
<1>1. ASSUME NEW rest \in Seq(Chars), \A y \in Seq(Chars) : Len(y) < Len(rest) => y \in Q
      PROVE  rest \in Q
  <2>1. ASSUME NEW x \in Listing, x.rest = rest, g[x].ok PROVE x.names \subseteq g[x].names
    <3>1. g[x] = Lists(g, x)
      OBVIOUS
    <3>2. Tag(x.rest).kind \in {"none", "unclosed", "tag"}
      BY ListingType, TagKinds, Zenon
    <3>3. CASE Tag(x.rest).kind = "none"
      <4>1. g[x] = [ok |-> TRUE, names |-> x.names]
        BY <3>1, <3>3, Zenon DEF Lists
      <4> QED
        BY <4>1
    <3>4. CASE Tag(x.rest).kind = "unclosed"
      <4>1. g[x] = NoNames
        BY <3>1, <3>4 DEF Lists
      <4> QED
        BY <1>0, <2>1, <4>1
    <3>5. CASE Tag(x.rest).kind = "tag"
      <4>1. g[x] = NoNames \/ g[x] = g[NamesAfter(x)]
        BY <3>1, <3>5, Zenon DEF Lists
      <4>2. g[x] # NoNames
        BY <1>0, <2>1, Zenon
      <4>3. /\ NamesAfter(x) \in Listing /\ NamesAfter(x).rest \in Seq(Chars)
            /\ Len(NamesAfter(x).rest) < Len(rest)
            /\ x.names \subseteq NamesAfter(x).names
        <5>1. NamesAfter(x) \in Listing /\ Len(NamesAfter(x).rest) < Len(x.rest)
          BY <3>5, ListingType, Zenon
        <5>2. NamesAfter(x).rest \in Seq(Chars)
          BY <5>1, ListingType, Zenon
        <5>3. x.names \subseteq NamesAfter(x).names
          BY ListingType, Zenon
        <5> QED
          BY <2>1, <5>1, <5>2, <5>3, Zenon
      <4>4. NamesAfter(x).rest \in Q
        <5> HIDE DEF Q
        <5> QED
          BY <1>1, <4>3
      <4>5. NamesAfter(x).names \subseteq g[NamesAfter(x)].names
        BY <2>1, <4>1, <4>2, <4>3, <4>4, Zenon
      <4> QED
        BY <4>1, <4>2, <4>3, <4>5, Zenon
    <3> QED
      BY <3>2, <3>3, <3>4, <3>5
  <2> QED
    BY <2>1, Zenon
<1>2. Q \in SUBSET Seq(Chars)
  OBVIOUS
<1>3. Q = Seq(Chars)
  <2> HIDE DEF Q
  <2> QED
    BY <1>1, <1>2, ShorterInduction
<1>4. s.rest \in Q
  <2>1. s.rest \in Seq(Chars)
    BY ListingType
  <2> HIDE DEF Q
  <2> QED
    BY <1>3, <2>1
<1> QED
  BY <1>4, Zenon

(* What is found says what the next tag is. *)
LEMMA FindsMeans ==
  ASSUME NEW s \in Progress
  PROVE  LET t == Tag(s.rest) IN
         /\ Finds(s) \in {"none", "unclosed"} => t.kind = Finds(s)
         /\ Finds(s) \in {"name", "unknown", "tags", "value"} => t.kind = "tag"
         /\ Finds(s) = "name" => ~ValidName(t.name)
         /\ Finds(s) \in {"unknown", "tags", "value"} => ValidName(t.name)
         /\ Finds(s) = "unknown" => t.name # <<"a">>
         /\ Finds(s) \in {"tags", "value"} => t.name = <<"a">>
         /\ Finds(s) = "value" => s.tags # MaxTags
<1> DEFINE t == Tag(s.rest)
<1>1. t.kind \in {"none", "unclosed", "tag"}
  BY ProgressType, TagKinds, Zenon
<1>2. Finds(s) = IF t.kind # "tag" THEN t.kind
                 ELSE IF ~ValidName(t.name) THEN "name"
                 ELSE IF t.name # <<"a">> THEN "unknown"
                 ELSE IF s.tags = MaxTags THEN "tags" ELSE "value"
  BY Zenon DEF Finds
<1> HIDE DEF t
<1>3. CASE t.kind = "none"
  BY <1>2, <1>3 DEF t
<1>4. CASE t.kind = "unclosed"
  BY <1>2, <1>4 DEF t
<1>5. CASE t.kind = "tag"
  <2>1. CASE ~ValidName(t.name)
    BY <1>2, <1>5, <2>1 DEF t
  <2>2. CASE ValidName(t.name) /\ t.name # <<"a">>
    BY <1>2, <1>5, <2>2 DEF t
  <2>3. CASE ValidName(t.name) /\ t.name = <<"a">> /\ s.tags = MaxTags
    BY <1>2, <1>5, <2>3 DEF t
  <2>4. CASE ValidName(t.name) /\ t.name = <<"a">> /\ s.tags # MaxTags
    BY <1>2, <1>5, <2>4 DEF t
  <2> QED
    BY <2>1, <2>2, <2>3, <2>4
<1> QED
  BY <1>1, <1>3, <1>4, <1>5

(* What the loop comes to, case by case. *)
LEMMA ComesTo ==
  ASSUME NEW f, NEW val \in Seq(Chars), Scans(f, val), NEW s \in Progress
  PROVE  /\ Finds(s) = "none" => f[s] = Done(s.out \o s.rest)
         /\ Finds(s) \in {"unclosed", "name", "unknown", "tags"} =>
              f[s].ok = FALSE /\ f[s].why = Finds(s)
         /\ Finds(s) = "value" =>
              \/ /\ Len(After(s, val).out) > MaxOutput
                 /\ f[s].ok = FALSE /\ f[s].why = "output"
              \/ /\ ~(Len(After(s, val).out) > MaxOutput)
                 /\ f[s] = f[After(s, val)]
<1>1. f[s] = Comes(f, val, s)
  BY Zenon DEF Scans
<1>2. Finds(s) = "none" => f[s] = Done(s.out \o s.rest)
  BY <1>1, Zenon DEF Comes
<1>3. Finds(s) \in {"unclosed", "name", "unknown", "tags"} => f[s] = Failed(Finds(s))
  BY <1>1 DEF Comes
<1>4. Finds(s) = "value" =>
        f[s] = IF Len(After(s, val).out) > MaxOutput THEN Failed("output") ELSE f[After(s, val)]
  BY <1>1 DEF Comes
<1> QED
  BY <1>2, <1>3, <1>4, Answers, Zenon

(* After a value the loop goes on, unless the output is too long. *)
LEMMA ComesAfter ==
  ASSUME NEW f, NEW val \in Seq(Chars), Scans(f, val), NEW s \in Progress, Finds(s) = "value"
  PROVE  \/ /\ Len(After(s, val).out) > MaxOutput
            /\ f[s].ok = FALSE /\ f[s].why = "output"
         \/ /\ ~(Len(After(s, val).out) > MaxOutput)
            /\ f[s] = f[After(s, val)]
  BY ComesTo

(* Tags accepts a template and lists no other name than "a". *)
GoodList(r) == r.ok /\ r.names \subseteq {<<"a">>}

(* Tags accepts what Render can render, and but for too many tags or too long *)
(* an output nothing else.                                                    *)
LEMMA TagsTell ==
  ASSUME NEW f, NEW val \in Seq(Chars), Scans(f, val),
         NEW g, \A y \in Listing : g[y] = Lists(g, y),
         NEW s \in Progress, NEW x \in Listing, x.rest = s.rest, x.names \subseteq {<<"a">>}
  PROVE  /\ f[s].ok => GoodList(g[x])
         /\ GoodList(g[x]) => f[s].ok \/ f[s].why \in {"tags", "output"}
<1> DEFINE Agree(r, l) == /\ r.ok => GoodList(l)
                          /\ GoodList(l) => r.ok \/ r.why \in {"tags", "output"}
           Q == {rest \in Seq(Chars) :
                   \A p \in Progress : \A y \in Listing :
                     p.rest = rest /\ y.rest = rest /\ y.names \subseteq {<<"a">>} =>
                       Agree(f[p], g[y])}
<1>0. NoNames.ok = FALSE /\ ~GoodList(NoNames)
  <2>1. NoNames.ok = FALSE
    BY DEF NoNames
  <2> QED
    BY <2>1, Zenon DEF GoodList
<1>1. ASSUME NEW rest \in Seq(Chars), \A z \in Seq(Chars) : Len(z) < Len(rest) => z \in Q
      PROVE  rest \in Q
  <2>1. ASSUME NEW p \in Progress, NEW y \in Listing, p.rest = rest, y.rest = rest,
               y.names \subseteq {<<"a">>}
        PROVE  Agree(f[p], g[y])
    <3>0. g[y] = Lists(g, y) /\ y.rest = p.rest
      BY <2>1
    <3>1. CASE Finds(p) = "none"
      <4>1. Tag(y.rest).kind = "none"
        BY <3>0, <3>1, FindsMeans
      <4>2. g[y] = [ok |-> TRUE, names |-> y.names]
        BY <3>0, <4>1, Zenon DEF Lists
      <4>3. g[y].ok = TRUE /\ g[y].names = y.names
        BY <4>2
      <4>4. GoodList(g[y])
        BY <2>1, <4>3, Zenon DEF GoodList
      <4>5. f[p] = Done(p.out \o p.rest)
        BY <3>1, ComesTo
      <4>6. f[p].ok = TRUE \/ f[p].why = "output"
        BY <4>5, Answers, Zenon
      <4> QED
        BY <4>4, <4>6
    <3>2. CASE Finds(p) = "unclosed"
      <4>1. Tag(y.rest).kind = "unclosed"
        BY <3>0, <3>2, FindsMeans
      <4>2. g[y] = NoNames
        BY <3>0, <4>1 DEF Lists
      <4>3. f[p].ok = FALSE
        BY <3>2, ComesTo
      <4> QED
        BY <1>0, <4>2, <4>3, Zenon
    <3>3. CASE Finds(p) = "name"
      <4>1. Tag(y.rest).kind = "tag" /\ ~ValidName(Tag(y.rest).name)
        BY <3>0, <3>3, FindsMeans
      <4>2. g[y] = NoNames
        BY <3>0, <4>1 DEF Lists
      <4>3. f[p].ok = FALSE
        BY <3>3, ComesTo
      <4> QED
        BY <1>0, <4>2, <4>3, Zenon
    <3>4. CASE Finds(p) = "unknown"
      <4>1. Tag(y.rest).kind = "tag" /\ Tag(y.rest).name # <<"a">>
        BY <3>0, <3>4, FindsMeans
      <4>2. g[y] = NoNames \/ g[y] = g[NamesAfter(y)]
        BY <3>0, <4>1, Zenon DEF Lists
      <4>3. ~GoodList(g[y])
        <5>1. ASSUME g[y] = g[NamesAfter(y)], GoodList(g[y]) PROVE FALSE
          <6>1. NamesAfter(y) \in Listing /\ Tag(y.rest).name \in NamesAfter(y).names
            BY <4>1, ListingType, Zenon
          <6>2. NamesAfter(y).names \subseteq g[NamesAfter(y)].names
            BY <5>1, <6>1, NamesGrow, Zenon DEF GoodList
          <6>3. Tag(y.rest).name \in {<<"a">>}
            BY <5>1, <6>1, <6>2, Zenon DEF GoodList
          <6> QED
            BY <4>1, <6>3, Zenon
        <5> QED
          BY <1>0, <4>2, <5>1, Zenon
      <4>4. f[p].ok = FALSE
        BY <3>4, ComesTo
      <4> QED
        BY <4>3, <4>4, Zenon
    <3>5. CASE Finds(p) = "tags"
      <4>1. f[p].ok = FALSE /\ f[p].why = "tags"
        BY <3>5, ComesTo
      <4> QED
        BY <4>1
    <3>6. CASE Finds(p) = "value"
      <4>1. /\ Tag(y.rest).kind = "tag" /\ ValidName(Tag(y.rest).name)
            /\ Tag(y.rest).name = <<"a">> /\ p.tags # MaxTags
        BY <3>0, <3>6, FindsMeans
      <4>2. NamesAfter(y).names = {<<"a">>}
        <5>1. NamesAfter(y).names = y.names \cup {<<"a">>}
          BY <4>1, ListingType, Zenon
        <5> QED
          BY <2>1, <5>1, Zenon
      <4>3. ~(Cardinality(NamesAfter(y).names) > MaxTags)
        <5>1. Cardinality(NamesAfter(y).names) = 1
          BY <4>2, FS_Singleton, Zenon
        <5>2. p.tags \in 0..MaxTags /\ MaxTags \in Nat /\ p.tags # MaxTags
          BY <4>1, ProgressType, TemplateAssumption
        <5> QED
          BY <5>1, <5>2
      <4>4. g[y] = g[NamesAfter(y)]
        BY <3>0, <4>1, <4>3 DEF Lists
      <4>5. /\ NamesAfter(y) \in Listing /\ NamesAfter(y).rest = Tag(y.rest).after
        BY <4>1, ListingType, Zenon
      <4> DEFINE a == After(p, val)
      <4>6. /\ a \in Progress /\ Len(a.rest) < Len(p.rest) /\ a.rest = Tag(p.rest).after
            /\ a.rest \in Seq(Chars)
        BY <3>6, AfterType, Zenon
      <4> HIDE DEF a
      <4>7. a.rest \in Q
        <5> HIDE DEF Q
        <5> QED
          BY <1>1, <2>1, <4>6
      <4>8. Agree(f[a], g[NamesAfter(y)])
        <5>1. NamesAfter(y).rest = a.rest /\ NamesAfter(y).names \subseteq {<<"a">>}
          BY <3>0, <4>2, <4>5, <4>6, Zenon
        <5> HIDE DEF Agree
        <5> QED
          BY <4>5, <4>6, <4>7, <5>1, Zenon
      <4>9. (f[p].ok = FALSE /\ f[p].why = "output") \/ f[p] = f[a]
        BY <3>6, ComesTo, Zenon DEF a
      <4>10. CASE f[p].ok = FALSE /\ f[p].why = "output"
        BY <4>10
      <4>11. CASE f[p] = f[a]
        BY <4>4, <4>8, <4>11
      <4> QED
        BY <4>9, <4>10, <4>11
    <3>7. Finds(p) \in {"none", "unclosed", "name", "unknown", "tags", "value"}
      BY FindsOne
    <3> QED
      BY <3>1, <3>2, <3>3, <3>4, <3>5, <3>6, <3>7
  <2> HIDE DEF Agree
  <2> QED
    BY <2>1, Zenon
<1>2. Q \in SUBSET Seq(Chars)
  OBVIOUS
<1>3. Q = Seq(Chars)
  <2> HIDE DEF Q
  <2> QED
    BY <1>1, <1>2, ShorterInduction
<1>4. s.rest \in Q
  <2>1. s.rest \in Seq(Chars)
    BY ProgressType
  <2> HIDE DEF Q
  <2> QED
    BY <1>3, <2>1
<1>5. Agree(f[s], g[x])
  <2> HIDE DEF Agree
  <2> QED
    BY <1>4, Zenon
<1> QED
  BY <1>5

(* The value decides nothing but the length of the output. *)
LEMMA ValuesTell ==
  ASSUME NEW val \in Seq(Chars), NEW f, Scans(f, val), NEW h, Scans(h, <<"mark">>),
         NEW p \in Progress, NEW q \in Progress, p.rest = q.rest, p.tags = q.tags,
         p.rest \in Seq(Chars \ {"mark"}), p.out = Replaced(q.out, val), h[q].ok
  PROVE  \/ f[p].ok /\ f[p].text = Replaced(h[q].text, val)
         \/ ~f[p].ok /\ f[p].why = "output"
<1> DEFINE T == Chars \ {"mark"}
           mark == <<"mark">>
           Told(r, m) == \/ r.ok /\ r.text = Replaced(m.text, val)
                         \/ ~r.ok /\ r.why = "output"
           Q == {rest \in Seq(T) :
                   \A x, y \in Progress :
                     x.rest = rest /\ y.rest = rest /\ x.tags = y.tags
                       /\ x.out = Replaced(y.out, val) /\ h[y].ok => Told(f[x], h[y])}
<1>0. mark \in Seq(Chars)
  BY InputAssumption, OneSeq, Zenon
<1>1. ASSUME NEW rest \in Seq(T), \A z \in Seq(T) : Len(z) < Len(rest) => z \in Q
      PROVE  rest \in Q
  <2>1. ASSUME NEW x \in Progress, NEW y \in Progress, x.rest = rest, y.rest = rest,
               x.tags = y.tags, x.out = Replaced(y.out, val), h[y].ok
        PROVE  Told(f[x], h[y])
    <3>0. Finds(x) = Finds(y)
      BY <2>1, Zenon DEF Finds
    <3>1. Finds(y) \notin {"unclosed", "name", "unknown", "tags"}
      BY <1>0, <2>1, ComesTo
    <3>t. /\ x.out \in Seq(Chars) /\ y.out \in Seq(Chars) /\ x.rest \in Seq(Chars)
          /\ y.rest \in Seq(Chars)
      BY ProgressType, Zenon
    <3>c. rest \in Seq(Chars)
      BY <2>1, <3>t, Zenon
    <3>2. CASE Finds(y) = "none"
      <4>0. Finds(x) = "none"
        BY <3>0, <3>2
      <4>h. h[y] = Done(y.out \o y.rest)
        BY <1>0, <3>2, ComesTo, Zenon
      <4>f. f[x] = Done(x.out \o x.rest)
        BY <4>0, ComesTo, Zenon
      <4>1. h[y] = Done(y.out \o rest) /\ f[x] = Done(x.out \o rest)
        BY <2>1, <4>h, <4>f, Zenon
      <4>2. h[y].text = y.out \o rest
        BY <2>1, <4>1, Answers, Zenon
      <4>3. x.out \o rest = Replaced(y.out \o rest, val)
        <5>1. Replaced(y.out \o rest, val) = Replaced(y.out, val) \o Replaced(rest, val)
          BY <3>c, <3>t, ReplacedConcat, Zenon
        <5>2. Replaced(rest, val) = rest
          BY ReplacedPlain
        <5> QED
          BY <2>1, <5>1, <5>2, Zenon
      <4>4. \/ f[x].ok = TRUE /\ f[x].text = x.out \o rest
            \/ f[x].ok = FALSE /\ f[x].why = "output"
        BY <4>1, Answers, Zenon
      <4> QED
        BY <4>2, <4>3, <4>4, Zenon
    <3>3. CASE Finds(y) = "value"
      <4> DEFINE b == Tag(rest).before
                 xa == After(x, val)
                 ya == After(y, mark)
      <4>1. /\ xa \in Progress /\ xa.rest = Tag(rest).after /\ xa.out = (x.out \o b) \o val
            /\ xa.tags = x.tags + 1 /\ Len(xa.rest) < Len(rest)
        <5>1. Finds(x) = "value"
          BY <3>0, <3>3
        <5>2. /\ xa \in Progress /\ xa.rest = Tag(x.rest).after
              /\ xa.out = (x.out \o Tag(x.rest).before) \o val
              /\ xa.tags = x.tags + 1 /\ Len(xa.rest) < Len(x.rest)
          BY <5>1, AfterType, Zenon
        <5> HIDE DEF xa
        <5> QED
          BY <2>1, <5>2, Zenon
      <4>2. /\ ya \in Progress /\ ya.rest = Tag(rest).after /\ ya.out = (y.out \o b) \o mark
            /\ ya.tags = y.tags + 1
        <5>1. /\ ya \in Progress /\ ya.rest = Tag(y.rest).after
              /\ ya.out = (y.out \o Tag(y.rest).before) \o mark
              /\ ya.tags = y.tags + 1
          BY <1>0, <3>3, AfterType, Zenon
        <5> HIDE DEF ya, mark
        <5> QED
          BY <2>1, <5>1, Zenon
      <4>3. Tag(rest).kind = "tag"
        BY <2>1, <3>3, FindsMeans
      <4>4. b \in Seq(T) /\ Tag(rest).after \in Seq(T)
        BY <4>3, TagParts, Zenon
      <4>b. b \in Seq(Chars)
        <5> HIDE DEF b
        <5> QED
          BY <4>4
      <4> HIDE DEF xa, ya, b
      <4>5. xa.out = Replaced(ya.out, val)
        <5>1. y.out \o b \in Seq(Chars)
          BY <3>t, <4>b
        <5>2. Replaced((y.out \o b) \o mark, val) = Replaced(y.out \o b, val) \o Replaced(mark, val)
          <6> HIDE DEF mark
          <6> QED
            BY <1>0, <5>1, ReplacedConcat, Zenon
        <5>3. Replaced(y.out \o b, val) = Replaced(y.out, val) \o Replaced(b, val)
          BY <3>t, <4>b, ReplacedConcat, Zenon
        <5>4. Replaced(b, val) = b
          BY <4>4, ReplacedPlain, Zenon
        <5>5. Replaced(mark, val) = val
          BY InputAssumption, ReplacedMark, Zenon
        <5> QED
          BY <2>1, <4>1, <4>2, <5>2, <5>3, <5>4, <5>5, Zenon
      <4>6. h[y] = h[ya]
        BY <1>0, <2>1, <3>3, ComesTo, Zenon DEF ya
      <4>7. Tag(rest).after \in Q
        <5> HIDE DEF Q, T
        <5> QED
          BY <1>1, <4>1, <4>4, Zenon
      <4>8. Told(f[xa], h[ya])
        <5>1. xa.tags = ya.tags /\ h[ya].ok
          BY <2>1, <4>1, <4>2, <4>6, Zenon
        <5> HIDE DEF Told, T
        <5> QED
          BY <4>1, <4>2, <4>5, <4>7, <5>1, Zenon
      <4>9. (f[x].ok = FALSE /\ f[x].why = "output") \/ f[x] = f[xa]
        <5>1. Finds(x) = "value"
          BY <3>0, <3>3
        <5> QED
          BY <5>1, ComesAfter, Zenon DEF xa
      <4>10. CASE f[x].ok = FALSE /\ f[x].why = "output"
        BY <4>10, Zenon
      <4>11. CASE f[x] = f[xa]
        BY <4>6, <4>8, <4>11, Zenon
      <4> QED
        BY <4>9, <4>10, <4>11, Zenon
    <3>4. Finds(y) \in {"none", "unclosed", "name", "unknown", "tags", "value"}
      BY FindsOne
    <3> HIDE DEF Told
    <3> QED
      BY <3>1, <3>2, <3>3, <3>4
  <2> HIDE DEF Told, T
  <2> QED
    BY <2>1, Zenon
<1>2. Q \in SUBSET Seq(T)
  OBVIOUS
<1>3. Q = Seq(T)
  <2> HIDE DEF Q, T
  <2> QED
    BY <1>1, <1>2, ShorterInduction
<1>4. p.rest \in Q
  <2> HIDE DEF Q
  <2> QED
    BY <1>3
<1>5. Told(f[p], h[q])
  <2> HIDE DEF Told, T
  <2> QED
    BY <1>4, Zenon
<1> QED
  BY <1>5, Zenon

(* A character never twice in a row; a character at the end. *)
NoPair(s, c) == \A i \in Nat : ~PairAt(s, c, i)
Ends(s, c)   == Len(s) > 0 /\ s[Len(s)] = c

(* Where two texts meet there is no pair unless the first ends with the    *)
(* character.                                                              *)
LEMMA PairsOfConcat ==
  ASSUME NEW T, NEW s \in Seq(T), NEW t \in Seq(T), NEW c,
         NoPair(s, c), ~Ends(s, c), NoPair(t, c)
  PROVE  NoPair(s \o t, c) /\ (Ends(s \o t, c) => Ends(t, c))
<1>0. /\ Len(s) \in Nat /\ Len(t) \in Nat /\ Len(s \o t) = Len(s) + Len(t)
      /\ \A i \in 1..Len(s) : (s \o t)[i] = s[i]
      /\ \A i \in 1..Len(t) : (s \o t)[Len(s) + i] = t[i]
  OBVIOUS
<1> DEFINE u == s \o t
           n == Len(s)
<1>u. /\ n \in Nat /\ Len(t) \in Nat /\ Len(u) = n + Len(t)
      /\ \A i \in 1..n : u[i] = s[i]
      /\ \A i \in 1..Len(u) : i > n => i - n \in 1..Len(t) /\ u[i] = t[i - n]
  <2>1. ASSUME NEW i \in 1..Len(u), i > n PROVE i - n \in 1..Len(t) /\ u[i] = t[i - n]
    <3>1. i - n \in 1..Len(t) /\ n + (i - n) = i
      BY <1>0, <2>1
    <3>2. u[n + (i - n)] = t[i - n]
      BY <1>0, <3>1
    <3> QED
      BY <3>1, <3>2
  <2> QED
    BY <1>0, <2>1
<1> HIDE DEF u
<1>1. ASSUME NEW i \in Nat, PairAt(u, c, i) PROVE FALSE
  <2>0. i \in 1..Len(u) /\ i + 1 \in 1..Len(u) /\ u[i] = c /\ u[i + 1] = c
    BY <1>1 DEF PairAt
  <2>1. CASE i + 1 <= n
    <3>1. PairAt(s, c, i)
      BY <1>u, <2>0, <2>1 DEF PairAt
    <3> QED
      BY <3>1 DEF NoPair
  <2>2. CASE i = n
    BY <1>u, <2>0, <2>2 DEF Ends
  <2>3. CASE i > n
    <3>1. i - n \in Nat /\ (i + 1) - n = (i - n) + 1 /\ i + 1 > n
      BY <1>u, <2>0, <2>3
    <3>2. PairAt(t, c, i - n)
      BY <1>u, <2>0, <2>3, <3>1 DEF PairAt
    <3> QED
      BY <3>1, <3>2 DEF NoPair
  <2> QED
    BY <1>u, <2>1, <2>2, <2>3
<1>2. ASSUME Ends(u, c) PROVE Ends(t, c)
  <2>1. Len(u) > 0 /\ u[Len(u)] = c
    BY <1>2 DEF Ends
  <2>2. CASE Len(t) = 0
    BY <1>u, <2>1, <2>2 DEF Ends
  <2>3. CASE Len(t) > 0
    <3>1. Len(u) \in 1..Len(u) /\ Len(u) > n /\ Len(u) - n = Len(t)
      BY <1>u, <2>3
    <3> QED
      BY <1>u, <2>1, <2>3, <3>1 DEF Ends
  <2> QED
    BY <1>u, <2>2, <2>3
<1> QED
  BY <1>1, <1>2 DEF NoPair, u

(* What stands before the first pair has none and does not end with half   *)
(* of one.                                                                 *)
LEMMA PairsBefore ==
  ASSUME NEW T, NEW s \in Seq(T), NEW c, IndexPair(s, c) # 0
  PROVE  LET b == SubSeq(s, 1, IndexPair(s, c) - 1) IN NoPair(b, c) /\ ~Ends(b, c)
<1> DEFINE k == IndexPair(s, c)
           b == SubSeq(s, 1, k - 1)
<1>1. k \in 1..Len(s) /\ PairAt(s, c, k) /\ \A i \in Nat : i < k => ~PairAt(s, c, i)
  BY FoundPair
<1> HIDE DEF k
<1>2. Len(b) = k - 1 /\ (\A i \in 1..(k - 1) : b[i] = s[i]) /\ Len(s) \in Nat
  BY <1>1
<1> HIDE DEF b
<1>3. ASSUME NEW i \in Nat, PairAt(b, c, i) PROVE FALSE
  <2>1. PairAt(s, c, i) /\ i < k
    BY <1>1, <1>2, <1>3 DEF PairAt
  <2> QED
    BY <1>1, <2>1
<1>4. ASSUME Ends(b, c) PROVE FALSE
  <2>1. k - 1 > 0 /\ s[k - 1] = c /\ k - 1 \in Nat /\ k - 1 < k
    BY <1>1, <1>2, <1>4 DEF Ends
  <2>2. PairAt(s, c, k - 1)
    BY <1>1, <2>1 DEF PairAt
  <2> QED
    BY <1>1, <2>1, <2>2
<1> QED
  BY <1>3, <1>4 DEF NoPair, b, k

(* Unless the value holds an opening brace, what Render returns has no "{{". *)
LEMMA NoTags ==
  ASSUME NEW val \in Seq(Chars), NoPair(val, "{"), ~Ends(val, "{"),
         NEW f, Scans(f, val), NEW s \in Progress,
         NoPair(s.out, "{"), ~Ends(s.out, "{"), f[s].ok
  PROVE  NoPair(f[s].text, "{")
<1> DEFINE c == "{"
           Clean(o) == NoPair(o, c) /\ ~Ends(o, c)
           Q == {rest \in Seq(Chars) :
                   \A x \in Progress :
                     x.rest = rest /\ Clean(x.out) /\ f[x].ok => NoPair(f[x].text, c)}
<1>1. ASSUME NEW rest \in Seq(Chars), \A z \in Seq(Chars) : Len(z) < Len(rest) => z \in Q
      PROVE  rest \in Q
  <2>1. ASSUME NEW x \in Progress, x.rest = rest, Clean(x.out), f[x].ok
        PROVE  NoPair(f[x].text, c)
    <3>t. x.out \in Seq(Chars) /\ x.rest \in Seq(Chars)
      BY ProgressType, Zenon
    <3>1. Finds(x) \notin {"unclosed", "name", "unknown", "tags"}
      <4>1. f[x].ok # FALSE
        BY <2>1, Zenon
      <4> QED
        BY <4>1, ComesTo, Zenon
    <3>2. CASE Finds(x) = "none"
      <4>1. f[x] = Done(x.out \o x.rest)
        BY <3>2, ComesTo, Zenon
      <4>2. f[x].text = x.out \o x.rest
        BY <2>1, <4>1, Answers, Zenon
      <4>3. Tag(x.rest).kind = "none"
        BY <3>2, FindsMeans
      <4>4. IndexPair(x.rest, c) = 0
        BY <3>t, <4>3, TagKinds, Zenon
      <4>5. NoPair(x.rest, c)
        BY <3>t, <4>4, FoundPair, Zenon DEF NoPair
      <4>6. NoPair(x.out \o x.rest, c)
        BY <2>1, <3>t, <4>5, PairsOfConcat, Zenon
      <4> QED
        BY <4>2, <4>6, Zenon
    <3>3. CASE Finds(x) = "value"
      <4> DEFINE b == Tag(x.rest).before
                 a == After(x, val)
      <4>1. /\ a \in Progress /\ a.rest \in Seq(Chars) /\ Len(a.rest) < Len(x.rest)
            /\ a.out = (x.out \o b) \o val /\ b \in Seq(Chars)
        BY <3>3, AfterType, Zenon
      <4>2. Tag(x.rest).kind = "tag"
        BY <3>3, FindsMeans
      <4>3. NoPair(b, c) /\ ~Ends(b, c)
        <5>1. IndexPair(x.rest, c) # 0 /\ b = SubSeq(x.rest, 1, IndexPair(x.rest, c) - 1)
          BY <3>t, <4>2, TagParts, Zenon
        <5> QED
          BY <3>t, <5>1, PairsBefore, Zenon
      <4> HIDE DEF a, b
      <4>4. x.out \o b \in Seq(Chars)
        BY <3>t, <4>1, ConcatType, Zenon
      <4>5. NoPair(x.out \o b, c) /\ ~Ends(x.out \o b, c)
        BY <2>1, <3>t, <4>1, <4>3, PairsOfConcat, Zenon
      <4>6. NoPair((x.out \o b) \o val, c) /\ ~Ends((x.out \o b) \o val, c)
        BY <4>4, <4>5, PairsOfConcat, Zenon
      <4>7. f[x] = f[a]
        <5>1. f[x].ok # FALSE
          BY <2>1, Zenon
        <5> QED
          BY <3>3, <5>1, ComesAfter, Zenon DEF a
      <4>8. a.rest \in Q
        <5>1. Len(a.rest) < Len(rest)
          BY <2>1, <4>1, Zenon
        <5> HIDE DEF Q
        <5> QED
          BY <1>1, <4>1, <5>1, Zenon
      <4>9. NoPair(f[a].text, c)
        <5>1. Clean(a.out) /\ f[a].ok
          BY <2>1, <4>1, <4>6, <4>7, Zenon
        <5> HIDE DEF Clean
        <5> QED
          BY <4>1, <4>8, <5>1, Zenon
      <4> QED
        BY <4>7, <4>9, Zenon
    <3>4. Finds(x) \in {"none", "unclosed", "name", "unknown", "tags", "value"}
      BY FindsOne
    <3> HIDE DEF c, Clean
    <3> QED
      BY <3>1, <3>2, <3>3, <3>4
  <2> HIDE DEF Clean
  <2> QED
    BY <2>1, Zenon
<1>2. Q \in SUBSET Seq(Chars)
  <2> HIDE DEF c, Clean
  <2> QED
    OBVIOUS
<1>3. Q = Seq(Chars)
  <2> HIDE DEF Q
  <2> QED
    BY <1>1, <1>2, ShorterInduction, Zenon
<1>4. s.rest \in Q
  <2>1. s.rest \in Seq(Chars)
    BY ProgressType, Zenon
  <2> HIDE DEF Q
  <2> QED
    BY <1>3, <2>1, Zenon
<1> QED
  BY <1>4, Zenon

(* There is nothing in nothing. *)
LEMMA EmptyHasNoPair ==
  ASSUME NEW c PROVE NoPair(<<>>, c) /\ ~Ends(<<>>, c)
  BY DEF NoPair, Ends, PairAt

(* Where there is no pair, IndexPair finds none. *)
LEMMA NoPairFound ==
  ASSUME NEW T, NEW s \in Seq(T), NEW c, NoPair(s, c)
  PROVE  IndexPair(s, c) = 0
<1>1. IndexPair(s, c) # 0 => PairAt(s, c, IndexPair(s, c)) /\ IndexPair(s, c) \in 0..Len(s)
  BY FoundPair
<1>2. IndexPair(s, c) \in 0..Len(s) => IndexPair(s, c) \in Nat
  OBVIOUS
<1> QED
  BY <1>1, <1>2 DEF NoPair

(* A positive number is among those up to it. *)
LEMMA InRange == ASSUME NEW n \in Nat, n > 0 PROVE n \in 1..n
  OBVIOUS

(* The text of an answer. *)
LEMMA AnswerText == ASSUME NEW r \in Answer PROVE r.text \in Seq(Chars)
  BY DEF Answer

-----------------------------------------------------------------------------
(* The two loops side by side, and the templates they are given.           *)

(* The start is progress. *)
LEMMA StartType ==
  ASSUME NEW tmpl \in Seq(Chars)
  PROVE  /\ Start(tmpl) \in Progress
         /\ Start(tmpl).rest = tmpl /\ Start(tmpl).out = <<>> /\ Start(tmpl).tags = 0
<1>1. MaxTags \in Nat
  BY TemplateAssumption
<1>2. 0 \in 0..MaxTags /\ <<>> \in Seq(Chars)
  BY <1>1
<1>3. Start(tmpl) \in Progress
  BY <1>2 DEF Start, Progress
<1> QED
  BY <1>3 DEF Start

(* With the variable "a" alone, only the template may be too long. *)
LEMMA RenderIs ==
  ASSUME NEW tmpl \in Seq(Chars), NEW v \in Seq(Chars), NEW escape \in BOOLEAN
  PROVE  Render(tmpl, With(v), escape) =
           IF Len(tmpl) > MaxTemplate THEN Failed("template")
           ELSE Scan(tmpl, With(v), escape)
<1>1. DOMAIN With(v) = {<<"a">>}
  BY DEF With
<1>2. Cardinality(DOMAIN With(v)) = 1
  BY <1>1, FS_Singleton, Zenon
<1>3. ValidName(<<"a">>)
  <2>1. MaxNameLen \in Nat \ {0}
    BY TemplateAssumption
  <2>2. Len(<<"a">>) = 1 /\ <<"a">> # <<>> /\ 1 <= MaxNameLen
    BY <2>1
  <2>3. Places(<<"a">>, NameChars) = 1..Len(<<"a">>)
    BY DEF Places, NameChars
  <2> QED
    BY <2>2, <2>3 DEF ValidName
<1>4. MaxVariables \in Nat \ {0} /\ MaxTemplate \in Nat /\ Len(tmpl) \in Nat
  BY TemplateAssumption, SeqElements
<1>5. ~(Cardinality(DOMAIN With(v)) > MaxVariables)
  BY <1>2, <1>4
<1>6. ~\E n \in DOMAIN With(v) : ~ValidName(n)
  BY <1>1, <1>3, Zenon
<1>7. Len(tmpl) > MaxTemplate \/ Len(tmpl) <= MaxTemplate
  BY <1>4
<1> DEFINE long == Len(tmpl) > MaxTemplate
           fits == Len(tmpl) <= MaxTemplate
           many == Cardinality(DOMAIN With(v)) > MaxVariables
           bad == \E n \in DOMAIN With(v) : ~ValidName(n)
           scan == Scan(tmpl, With(v), escape)
<1>8. Render(tmpl, With(v), escape) =
        CASE long -> Failed("template")
          [] fits /\ many -> Failed("variables")
          [] OTHER -> IF bad THEN Failed("name") ELSE scan
  BY DEF Render
<1>9. ~many /\ ~bad
  BY <1>5, <1>6, Zenon
<1> HIDE DEF long, fits, many, bad, scan
<1>10. CASE long
  <2>1. Render(tmpl, With(v), escape) = Failed("template")
    BY <1>8, <1>9, <1>10
  <2> QED
    BY <1>10, <2>1, Zenon DEF long
<1>11. CASE ~long
  <2>1. Render(tmpl, With(v), escape) = scan
    BY <1>8, <1>9, <1>11
  <2> QED
    BY <1>11, <2>1, Zenon DEF long, scan
<1> QED
  BY <1>10, <1>11

(* Tags says what Render needs. *)
LEMMA TagsOfATemplate ==
  ASSUME NEW tmpl \in Seq(Chars), NEW v \in Seq(Chars), NEW escape \in BOOLEAN
  PROVE  LET made == Render(tmpl, With(v), escape)
             tags == Tags(tmpl)
             good == tags.ok /\ tags.names \subseteq {<<"a">>}
         IN /\ made.ok => good
            /\ good => made.ok \/ made.why \in {"tags", "output"}
<1> DEFINE made == Render(tmpl, With(v), escape)
           val == Written(v, escape)
<1>0. made = IF Len(tmpl) > MaxTemplate THEN Failed("template") ELSE Scan(tmpl, With(v), escape)
  BY RenderIs
<1>1. CASE Len(tmpl) > MaxTemplate
  <2>1. made.ok = FALSE
    <3>1. made = Failed("template")
      BY <1>0, <1>1, Zenon
    <3> HIDE DEF made
    <3> QED
      BY <3>1, Answers, Zenon
  <2>2. Tags(tmpl).ok = FALSE
    <3>1. Tags(tmpl) = [ok |-> FALSE, names |-> {}]
      BY <1>1, Zenon DEF Tags
    <3> QED
      BY <3>1
  <2> QED
    BY <2>1, <2>2, Zenon
<1>2. CASE ~(Len(tmpl) > MaxTemplate)
  <2>0. val \in Seq(Chars)
    BY WrittenType
  <2>1. PICK f : Scans(f, val) /\ \A t : Scan(t, With(v), escape) = f[Start(t)]
    BY ScanLoop
  <2>2. PICK g : /\ \A s \in Listing : g[s] = Lists(g, s)
                 /\ \A t : ScanNames(t) = g[[rest |-> t, names |-> {}]]
    BY NamesLoop
  <2> DEFINE x == [rest |-> tmpl, names |-> {}]
  <2>3. x \in Listing /\ x.rest = tmpl /\ x.names = {}
    BY DEF Listing
  <2>4. Start(tmpl) \in Progress /\ Start(tmpl).rest = tmpl
    BY StartType
  <2>5. made = f[Start(tmpl)] /\ Tags(tmpl) = g[x]
    <3>1. made = Scan(tmpl, With(v), escape)
      BY <1>0, <1>2, Zenon
    <3>2. Tags(tmpl) = ScanNames(tmpl)
      BY <1>2, Zenon DEF Tags
    <3> HIDE DEF made
    <3> QED
      BY <2>1, <2>2, <3>1, <3>2, Zenon
  <2> HIDE DEF x, val, made
  <2>6. /\ f[Start(tmpl)].ok => GoodList(g[x])
        /\ GoodList(g[x]) => f[Start(tmpl)].ok \/ f[Start(tmpl)].why \in {"tags", "output"}
    <3>1. x.rest = Start(tmpl).rest /\ x.names \subseteq {<<"a">>}
      BY <2>3, <2>4, Zenon
    <3>2. \A s \in Listing : g[s] = Lists(g, s)
      BY <2>2, Zenon
    <3>3. Scans(f, val)
      BY <2>1, Zenon
    <3>4. ASSUME NEW s \in Progress, NEW y \in Listing, y.rest = s.rest, y.names \subseteq {<<"a">>}
          PROVE  /\ f[s].ok => GoodList(g[y])
                 /\ GoodList(g[y]) => f[s].ok \/ f[s].why \in {"tags", "output"}
      BY <2>0, <3>2, <3>3, <3>4, TagsTell
    <3> QED
      BY <2>3, <2>4, <3>1, <3>4, Zenon
  <2> QED
    BY <2>5, <2>6, Zenon DEF GoodList, made
<1> QED
  BY <1>1, <1>2, Zenon

(* A value is data. *)
LEMMA ValuesOfATemplate ==
  ASSUME NEW tmpl \in Seq(Chars \ {"mark"}), NEW v \in Seq(Chars), NEW escape \in BOOLEAN
  PROVE  LET made   == Render(tmpl, With(v), escape)
             marked == Render(tmpl, With(<<"mark">>), FALSE)
         IN marked.ok =>
              IF made.ok
              THEN made.text = Replaced(marked.text, IF escape THEN Escape(v) ELSE v)
              ELSE made.why = "output"
<1> DEFINE made == Render(tmpl, With(v), escape)
           mark == <<"mark">>
           marked == Render(tmpl, With(mark), FALSE)
           val == Written(v, escape)
<1> SUFFICES ASSUME marked.ok
             PROVE  \/ made.ok /\ made.text = Replaced(marked.text, val)
                    \/ ~made.ok /\ made.why = "output"
  BY Zenon DEF Written
<1>0. tmpl \in Seq(Chars) /\ mark \in Seq(Chars) /\ FALSE \in BOOLEAN
  <2>1. tmpl \in Seq(Chars)
    OBVIOUS
  <2>2. mark \in Seq(Chars)
    BY InputAssumption, OneSeq, Zenon
  <2> QED
    BY <2>1, <2>2, Zenon
<1>1. made = IF Len(tmpl) > MaxTemplate THEN Failed("template") ELSE Scan(tmpl, With(v), escape)
  BY <1>0, RenderIs, Zenon
<1>2. marked = IF Len(tmpl) > MaxTemplate THEN Failed("template") ELSE Scan(tmpl, With(mark), FALSE)
  BY <1>0, RenderIs, Zenon
<1>v. val \in Seq(Chars)
  BY WrittenType
<1>m. Written(mark, FALSE) = mark
  BY Zenon DEF Written
<1>3. PICK f : Scans(f, val) /\ \A t : Scan(t, With(v), escape) = f[Start(t)]
  BY ScanLoop
<1>4. PICK h : Scans(h, mark) /\ \A t : Scan(t, With(mark), FALSE) = h[Start(t)]
  <2>1. \E h : Scans(h, Written(mark, FALSE)) /\ \A t : Scan(t, With(mark), FALSE) = h[Start(t)]
    <3> HIDE DEF mark
    <3> QED
      BY <1>0, ScanLoop, Zenon
  <2> QED
    BY <1>m, <2>1, Zenon
<1> HIDE DEF made, marked, val
<1>5. ~(Len(tmpl) > MaxTemplate)
  <2>1. ASSUME Len(tmpl) > MaxTemplate PROVE FALSE
    <3>1. marked = Failed("template")
      BY <1>2, <2>1, Zenon
    <3> QED
      BY <3>1, Answers, Zenon
  <2> QED
    BY <2>1
<1>6. made = f[Start(tmpl)] /\ marked = h[Start(tmpl)]
  BY <1>1, <1>2, <1>3, <1>4, <1>5, Zenon
<1> DEFINE s == Start(tmpl)
<1>7. s \in Progress /\ s.rest = tmpl /\ s.out = <<>>
  BY <1>0, StartType, Zenon
<1>8. s.out = Replaced(s.out, val)
  <2>1. Replaced(<<>>, val) = <<>>
    <3>1. <<>> \in Seq(Chars)
      OBVIOUS
    <3>2. Replaced(<<>>, val) = Spread(<<>>, Put(Chars, val))
      BY <1>v, <3>1, ReplacedSpread
    <3> QED
      BY <3>2, SpreadEmpty, Zenon
  <2> HIDE DEF s
  <2> QED
    BY <1>7, <2>1, Zenon
<1>9. s.rest \in Seq(Chars \ {"mark"}) /\ h[s].ok
  BY <1>6, <1>7, Zenon
<1> HIDE DEF s
<1>10. \/ f[s].ok /\ f[s].text = Replaced(h[s].text, val)
       \/ ~f[s].ok /\ f[s].why = "output"
  BY <1>v, <1>3, <1>4, <1>7, <1>8, <1>9, ValuesTell
<1> QED
  BY <1>6, <1>10, Zenon DEF s

(* No tag survives. *)
LEMMA NoTagInATemplate ==
  ASSUME NEW tmpl \in Seq(Chars), NEW v \in Seq(Chars), Places(v, {"{", "}"}) = {},
         Render(tmpl, With(v), FALSE).ok
  PROVE  IndexPair(Render(tmpl, With(v), FALSE).text, "{") = 0
<1> DEFINE made == Render(tmpl, With(v), FALSE)
           c == "{"
<1>v. Written(v, FALSE) = v
  BY Zenon DEF Written
<1>1. made = IF Len(tmpl) > MaxTemplate THEN Failed("template") ELSE Scan(tmpl, With(v), FALSE)
  BY RenderIs, Zenon
<1>2. PICK f : Scans(f, v) /\ \A t : Scan(t, With(v), FALSE) = f[Start(t)]
  <2>1. \E f : Scans(f, Written(v, FALSE)) /\ \A t : Scan(t, With(v), FALSE) = f[Start(t)]
    BY ScanLoop, Zenon
  <2> QED
    BY <1>v, <2>1, Zenon
<1>3. \A i \in 1..Len(v) : v[i] # c
  BY Zenon DEF Places
<1>4. NoPair(v, c) /\ ~Ends(v, c)
  <2>1. NoPair(v, c)
    BY <1>3, Zenon DEF NoPair, PairAt
  <2>2. ~Ends(v, c)
    <3>1. Len(v) > 0 => Len(v) \in 1..Len(v)
      BY SeqElements, InRange, Zenon
    <3> QED
      BY <1>3, <3>1, Zenon DEF Ends
  <2> QED
    BY <2>1, <2>2
<1>5. ~(Len(tmpl) > MaxTemplate)
  <2>1. ASSUME Len(tmpl) > MaxTemplate PROVE FALSE
    <3>1. made = Failed("template")
      BY <1>1, <2>1, Zenon
    <3>2. made.ok
      OBVIOUS
    <3> HIDE DEF made
    <3> QED
      BY <3>1, <3>2, Answers, Zenon
  <2> QED
    BY <2>1, Zenon
<1>6. made = f[Start(tmpl)] /\ made.ok
  BY <1>1, <1>2, <1>5, Zenon
<1> HIDE DEF made
<1>7. Start(tmpl) \in Progress /\ Start(tmpl).out = <<>>
  BY StartType, Zenon
<1>8. NoPair(<<>>, c) /\ ~Ends(<<>>, c)
  <2> HIDE DEF c
  <2> QED
    BY EmptyHasNoPair, Zenon
<1>9. NoPair(f[Start(tmpl)].text, c)
  BY <1>2, <1>4, <1>6, <1>7, <1>8, NoTags, Zenon
<1>10. made.text \in Seq(Chars)
  <2>1. f \in [Progress -> Answer]
    BY <1>2, Zenon DEF Scans
  <2>2. f[Start(tmpl)] \in Answer
    BY <1>7, <2>1, Zenon
  <2>3. made \in Answer
    BY <1>6, <2>2, Zenon
  <2> QED
    BY <2>3, AnswerText, Zenon
<1>11. IndexPair(made.text, c) = 0
  <2>1. NoPair(made.text, c)
    BY <1>6, <1>9, Zenon
  <2> HIDE DEF c
  <2> QED
    BY <1>10, <2>1, NoPairFound, Zenon
<1> QED
  BY <1>11, Zenon DEF made

(* A template is put together from the pieces. *)
TemplateInv == task = "template" => input \in Seq(Pieces)

(* Templates start empty. *)
LEMMA InitTemplate == Init => TemplateInv
<1> SUFFICES ASSUME Init, task = "template" PROVE input \in Seq(Pieces)
  BY DEF TemplateInv
<1>1. input = <<>>
  BY DEF Init
<1> QED
  BY <1>1

(* Every step keeps it so. *)
LEMMA NextTemplate ==
  ASSUME TemplateInv, [Next]_vars
  PROVE  TemplateInv'
<1> SUFFICES ASSUME task' = "template" PROVE input' \in Seq(Pieces)
  BY DEF TemplateInv
<1>1. task = "template"
  BY StepsOfATask
<1>2. input \in Seq(Pieces)
  BY <1>1 DEF TemplateInv
<1>3. (\E piece \in Pieces : WriteTemplate(piece)) \/ UNCHANGED vars
  BY <1>1 DEF Next, vars, EngineRefuses, DestinationSays, SuppressIfAddressIsBad,
       EditCall, Edit, HandleSend, WorkerBuilds, SetVariable, Boot, RunServe, RunWorker,
       SendWebhook, Dial, Redirect, Respond
<1>4. CASE \E piece \in Pieces : WriteTemplate(piece)
  <2>1. PICK piece \in Pieces : input' = Append(input, piece)
    BY <1>4 DEF WriteTemplate
  <2> QED
    BY <1>2, <2>1
<1>5. CASE UNCHANGED vars
  BY <1>2, <1>5 DEF vars
<1> QED
  BY <1>3, <1>4, <1>5

(* Then it is a text without marks. *)
LEMMA TemplateType ==
  ASSUME TemplateInv, task = "template"
  PROVE  Template \in Seq(Chars \ {"mark"})
<1> DEFINE T == Chars \ {"mark"}
<1>1. Pieces \subseteq Seq(T)
  BY InputAssumption, Zenon
<1> HIDE DEF T
<1>2. input \in Seq(Seq(T))
  <2>1. input \in Seq(Pieces)
    BY Zenon DEF TemplateInv
  <2> QED
    BY <1>1, <2>1
<1>3. FlattenSeq(input) \in Seq(T)
  BY <1>2, FlattenType
<1> QED
  BY <1>3 DEF T, Template

(* A template says what it seems to say, whatever it and the values hold   *)
(* and whatever the limits of Render are: Tags lists what Render needs, a  *)
(* value is data, and no part of a tag reaches a reader.                   *)
THEOREM TemplatesSayWhatTheySeem == Spec => []TemplatesAreFaithful
<1>1. TemplateInv => TemplatesAreFaithful
  <2> SUFFICES ASSUME TemplateInv, task = "template" PROVE TemplatesAreFaithful
    BY DEF TemplatesAreFaithful, TagsTellsWhatRenderNeeds, ValuesAreData, NoTagSurvives
  <2>0. Template \in Seq(Chars \ {"mark"})
    BY TemplateType
  <2>c. Template \in Seq(Chars)
    <3> HIDE DEF Template
    <3> QED
      BY <2>0
  <2>v. \A v \in VarValues : v \in Seq(Chars)
    <3>1. VarValues \subseteq Seq(Chars \ {"mark", "b"})
      BY InputAssumption, Zenon
    <3> QED
      BY <3>1
  <2>1. TagsTellsWhatRenderNeeds
    BY <2>c, <2>v, TagsOfATemplate, Zenon DEF TagsTellsWhatRenderNeeds
  <2>2. ValuesAreData
    BY <2>0, <2>v, ValuesOfATemplate, Zenon DEF ValuesAreData
  <2>3. NoTagSurvives
    BY <2>c, <2>v, NoTagInATemplate, Zenon DEF NoTagSurvives
  <2> QED
    BY <2>1, <2>2, <2>3 DEF TemplatesAreFaithful
<1> QED
  BY <1>1, InitTemplate, NextTemplate, PTL DEF Spec

-----------------------------------------------------------------------------
(* The text of a mail. How plainTextFrom strips the HTML.                  *)

(* The loop of plainTextFrom, as the text grows. *)
Letters == Chars \cup {" "}
Stripped == [inTag : BOOLEAN, out : Seq(Letters)]
Nothing == [inTag |-> FALSE, out |-> <<>>]

StripStep(st, c) ==
  CASE c = "<" -> [st EXCEPT !.inTag = TRUE]
    [] c = ">" -> [inTag |-> FALSE, out |-> Append(st.out, " ")]
    [] OTHER -> IF st.inTag THEN st
                ELSE [st EXCEPT !.out = Append(st.out, c)]

(* The end of a tag is written as a space. *)
LEMMA StripClose ==
  ASSUME NEW st \in Stripped, NEW c, c = ">"
  PROVE  /\ StripStep(st, c) \in Stripped
         /\ StripStep(st, c).inTag = FALSE /\ StripStep(st, c).out = Append(st.out, " ")
<1> DEFINE o == Append(st.out, " ")
<1>1. StripStep(st, c) = [inTag |-> FALSE, out |-> o]
  BY DEF StripStep
<1>2. o \in Seq(Letters)
  <2>1. " " \in Letters /\ st.out \in Seq(Letters)
    BY DEF Letters, Stripped
  <2> HIDE DEF Letters
  <2> QED
    BY <2>1, AppendType, Zenon
<1> HIDE DEF o
<1>3. StripStep(st, c) \in Stripped
  <2>1. [inTag |-> FALSE, out |-> o] \in Stripped
    BY <1>2 DEF Stripped
  <2> QED
    BY <1>1, <2>1, Zenon
<1>4. StripStep(st, c).inTag = FALSE /\ StripStep(st, c).out = o
  BY <1>1
<1> QED
  BY <1>3, <1>4 DEF o

(* What the loop does with each character. *)
LEMMA StripStepIs ==
  ASSUME NEW st \in Stripped, NEW c \in Chars
  PROVE  /\ StripStep(st, c) \in Stripped
         /\ c = "<" => StripStep(st, c).inTag = TRUE /\ StripStep(st, c).out = st.out
         /\ c = ">" => StripStep(st, c).inTag = FALSE /\ StripStep(st, c).out = Append(st.out, " ")
         /\ c \notin {"<", ">"} /\ st.inTag = TRUE => StripStep(st, c) = st
         /\ c \notin {"<", ">"} /\ st.inTag = FALSE =>
              StripStep(st, c).inTag = FALSE /\ StripStep(st, c).out = Append(st.out, c)
<1>0. st.inTag \in BOOLEAN /\ st.out \in Seq(Letters)
  BY DEF Stripped
<1>1. Append(st.out, " ") \in Seq(Letters) /\ Append(st.out, c) \in Seq(Letters)
  <2>1. " " \in Letters /\ c \in Letters
    BY DEF Letters
  <2> HIDE DEF Letters
  <2> QED
    BY <1>0, <2>1, AppendType, Zenon
<1>2. CASE c = "<"
  <2>1. StripStep(st, c) = [st EXCEPT !.inTag = TRUE]
    BY <1>2 DEF StripStep
  <2>2. StripStep(st, c) \in Stripped
    BY <2>1 DEF Stripped
  <2>3. StripStep(st, c).inTag = TRUE /\ StripStep(st, c).out = st.out
    BY <2>1 DEF Stripped
  <2> QED
    BY <1>2, <2>2, <2>3
<1>3. CASE c = ">"
  <2>1. /\ StripStep(st, c) \in Stripped
        /\ StripStep(st, c).inTag = FALSE /\ StripStep(st, c).out = Append(st.out, " ")
    BY <1>3, StripClose, Zenon
  <2> QED
    BY <1>3, <2>1
<1>4. CASE c \notin {"<", ">"} /\ st.inTag = TRUE
  <2>1. StripStep(st, c) = st
    BY <1>4 DEF StripStep
  <2> QED
    BY <1>4, <2>1
<1>5. CASE c \notin {"<", ">"} /\ st.inTag = FALSE
  <2> DEFINE o == Append(st.out, c)
  <2>1. StripStep(st, c) = [st EXCEPT !.out = o]
    BY <1>5 DEF StripStep
  <2> HIDE DEF o
  <2>2. StripStep(st, c) \in Stripped /\ StripStep(st, c).inTag = FALSE /\ StripStep(st, c).out = o
    <3>1. o \in Seq(Letters)
      BY <1>1 DEF o
    <3> QED
      BY <1>5, <2>1, <3>1 DEF Stripped
  <2> QED
    BY <1>5, <2>2 DEF o
<1> QED
  BY <1>0, <1>2, <1>3, <1>4, <1>5

(* It stays within its state. *)
LEMMA StripStepType ==
  ASSUME NEW st \in Stripped, NEW c \in Chars
  PROVE  StripStep(st, c) \in Stripped
  BY StripStepIs

(* Strip goes through the HTML from the left. *)
LEMMA StripSteps ==
  ASSUME NEW s \in Seq(Chars)
  PROVE  \E f \in [0..Len(s) -> Stripped] :
           /\ Strip(s) = f[Len(s)]
           /\ f[0] = Nothing
           /\ \A n \in 0..Len(s) : n # 0 => f[n] = StripStep(f[n - 1], s[n])
<1> DEFINE N == Len(s)
           D == 0..N
           V == Stripped
           Body(n, f) == IF n = 0 THEN Nothing ELSE StripStep(f[n - 1], s[n])
           Is(f) == f = [n \in 0..Len(s) |->
             IF n = 0 THEN [inTag |-> FALSE, out |-> <<>>]
             ELSE LET st == f[n - 1] IN
                  CASE s[n] = "<" -> [st EXCEPT !.inTag = TRUE]
                    [] s[n] = ">" -> [inTag |-> FALSE, out |-> Append(st.out, " ")]
                    [] OTHER -> IF st.inTag THEN st
                                ELSE [st EXCEPT !.out = Append(st.out, s[n])]]
           c == CHOOSE f : Is(f)
<1>n. N \in Nat /\ 0 \in D /\ N \in D
  OBVIOUS
<1>s. \A n \in D : n \in Nat /\ (n # 0 => n - 1 \in D /\ n - 1 < n /\ s[n] \in Chars)
  OBVIOUS
<1>b. \A f : Is(f) <=> f = [n \in D |-> Body(n, f)]
  BY Zenon DEF StripStep, Nothing
<1>e. Nothing \in V
  <2>1. <<>> \in Seq(Letters)
    OBVIOUS
  <2> QED
    BY <2>1 DEF Nothing, Stripped
<1>c. Strip(s) = c[N]
  BY Zenon DEF Strip
<1> HIDE DEF N, D, V
<1>1. \E f : Is(f)
  <2> DEFINE F == [D -> V]
             m == [n \in D |-> n]
             B == [p \in D \X F |-> Body(p[1], p[2])]
  <2>1. m \in [D -> Nat] /\ V # {} /\ \A n \in D : m[n] = n
    BY <1>s, <1>e
  <2>2. B \in [D \X F -> V] /\ \A n \in D, f \in F : B[<<n, f>>] = Body(n, f)
    <3>1. ASSUME NEW n \in D, NEW f \in F PROVE Body(n, f) \in V
      <4>1. CASE n = 0
        BY <1>e, <4>1
      <4>2. CASE n # 0
        <5>1. f[n - 1] \in V /\ s[n] \in Chars
          BY <1>s, <4>2
        <5>2. StripStep(f[n - 1], s[n]) \in V
          BY <5>1, StripStepIs, Zenon DEF V
        <5> QED
          BY <4>2, <5>2
      <4> QED
        BY <4>1, <4>2
    <3> HIDE DEF F, Body
    <3> QED
      BY <3>1
  <2>3. ASSUME NEW n \in D, NEW f \in F, NEW g \in F,
               \A j \in D : m[j] < m[n] => f[j] = g[j]
        PROVE  B[<<n, f>>] = B[<<n, g>>]
    <3>1. n # 0 => f[n - 1] = g[n - 1]
      BY <1>s, <2>1, <2>3
    <3>2. Body(n, f) = Body(n, g)
      BY <3>1
    <3> HIDE DEF F, B, Body
    <3> QED
      BY <2>2, <3>2
  <2> HIDE DEF m, B
  <2>4. Descends(D, V, m, B)
    BY <2>1, <2>2, <2>3 DEF Descends
  <2>5. HasFunction(D, V, B)
    BY <2>4, Recursion
  <2>6. PICK f \in F : \A n \in D : f[n] = B[<<n, f>>]
    BY <2>5 DEF HasFunction
  <2>7. \A n \in D : f[n] = Body(n, f)
    <3> HIDE DEF F, Body
    <3> QED
      BY <2>2, <2>6
  <2>8. f = [n \in D |-> f[n]]
    OBVIOUS
  <2>9. f = [n \in D |-> Body(n, f)]
    <3> HIDE DEF Body
    <3> QED
      BY <2>7, <2>8
  <2>10. Is(f)
    <3> HIDE DEF Is, Body
    <3> QED
      BY <1>b, <2>9
  <2> HIDE DEF Is
  <2> QED
    BY <2>10
<1>2. Is(c)
  <2> HIDE DEF Is
  <2> QED
    BY <1>1, Zenon
<1> HIDE DEF c
<1>3. c = [n \in D |-> Body(n, c)]
  <2> HIDE DEF Is, Body
  <2> QED
    BY <1>2, <1>b
<1> HIDE DEF Is
<1>4. /\ c[0] = Nothing
      /\ \A n \in D : n # 0 => c[n] = StripStep(c[n - 1], s[n])
  BY <1>3, <1>n
<1>5. \A n \in D : c[n] \in V
  <2> DEFINE P == {n \in Nat : n \in D => c[n] \in V}
  <2>1. 0 \in P
    BY <1>4, <1>e
  <2>2. ASSUME NEW n \in P PROVE n + 1 \in P
    <3>1. ASSUME n + 1 \in D PROVE c[n + 1] \in V
      <4>1. n \in D /\ (n + 1) - 1 = n /\ n + 1 # 0 /\ s[n + 1] \in Chars
        BY <1>n, <1>s, <3>1 DEF D
      <4>2. c[n] \in V
        BY <4>1
      <4>3. c[n + 1] = StripStep(c[n], s[n + 1])
        BY <1>4, <3>1, <4>1
      <4> QED
        BY <4>1, <4>2, <4>3, StripStepType, Zenon DEF V
    <3> QED
      BY <3>1
  <2>3. P = Nat
    <3>1. P \in SUBSET Nat
      OBVIOUS
    <3> HIDE DEF P
    <3> QED
      BY <2>1, <2>2, <3>1, Induction
  <2>4. ASSUME NEW n \in D PROVE c[n] \in V
    <3>1. n \in P
      <4> HIDE DEF P
      <4> QED
        BY <1>s, <2>3
    <3> QED
      BY <3>1
  <2> QED
    BY <2>4
<1>6. c \in [D -> V]
  BY <1>3, <1>5
<1> QED
  BY <1>c, <1>4, <1>6, Zenon DEF N, D, V

(* One more character is one more step. *)
LEMMA StripAppend ==
  ASSUME NEW s \in Seq(Chars), NEW c \in Chars
  PROVE  Strip(s) \in Stripped /\ Strip(Append(s, c)) = StripStep(Strip(s), c)
<1> DEFINE N == Len(s)
           more == Append(s, c)
<1>0. /\ more \in Seq(Chars) /\ Len(more) = N + 1 /\ N \in Nat
      /\ \A i \in 1..N : more[i] = s[i]
      /\ more[N + 1] = c
  OBVIOUS
<1> HIDE DEF more
<1>1. PICK f \in [0..Len(s) -> Stripped] :
           /\ Strip(s) = f[Len(s)]
           /\ f[0] = Nothing
           /\ \A n \in 0..Len(s) : n # 0 => f[n] = StripStep(f[n - 1], s[n])
  BY StripSteps
<1>m. more \in Seq(Chars)
  BY <1>0
<1>2. PICK g \in [0..Len(more) -> Stripped] :
           /\ Strip(more) = g[Len(more)]
           /\ g[0] = Nothing
           /\ \A n \in 0..Len(more) : n # 0 => g[n] = StripStep(g[n - 1], more[n])
  BY <1>m, StripSteps, Zenon
<1> DEFINE P == {n \in Nat : n <= N => f[n] = g[n]}
<1>3. 0 \in P
  BY <1>1, <1>2
<1>4. ASSUME NEW n \in P PROVE n + 1 \in P
  <2>1. ASSUME n + 1 <= N PROVE f[n + 1] = g[n + 1]
    <3>1. /\ n + 1 \in 0..Len(s) /\ n + 1 \in 0..Len(more) /\ n + 1 # 0
          /\ (n + 1) - 1 = n /\ n + 1 \in 1..N /\ n <= N
      BY <1>0, <2>1
    <3>2. f[n + 1] = StripStep(f[n], s[n + 1]) /\ g[n + 1] = StripStep(g[n], more[n + 1])
      BY <1>1, <1>2, <3>1
    <3>3. f[n] = g[n] /\ more[n + 1] = s[n + 1]
      BY <1>0, <3>1
    <3> QED
      BY <3>2, <3>3, Zenon
  <2> QED
    BY <2>1
<1>5. P = Nat
  <2>1. P \in SUBSET Nat
    OBVIOUS
  <2> HIDE DEF P
  <2> QED
    BY <1>3, <1>4, <2>1, Induction
<1>6. f[N] = g[N]
  <2>1. N \in P
    <3> HIDE DEF P, N
    <3> QED
      BY <1>0, <1>5
  <2> QED
    BY <1>0, <2>1
<1>7. g[N + 1] = StripStep(g[N], c)
  <2>1. N + 1 \in 0..Len(more) /\ N + 1 # 0 /\ (N + 1) - 1 = N
    BY <1>0
  <2> QED
    BY <1>0, <1>2, <2>1
<1>8. f[N] \in Stripped
  BY <1>0, <1>1
<1>9. Strip(more) = StripStep(Strip(s), c)
  BY <1>0, <1>1, <1>2, <1>6, <1>7, Zenon
<1> QED
  BY <1>1, <1>8, <1>9, Zenon DEF more

(* How often a character occurs. *)
LEMMA CountEmpty == ASSUME NEW c PROVE Count(<<>>, c) = 0
<1>1. Places(<<>>, {c}) = {}
  BY DEF Places
<1> QED
  BY <1>1, FS_EmptySet, Zenon DEF Count

(* One more character is counted if it is the one. *)
LEMMA CountAppend ==
  ASSUME NEW T, NEW s \in Seq(T), NEW x \in T, NEW c
  PROVE  /\ Count(s, c) \in Nat
         /\ Count(Append(s, x), c) = IF x = c THEN Count(s, c) + 1 ELSE Count(s, c)
<1> DEFINE A == Places(s, {c})
           B == Places(Append(s, x), {c})
           n == Len(s)
<1>0. n \in Nat /\ A \in SUBSET (1..n)
  BY DEF Places
<1>1. IsFiniteSet(A) /\ Cardinality(A) \in Nat
  <2>1. IsFiniteSet(1..n)
    BY <1>0, FS_Interval
  <2>2. IsFiniteSet(A)
    BY <1>0, <2>1, FS_Subset
  <2> QED
    BY <2>2, FS_CardinalityType
<1>2. B = IF x = c THEN A \cup {n + 1} ELSE A
  <2>1. /\ Len(Append(s, x)) = n + 1 /\ Append(s, x)[n + 1] = x
        /\ \A i \in 1..n : Append(s, x)[i] = s[i]
    OBVIOUS
  <2>2. \A i : i \in B <=> i \in 1..Len(Append(s, x)) /\ Append(s, x)[i] = c
    BY DEF Places
  <2>3. \A i : i \in A <=> i \in 1..n /\ s[i] = c
    BY DEF Places
  <2>4. \A i : i \in 1..(n + 1) <=> i \in 1..n \/ i = n + 1
    BY <1>0
  <2> HIDE DEF A, B
  <2> QED
    BY <2>1, <2>2, <2>3, <2>4
<1> HIDE DEF A, B, n
<1>3. n + 1 \notin A
  <2>1. n + 1 \notin 1..n
    BY <1>0
  <2> QED
    BY <1>0, <2>1, Zenon
<1>4. Cardinality(A \cup {n + 1}) = Cardinality(A) + 1
  BY <1>1, <1>3, FS_AddElement
<1>5. Cardinality(B) = IF x = c THEN Cardinality(A) + 1 ELSE Cardinality(A)
  BY <1>2, <1>4
<1> QED
  BY <1>1, <1>5 DEF Count, A, B

(* Two texts that strip to the same number of letters, both inside or both *)
(* outside a tag.                                                          *)
Alike(s, t) ==
  /\ Strip(s).inTag = Strip(t).inTag
  /\ Count(Strip(s).out, "b") = Count(Strip(t).out, "b")

(* They stay alike when the same character follows both. *)
LEMMA AlikeAppend ==
  ASSUME NEW s \in Seq(Chars), NEW t \in Seq(Chars), NEW c \in Chars, Alike(s, t)
  PROVE  Alike(Append(s, c), Append(t, c))
<1> DEFINE S == Strip(s)
           R == Strip(t)
           S1 == StripStep(S, c)
           R1 == StripStep(R, c)
           b == "b"
<1>0. S \in Stripped /\ R \in Stripped
  BY StripAppend
<1>1. Strip(Append(s, c)) = S1 /\ Strip(Append(t, c)) = R1
  BY StripAppend
<1>2. S.inTag = R.inTag /\ Count(S.out, b) = Count(R.out, b) /\ S.inTag \in BOOLEAN
      /\ S.out \in Seq(Letters) /\ R.out \in Seq(Letters)
  <2>1. S.inTag = R.inTag /\ Count(S.out, b) = Count(R.out, b)
    BY DEF Alike
  <2> HIDE DEF S, R
  <2> QED
    BY <1>0, <2>1 DEF Stripped
<1> HIDE DEF S, R, b
<1>c. ASSUME NEW x \in Letters PROVE Count(Append(S.out, x), b) = Count(Append(R.out, x), b)
  BY <1>2, CountAppend
<1>3. S1.inTag = R1.inTag /\ Count(S1.out, b) = Count(R1.out, b)
  <2>1. CASE c = "<"
    BY <1>0, <1>2, <2>1, StripStepIs
  <2>2. CASE c = ">"
    <3>1. " " \in Letters
      BY DEF Letters
    <3>2. /\ S1.inTag = FALSE /\ R1.inTag = FALSE
          /\ S1.out = Append(S.out, " ") /\ R1.out = Append(R.out, " ")
      <4>1. S1.inTag = FALSE /\ S1.out = Append(S.out, " ")
        BY <1>0, <2>2, StripClose, Zenon
      <4>2. R1.inTag = FALSE /\ R1.out = Append(R.out, " ")
        BY <1>0, <2>2, StripClose, Zenon
      <4> QED
        BY <4>1, <4>2, Zenon
    <3> QED
      BY <1>c, <3>1, <3>2, Zenon
  <2>3. CASE c \notin {"<", ">"} /\ S.inTag = TRUE
    <3>1. S1 = S /\ R1 = R
      BY <1>0, <1>2, <2>3, StripStepIs
    <3> QED
      BY <1>2, <3>1, Zenon
  <2>4. CASE c \notin {"<", ">"} /\ S.inTag = FALSE
    <3>1. /\ S1.inTag = FALSE /\ R1.inTag = FALSE
          /\ S1.out = Append(S.out, c) /\ R1.out = Append(R.out, c)
      BY <1>0, <1>2, <2>4, StripStepIs
    <3>2. c \in Letters
      BY DEF Letters
    <3> QED
      BY <1>c, <3>1, <3>2, Zenon
  <2> QED
    BY <1>2, <2>1, <2>2, <2>3, <2>4
<1> QED
  BY <1>1, <1>3, Zenon DEF Alike, b

(* They stay alike when the same text follows both. *)
LEMMA AlikeConcat ==
  ASSUME NEW s \in Seq(Chars), NEW t \in Seq(Chars), NEW u \in Seq(Chars), Alike(s, t)
  PROVE  Alike(s \o u, t \o u)
<1> DEFINE Q == {x \in Seq(Chars) : Alike(s \o x, t \o x)}
<1>1. <<>> \in Q
  <2>1. s \o <<>> = s /\ t \o <<>> = t /\ <<>> \in Seq(Chars)
    OBVIOUS
  <2> QED
    BY <2>1, Zenon
<1>2. ASSUME NEW x \in Q, NEW c \in Chars PROVE Append(x, c) \in Q
  <2>1. /\ s \o Append(x, c) = Append(s \o x, c) /\ t \o Append(x, c) = Append(t \o x, c)
        /\ Append(x, c) \in Seq(Chars) /\ s \o x \in Seq(Chars) /\ t \o x \in Seq(Chars)
    OBVIOUS
  <2>2. Alike(s \o x, t \o x)
    OBVIOUS
  <2>3. Alike(Append(s \o x, c), Append(t \o x, c))
    BY <2>1, <2>2, AlikeAppend, Zenon
  <2> QED
    BY <2>1, <2>3, Zenon
<1>3. Q \in SUBSET Seq(Chars)
  OBVIOUS
<1>4. Q = Seq(Chars)
  <2> HIDE DEF Q
  <2> QED
    BY <1>1, <1>2, <1>3, SeqInduction
<1>5. u \in Q
  <2> HIDE DEF Q
  <2> QED
    BY <1>4
<1> QED
  BY <1>5

(* Markup that is escaped. *)
Inert == Chars \ {"<", ">", "b"}

(* A text without markup and without the letter changes nothing. *)
LEMMA InertConcat ==
  ASSUME NEW s \in Seq(Chars), NEW u \in Seq(Inert)
  PROVE  Alike(s \o u, s)
<1> DEFINE Q == {x \in Seq(Inert) : Alike(s \o x, s)}
<1>i. \A x \in Seq(Inert) : x \in Seq(Chars)
  BY DEF Inert
<1>1. <<>> \in Q
  <2>1. s \o <<>> = s /\ <<>> \in Seq(Inert)
    OBVIOUS
  <2>2. Alike(s, s)
    BY Zenon DEF Alike
  <2> QED
    BY <2>1, <2>2, Zenon
<1>2. ASSUME NEW x \in Q, NEW c \in Inert PROVE Append(x, c) \in Q
  <2>0. c \in Chars /\ c \notin {"<", ">"} /\ c # "b" /\ x \in Seq(Inert)
    BY DEF Inert
  <2>x. x \in Seq(Chars)
    BY <1>i, <2>0, Zenon
  <2>1. /\ s \o Append(x, c) = Append(s \o x, c)
        /\ Append(x, c) \in Seq(Inert) /\ s \o x \in Seq(Chars)
    BY <2>0, <2>x
  <2> DEFINE S == Strip(s \o x)
             S1 == StripStep(S, c)
             b == "b"
  <2>2. S \in Stripped /\ Strip(Append(s \o x, c)) = S1
    BY <2>0, <2>1, StripAppend, Zenon
  <2>3. S.inTag \in BOOLEAN /\ S.out \in Seq(Letters) /\ c \in Letters
    <3> HIDE DEF S
    <3> QED
      BY <2>0, <2>2 DEF Stripped, Letters
  <2>a. Alike(s \o x, s)
    OBVIOUS
  <2> HIDE DEF S
  <2>4. S1.inTag = S.inTag /\ Count(S1.out, b) = Count(S.out, b)
    <3>1. CASE S.inTag = TRUE
      <4>1. S1 = S
        BY <2>0, <2>2, <3>1, StripStepIs
      <4> QED
        BY <4>1, Zenon
    <3>2. CASE S.inTag = FALSE
      <4>1. S1.inTag = FALSE /\ S1.out = Append(S.out, c)
        BY <2>0, <2>2, <3>2, StripStepIs
      <4>2. Count(Append(S.out, c), b) = Count(S.out, b)
        <5>1. c # b
          BY <2>0
        <5> HIDE DEF b
        <5> QED
          BY <2>3, <5>1, CountAppend
      <4> QED
        BY <3>2, <4>1, <4>2, Zenon
    <3> QED
      BY <2>3, <3>1, <3>2
  <2>5. Alike(Append(s \o x, c), s)
    BY <2>2, <2>4, <2>a, Zenon DEF Alike, S
  <2> QED
    BY <2>1, <2>5, Zenon
<1>3. Q \in SUBSET Seq(Inert)
  OBVIOUS
<1>4. Q = Seq(Inert)
  <2> HIDE DEF Q, Inert
  <2> QED
    BY <1>1, <1>2, <1>3, SeqInduction
<1>5. u \in Q
  <2> HIDE DEF Q
  <2> QED
    BY <1>4
<1> QED
  BY <1>5

(* Texts alike to one are alike. *)
LEMMA AlikeTransitive ==
  ASSUME NEW s, NEW t, NEW u, Alike(s, t), Alike(t, u)
  PROVE  Alike(s, u)
  BY Zenon DEF Alike

(* A text is like itself. *)
LEMMA AlikeSelf == ASSUME NEW s PROVE Alike(s, s)
  BY Zenon DEF Alike

(* The longer of two texts stays the longer when the same follows both. *)
LEMMA SameEnd ==
  ASSUME NEW s \in Seq(Chars), NEW t \in Seq(Chars), NEW u \in Seq(Chars), Len(t) <= Len(s)
  PROVE  Len(t \o u) > MaxOutput => Len(s \o u) > MaxOutput
<1>1. /\ Len(t \o u) = Len(t) + Len(u) /\ Len(s \o u) = Len(s) + Len(u)
      /\ Len(s) \in Nat /\ Len(t) \in Nat /\ Len(u) \in Nat
  OBVIOUS
<1>2. MaxOutput \in Nat
  BY TemplateAssumption
<1> QED
  BY <1>1, <1>2

(* And when more follows it. *)
LEMMA LongerEnd ==
  ASSUME NEW s \in Seq(Chars), NEW t \in Seq(Chars), NEW u \in Seq(Chars),
         NEW v \in Seq(Chars), Len(t) <= Len(s)
  PROVE  /\ Len((t \o u) \o <<>>) <= Len((s \o u) \o v)
         /\ Len((t \o u) \o <<>>) > MaxOutput => Len((s \o u) \o v) > MaxOutput
<1>1. /\ Len((t \o u) \o <<>>) = Len(t) + Len(u)
      /\ Len((s \o u) \o v) = Len(s) + Len(u) + Len(v)
      /\ Len(s) \in Nat /\ Len(t) \in Nat /\ Len(u) \in Nat /\ Len(v) \in Nat
  OBVIOUS
<1>2. MaxOutput \in Nat
  BY TemplateAssumption
<1> QED
  BY <1>1, <1>2

(* Nothing added changes nothing. *)
LEMMA EmptyConcat == ASSUME NEW T, NEW s \in Seq(T) PROVE s \o <<>> = s
  OBVIOUS

(* Two runs of Render, one with a value that is inert and one without a    *)
(* value, write texts that are alike.                                      *)
LEMMA HidesNothing ==
  ASSUME NEW val \in Seq(Inert), NEW f, Scans(f, val), NEW g, Scans(g, <<>>),
         NEW p \in Progress, NEW q \in Progress, p.rest = q.rest, p.tags = q.tags,
         Alike(p.out, q.out), Len(q.out) <= Len(p.out), f[p].ok
  PROVE  g[q].ok /\ Alike(f[p].text, g[q].text)
<1> DEFINE Told(r, m) == m.ok /\ Alike(r.text, m.text)
           none == <<>>
           Q == {rest \in Seq(Chars) :
                   \A x, y \in Progress :
                     x.rest = rest /\ y.rest = rest /\ x.tags = y.tags
                       /\ Alike(x.out, y.out) /\ Len(y.out) <= Len(x.out)
                       /\ f[x].ok => Told(f[x], g[y])}
<1>0. val \in Seq(Chars) /\ none \in Seq(Chars) 
  <2>1. Inert \subseteq Chars
    BY DEF Inert
  <2> HIDE DEF Inert
  <2> QED
    BY <2>1
<1>1. ASSUME NEW rest \in Seq(Chars), \A z \in Seq(Chars) : Len(z) < Len(rest) => z \in Q
      PROVE  rest \in Q
  <2>1. ASSUME NEW x \in Progress, NEW y \in Progress, x.rest = rest, y.rest = rest,
               x.tags = y.tags, Alike(x.out, y.out), Len(y.out) <= Len(x.out), f[x].ok
        PROVE  Told(f[x], g[y])
    <3>0. Finds(x) = Finds(y)
      BY <2>1, Zenon DEF Finds
    <3>1. Finds(x) \notin {"unclosed", "name", "unknown", "tags"}
      BY <1>0, <2>1, ComesTo
    <3>t. x.out \in Seq(Chars) /\ y.out \in Seq(Chars)
      BY ProgressType, Zenon
    <3>2. CASE Finds(x) = "none"
      <4>0. Finds(y) = "none"
        BY <3>0, <3>2
      <4>f. f[x] = Done(x.out \o x.rest)
        BY <1>0, <3>2, ComesTo, Zenon
      <4>g. g[y] = Done(y.out \o y.rest)
        BY <1>0, <4>0, ComesTo, Zenon
      <4>1. f[x] = Done(x.out \o rest) /\ g[y] = Done(y.out \o rest)
        BY <2>1, <4>f, <4>g, Zenon
      <4>2. f[x].text = x.out \o rest /\ ~(Len(x.out \o rest) > MaxOutput)
        BY <2>1, <4>1, Answers, Zenon
      <4>3. Len(y.out \o rest) > MaxOutput => Len(x.out \o rest) > MaxOutput
        BY <1>0, <2>1, <3>t, SameEnd, Zenon
      <4>4. g[y].ok = TRUE /\ g[y].text = y.out \o rest
        BY <4>1, <4>2, <4>3, Answers, Zenon
      <4>5. Alike(x.out \o rest, y.out \o rest)
        BY <2>1, <3>t, AlikeConcat, Zenon
      <4> QED
        BY <4>2, <4>4, <4>5, Zenon
    <3>3. CASE Finds(x) = "value"
      <4> DEFINE b == Tag(rest).before
                 xa == After(x, val)
                 ya == After(y, none)
      <4>1. /\ xa \in Progress /\ xa.rest = Tag(rest).after /\ xa.out = (x.out \o b) \o val
            /\ xa.tags = x.tags + 1 /\ Len(xa.rest) < Len(rest)
            /\ b \in Seq(Chars) /\ Tag(rest).after \in Seq(Chars)
        <5>2. /\ xa \in Progress /\ xa.rest = Tag(x.rest).after
              /\ xa.out = (x.out \o Tag(x.rest).before) \o val
              /\ xa.tags = x.tags + 1 /\ Len(xa.rest) < Len(x.rest)
              /\ Tag(x.rest).before \in Seq(Chars) /\ Tag(x.rest).after \in Seq(Chars)
          BY <1>0, <3>3, AfterType, Zenon
        <5> HIDE DEF xa
        <5> QED
          BY <2>1, <5>2, Zenon
      <4>2. /\ ya \in Progress /\ ya.rest = Tag(rest).after /\ ya.out = (y.out \o b) \o none
            /\ ya.tags = y.tags + 1
        <5>0. Finds(y) = "value"
          BY <3>0, <3>3
        <5>1. /\ ya \in Progress /\ ya.rest = Tag(y.rest).after
              /\ ya.out = (y.out \o Tag(y.rest).before) \o none
              /\ ya.tags = y.tags + 1
          BY <1>0, <5>0, AfterType, Zenon
        <5> HIDE DEF ya, none
        <5> QED
          BY <2>1, <5>1, Zenon
      <4> HIDE DEF xa, ya, b
      <4>5. Alike(xa.out, ya.out)
        <5>1. x.out \o b \in Seq(Chars) /\ y.out \o b \in Seq(Chars)
          BY <3>t, <4>1, ConcatType, Zenon
        <5>2. Alike(x.out \o b, y.out \o b)
          BY <2>1, <3>t, <4>1, AlikeConcat, Zenon
        <5>3. Alike((x.out \o b) \o val, x.out \o b)
          BY <5>1, InertConcat, Zenon
        <5>4. (y.out \o b) \o none = y.out \o b
          BY <5>1, EmptyConcat, Zenon
        <5>5. Alike((x.out \o b) \o val, y.out \o b)
          BY <5>2, <5>3, AlikeTransitive, Zenon
        <5> QED
          BY <4>1, <4>2, <5>4, <5>5, Zenon
      <4>l. Len(ya.out) <= Len(xa.out) /\ (Len(ya.out) > MaxOutput => Len(xa.out) > MaxOutput)
        <5>1. /\ Len((y.out \o b) \o none) <= Len((x.out \o b) \o val)
              /\ Len((y.out \o b) \o none) > MaxOutput => Len((x.out \o b) \o val) > MaxOutput
          BY <1>0, <2>1, <3>t, <4>1, LongerEnd, Zenon
        <5> HIDE DEF none
        <5> QED
          BY <4>1, <4>2, <5>1, Zenon
      <4>6. f[x] = f[xa] /\ ~(Len(xa.out) > MaxOutput)
        BY <1>0, <2>1, <3>3, ComesAfter, Zenon DEF xa
      <4>7. Tag(rest).after \in Q
        <5> HIDE DEF Q
        <5> QED
          BY <1>1, <4>1, Zenon
      <4>8. Told(f[xa], g[ya])
        <5>1. xa.tags = ya.tags /\ f[xa].ok
          BY <2>1, <4>1, <4>2, <4>6, Zenon
        <5> HIDE DEF Told
        <5> QED
          BY <4>1, <4>2, <4>5, <4>7, <4>l, <5>1, Zenon
      <4>9. g[y] = g[ya]
        <5>1. Finds(y) = "value"
          BY <3>0, <3>3
        <5> QED
          BY <1>0, <4>6, <4>l, <5>1, ComesAfter, Zenon DEF ya
      <4> QED
        BY <4>6, <4>8, <4>9, Zenon
    <3>4. Finds(x) \in {"none", "unclosed", "name", "unknown", "tags", "value"}
      BY FindsOne
    <3> HIDE DEF Told
    <3> QED
      BY <3>1, <3>2, <3>3, <3>4
  <2> HIDE DEF Told
  <2> QED
    BY <2>1, Zenon
<1>2. Q \in SUBSET Seq(Chars)
  OBVIOUS
<1>3. Q = Seq(Chars)
  <2> HIDE DEF Q
  <2> QED
    BY <1>1, <1>2, ShorterInduction
<1>4. p.rest \in Q
  <2>1. p.rest \in Seq(Chars)
    BY ProgressType
  <2> HIDE DEF Q
  <2> QED
    BY <1>3, <2>1
<1> QED
  BY <1>4, Zenon

(* There are finitely many places in a text. *)
LEMMA PlacesFinite ==
  ASSUME NEW T, NEW s \in Seq(T), NEW chars
  PROVE  Places(s, chars) \in SUBSET (1..Len(s)) /\ IsFiniteSet(Places(s, chars))
<1>1. Places(s, chars) \in SUBSET (1..Len(s)) /\ Len(s) \in Nat
  BY DEF Places
<1>2. IsFiniteSet(1..Len(s))
  BY <1>1, FS_Interval
<1> QED
  BY <1>1, <1>2, FS_Subset

(* h pairs the elements of A with those of B. *)
Pairs(h, A, B) ==
  /\ h \in [A -> B]
  /\ \A i, j \in A : h[i] = h[j] => i = j
  /\ \A j \in B : \E i \in A : h[i] = j

(* Texts whose places can be paired have as many of a character. *)
LEMMA SameCount ==
  ASSUME NEW T, NEW s \in Seq(T), NEW t, NEW c, NEW h,
         Pairs(h, Places(s, {c}), Places(t, {c}))
  PROVE  Count(t, c) = Count(s, c)
<1> DEFINE A == Places(s, {c})
           B == Places(t, {c})
<1>0. IsFiniteSet(A)
  BY PlacesFinite
<1>1. h \in [A -> B] /\ (\A i, j \in A : h[i] = h[j] => i = j) /\ \A j \in B : \E i \in A : h[i] = j
  BY DEF Pairs
<1> HIDE DEF A, B
<1>2. h \in Injection(A, B)
  BY <1>1 DEF Injection, IsInjective
<1>3. h \in Surjection(A, B)
  BY <1>1 DEF Surjection
<1>4. ExistsBijection(A, B)
  BY <1>2, <1>3 DEF Bijection, ExistsBijection
<1>5. Cardinality(B) = Cardinality(A)
  BY <1>0, <1>4, FS_Bijection
<1> QED
  BY <1>5 DEF Count, A, B

(* If every place of a character is kept, so is their number. *)
LEMMA KeptCount ==
  ASSUME NEW T, NEW s \in Seq(T), NEW places \in SUBSET (1..Len(s)), NEW c,
         \A i \in 1..Len(s) : s[i] = c => i \in places
  PROVE  Kept(s, places) \in Seq(T) /\ Count(Kept(s, places), c) = Count(s, c)
<1> DEFINE N == Cardinality(places)
           k == Kept(s, places)
           A == Places(k, {c})
           B == Places(s, {c})
<1>1. PICK at \in [1..N -> places] :
           /\ k = [i \in 1..N |-> s[at[i]]]
           /\ \A i \in places : \E j \in 1..N : at[j] = i
           /\ \A i, j \in 1..N : at[i] = at[j] => i = j
           /\ N \in Nat
  BY KeptPlaces
<1> HIDE DEF N, k
<1>2. ASSUME NEW i \in 1..N PROVE at[i] \in 1..Len(s) /\ s[at[i]] \in T
  <2>1. at[i] \in 1..Len(s)
    <3>1. at[i] \in places
      BY Zenon
    <3> QED
      BY <3>1, Zenon
  <2> QED
    BY <2>1, SeqElements, Zenon
<1>3. k \in Seq(T) /\ Len(k) = N /\ \A i \in 1..N : k[i] = s[at[i]]
  BY <1>1, <1>2
<1>4. \A i : i \in A <=> i \in 1..N /\ s[at[i]] = c
  BY <1>3 DEF Places
<1>5. \A i : i \in B <=> i \in 1..Len(s) /\ s[i] = c
  BY DEF Places
<1> DEFINE h == [i \in A |-> at[i]]
<1> HIDE DEF A, B
<1>6. h \in [A -> B]
  BY <1>2, <1>4, <1>5
<1>7. ASSUME NEW i \in A, NEW j \in A, h[i] = h[j] PROVE i = j
  BY <1>1, <1>4, <1>7
<1>8. ASSUME NEW j \in B PROVE \E i \in A : h[i] = j
  <2>1. j \in places /\ s[j] = c
    BY <1>5
  <2>2. PICK i \in 1..N : at[i] = j
    BY <1>1, <2>1
  <2>3. i \in A
    BY <1>4, <2>1, <2>2
  <2> QED
    BY <2>2, <2>3
<1> HIDE DEF h
<1>9. Count(s, c) = Count(k, c)
  <2>1. Pairs(h, Places(k, {c}), Places(s, {c}))
    BY <1>6, <1>7, <1>8, Zenon DEF Pairs, A, B
  <2> QED
    BY <1>3, <2>1, SameCount, Zenon
<1> QED
  BY <1>3, <1>9 DEF k

(* TrimSpace cuts off no other character than white space. *)
LEMMA TrimCount ==
  ASSUME NEW T, NEW s \in Seq(T), NEW c, c \notin Blank
  PROVE  Count(TrimSpace(s), c) = Count(s, c)
<1>0. Len(s) \in Nat
  OBVIOUS
<1>1. CASE TrimSpace(s) = <<>> /\ \A i \in 1..Len(s) : s[i] \in Blank
  <2>1. Places(s, {c}) = {}
    BY <1>1 DEF Places
  <2>2. Count(s, c) = 0
    BY <2>1, FS_EmptySet, Zenon DEF Count
  <2> QED
    BY <1>1, <2>2, CountEmpty, Zenon
<1>2. ASSUME NEW a \in 1..Len(s), NEW b \in 1..Len(s), a <= b,
             TrimSpace(s) = SubSeq(s, a, b),
             \A i \in 1..Len(s) : i < a \/ b < i => s[i] \in Blank
      PROVE  Count(TrimSpace(s), c) = Count(s, c)
  <2> DEFINE k == SubSeq(s, a, b)
             A == Places(k, {c})
             B == Places(s, {c})
  <2>1. /\ k \in Seq(T) /\ Len(k) = b - a + 1
        /\ \A i \in 1..Len(k) : k[i] = s[a + i - 1]
    BY <1>0, <1>2, SubSeqFacts
  <2> HIDE DEF k
  <2>4. \A i : i \in A <=> i \in 1..(b - a + 1) /\ s[a + i - 1] = c
    BY <2>1 DEF Places
  <2>5. \A i : i \in B <=> i \in 1..Len(s) /\ s[i] = c
    BY DEF Places
  <2> DEFINE h == [i \in A |-> a + i - 1]
  <2> HIDE DEF A, B
  <2>6. h \in [A -> B]
    <3>1. ASSUME NEW i \in A PROVE a + i - 1 \in B
      <4>1. i \in 1..(b - a + 1) /\ s[a + i - 1] = c
        BY <2>4
      <4>2. a + i - 1 \in 1..Len(s)
        BY <1>0, <4>1
      <4> QED
        BY <2>5, <4>1, <4>2
    <3> QED
      BY <3>1
  <2>7. ASSUME NEW i \in A, NEW j \in A, h[i] = h[j] PROVE i = j
    <3>1. i \in Nat /\ j \in Nat /\ a \in Nat
      BY <2>4
    <3>2. a + i - 1 = a + j - 1
      BY <2>7
    <3> QED
      BY <3>1, <3>2
  <2>8. ASSUME NEW j \in B PROVE \E i \in A : h[i] = j
    <3>1. j \in 1..Len(s) /\ s[j] = c
      BY <2>5
    <3>2. ~(j < a) /\ ~(b < j)
      BY <1>2, <3>1
    <3> DEFINE i == j - a + 1
    <3>3. i \in 1..(b - a + 1) /\ a + i - 1 = j
      BY <1>0, <3>1, <3>2
    <3>4. i \in A
      BY <2>4, <3>1, <3>3
    <3> QED
      BY <3>3, <3>4
  <2> HIDE DEF h
  <2>9. Count(s, c) = Count(k, c)
    <3>1. Pairs(h, Places(k, {c}), Places(s, {c}))
      BY <2>6, <2>7, <2>8, Zenon DEF Pairs, A, B
    <3> QED
      BY <2>1, <3>1, SameCount, Zenon
  <2> QED
    BY <1>2, <2>9 DEF k
<1> QED
  BY <1>1, <1>2, Trimmed

(* Nor do strings.Fields and strings.Join. *)
LEMMA JoinCount ==
  ASSUME NEW s \in Seq(Letters), NEW c, c \notin Blank
  PROVE  Count(JoinFields(s), c) = Count(s, c)
<1> DEFINE gap(i) == s[i] \in Blank /\ s[i + 1] \in Blank
           kept   == {i \in 1..Len(s) : ~(i < Len(s) /\ gap(i))}
           sp == " "
           spaced == [i \in 1..Len(s) |-> IF s[i] \in Blank THEN sp ELSE s[i]]
<1>1. JoinFields(s) = TrimSpace(Kept(spaced, kept))
  BY Zenon DEF JoinFields
<1>2. sp \in Letters /\ sp \in Blank
  BY DEF Letters, Blank
<1> HIDE DEF sp
<1>3. /\ spaced \in Seq(Letters) /\ Len(spaced) = Len(s)
      /\ \A i \in 1..Len(s) : spaced[i] = IF s[i] \in Blank THEN sp ELSE s[i]
  <2>1. Len(s) \in Nat /\ \A i \in 1..Len(s) : s[i] \in Letters
    OBVIOUS
  <2> HIDE DEF Letters
  <2> QED
    BY <1>2, <2>1
<1> HIDE DEF spaced
<1>4. \A i \in 1..Len(s) : spaced[i] = c <=> s[i] = c
  BY <1>2, <1>3
<1>5. Count(spaced, c) = Count(s, c)
  <2>1. Places(spaced, {c}) = Places(s, {c})
    BY <1>3, <1>4 DEF Places
  <2> QED
    BY <2>1 DEF Count
<1>6. kept \in SUBSET (1..Len(spaced)) /\ \A i \in 1..Len(spaced) : spaced[i] = c => i \in kept
  BY <1>3, <1>4
<1> HIDE DEF kept
<1>7. /\ Kept(spaced, kept) \in Seq(Letters)
      /\ Count(Kept(spaced, kept), c) = Count(spaced, c)
  BY <1>3, <1>6, KeptCount, Zenon
<1>8. Count(TrimSpace(Kept(spaced, kept)), c) = Count(Kept(spaced, kept), c)
  BY <1>7, TrimCount, Zenon
<1> QED
  BY <1>1, <1>5, <1>7, <1>8, Zenon

(* The plain text made of a text that is alike has as many letters. *)
LEMMA PlainAlike ==
  ASSUME NEW s \in Seq(Chars), NEW t \in Seq(Chars), Alike(s, t)
  PROVE  Count(PlainTextFrom(s), "b") = Count(PlainTextFrom(t), "b")
<1>1. Strip(s).out \in Seq(Letters) /\ Strip(t).out \in Seq(Letters)
  <2>0. "a" \in Chars
    BY TemplateAssumption
  <2>1. Strip(s) \in Stripped /\ Strip(t) \in Stripped
    BY <2>0, StripAppend, Zenon
  <2> QED
    BY <2>1 DEF Stripped
<1>2. "b" \notin Blank
  BY DEF Blank
<1>3. /\ Count(PlainTextFrom(s), "b") = Count(Strip(s).out, "b")
      /\ Count(PlainTextFrom(t), "b") = Count(Strip(t).out, "b")
  BY <1>1, <1>2, JoinCount, Zenon DEF PlainTextFrom
<1> QED
  BY <1>3, Zenon DEF Alike

-----------------------------------------------------------------------------
(* What is rendered, stored and built of a call.                           *)

(* Without a tag the rest is copied. *)
LEMMA ComesEnd ==
  ASSUME NEW f, NEW val \in Seq(Chars), Scans(f, val), NEW s \in Progress, Finds(s) = "none"
  PROVE  f[s] = Done(s.out \o s.rest)
  BY ComesTo

(* A template of white space has no tag and renders to itself. *)
LEMMA BlankRenders ==
  ASSUME NEW text \in Seq(Chars), \A i \in 1..Len(text) : text[i] \in Blank,
         NEW v \in Seq(Chars), Render(text, With(v), FALSE).ok
  PROVE  Render(text, With(v), FALSE).text = text
<1> DEFINE made == Render(text, With(v), FALSE)
           c == "{"
           s == Start(text)
<1>1. c \notin Blank
  BY Zenon DEF Blank
<1> HIDE DEF c
<1>2. IndexPair(text, c) = 0
  <2>1. ASSUME IndexPair(text, c) # 0 PROVE FALSE
    <3>1. PairAt(text, c, IndexPair(text, c))
      BY <2>1, FoundPair, Zenon
    <3>2. IndexPair(text, c) \in 1..Len(text) /\ text[IndexPair(text, c)] = c
      BY <3>1, Zenon DEF PairAt
    <3> QED
      BY <1>1, <3>2, Zenon
  <2> QED
    BY <2>1
<1>3. Tag(text) = [kind |-> "none"]
  <2>1. IndexPair(text, "{") = 0
    BY <1>2 DEF c
  <2> QED
    BY <2>1, TagFound, Zenon
<1>4. s \in Progress /\ s.rest = text /\ s.out = <<>>
  BY StartType, Zenon
<1>5. Finds(s) = "none"
  <2>1. Tag(text).kind = "none"
    BY <1>3
  <2> HIDE DEF s
  <2> QED
    BY <1>4, <2>1 DEF Finds
<1>6. made = IF Len(text) > MaxTemplate THEN Failed("template") ELSE Scan(text, With(v), FALSE)
  BY RenderIs, Zenon
<1>7. ~(Len(text) > MaxTemplate)
  <2>1. ASSUME Len(text) > MaxTemplate PROVE FALSE
    <3>1. made = Failed("template")
      BY <1>6, <2>1, Zenon
    <3>2. made.ok
      OBVIOUS
    <3> HIDE DEF made
    <3> QED
      BY <3>1, <3>2, Answers, Zenon
  <2> QED
    BY <2>1, Zenon
<1>v. Written(v, FALSE) = v
  BY Zenon DEF Written
<1>8. PICK f : Scans(f, v) /\ \A t : Scan(t, With(v), FALSE) = f[Start(t)]
  <2>1. \E f : Scans(f, Written(v, FALSE)) /\ \A t : Scan(t, With(v), FALSE) = f[Start(t)]
    BY ScanLoop, Zenon
  <2> QED
    BY <1>v, <2>1, Zenon
<1>9. made = f[s] /\ made.ok
  BY <1>6, <1>7, <1>8, Zenon
<1> HIDE DEF made, s
<1>10. f[s] = Done(s.out \o s.rest)
  BY <1>4, <1>5, <1>8, ComesEnd, Zenon
<1>11. s.out \o s.rest = text
  <2>1. <<>> \o text = text
    OBVIOUS
  <2> QED
    BY <1>4, <2>1, Zenon
<1>12. made.text = text
  BY <1>9, <1>10, <1>11, Answers, Zenon
<1> QED
  BY <1>12 DEF made

(* What is rendered is a text. *)
LEMMA RenderType ==
  ASSUME NEW tmpl \in Seq(Chars), NEW v \in Seq(Chars), NEW escape \in BOOLEAN
  PROVE  Render(tmpl, With(v), escape).text \in Seq(Chars)
<1> DEFINE made == Render(tmpl, With(v), escape)
           val == Written(v, escape)
<1>1. made = IF Len(tmpl) > MaxTemplate THEN Failed("template") ELSE Scan(tmpl, With(v), escape)
  BY RenderIs, Zenon
<1>2. val \in Seq(Chars)
  BY WrittenType
<1>3. PICK f : Scans(f, val) /\ \A t : Scan(t, With(v), escape) = f[Start(t)]
  BY ScanLoop
<1>4. Start(tmpl) \in Progress
  BY StartType
<1> HIDE DEF made, val
<1>5. f[Start(tmpl)] \in Answer
  BY <1>3, <1>4, Zenon DEF Scans
<1>6. Failed("template") \in Answer
  BY DEF Failed, Answer, Whys
<1>7. made \in Answer
  BY <1>1, <1>3, <1>5, <1>6, Zenon
<1> QED
  BY <1>7, AnswerText DEF made

(* A value that is escaped leaves the letters around it as they were. *)
LEMMA RenderedAlike ==
  ASSUME NEW tmpl \in Seq(Chars), NEW v \in VarValues, Render(tmpl, With(v), TRUE).ok
  PROVE  Alike(Render(tmpl, With(v), TRUE).text, Render(tmpl, With(<<>>), TRUE).text)
<1> DEFINE made == Render(tmpl, With(v), TRUE)
           none == <<>>
           bare == Render(tmpl, With(none), TRUE)
           val == Escape(v)
           s == Start(tmpl)
<1>0. v \in Seq(Chars) /\ none \in Seq(Chars)
  <2>1. VarValues \subseteq Seq(Chars \ {"mark", "b"})
    BY InputAssumption, Zenon
  <2> QED
    BY <2>1
<1>1. val \in Seq(Inert)
  <2> DEFINE T == Chars \ {"mark", "b"}
  <2>1. v \in Seq(T)
    BY InputAssumption, Zenon
  <2>2. T \ {"<", ">"} \subseteq Inert
    BY DEF Inert
  <2>3. {"a", "m", "p", "l", "t", "g", "&", ";"} \subseteq Inert
    BY TemplateAssumption DEF Inert
  <2> HIDE DEF T
  <2> QED
    BY <2>1, <2>2, <2>3, EscapeType, Zenon
<1>2. Written(v, TRUE) = val /\ Written(none, TRUE) = none
  BY EscapeEmpty, Zenon DEF Written
<1>3. made = IF Len(tmpl) > MaxTemplate THEN Failed("template") ELSE Scan(tmpl, With(v), TRUE)
  BY <1>0, RenderIs, Zenon
<1>4. bare = IF Len(tmpl) > MaxTemplate THEN Failed("template") ELSE Scan(tmpl, With(none), TRUE)
  BY <1>0, RenderIs, Zenon
<1>5. PICK f : Scans(f, val) /\ \A t : Scan(t, With(v), TRUE) = f[Start(t)]
  <2>1. \E f : Scans(f, Written(v, TRUE)) /\ \A t : Scan(t, With(v), TRUE) = f[Start(t)]
    BY <1>0, ScanLoop, Zenon
  <2> QED
    BY <1>2, <2>1, Zenon
<1>6. PICK g : Scans(g, none) /\ \A t : Scan(t, With(none), TRUE) = g[Start(t)]
  <2>1. \E h : Scans(h, Written(none, TRUE)) /\ \A t : Scan(t, With(none), TRUE) = h[Start(t)]
    <3> HIDE DEF none
    <3> QED
      BY <1>0, ScanLoop, Zenon
  <2> QED
    BY <1>2, <2>1, Zenon
<1>m. made.ok
  OBVIOUS
<1> HIDE DEF made, bare, val, none
<1>7. ~(Len(tmpl) > MaxTemplate)
  <2>1. ASSUME Len(tmpl) > MaxTemplate PROVE FALSE
    <3>1. made = Failed("template")
      BY <1>3, <2>1, Zenon
    <3> QED
      BY <1>m, <3>1, Answers, Zenon
  <2> QED
    BY <2>1
<1>8. made = f[s] /\ bare = g[s]
  BY <1>3, <1>4, <1>5, <1>6, <1>7, Zenon
<1>9. s \in Progress /\ s.out \in Seq(Chars)
  BY StartType, ProgressType, Zenon
<1> HIDE DEF s
<1>10. Alike(s.out, s.out) /\ Len(s.out) <= Len(s.out)
  <2>1. Len(s.out) \in Nat
    BY <1>9, SeqElements, Zenon
  <2>2. Len(s.out) <= Len(s.out)
    BY <2>1
  <2> QED
    BY <2>2, AlikeSelf, Zenon
<1>11. Alike(f[s].text, g[s].text)
  <2>1. f[s].ok
    BY <1>m, <1>8, Zenon
  <2>2. Scans(f, val) /\ Scans(g, <<>>)
    BY <1>5, <1>6, Zenon DEF none
  <2> QED
    BY <1>1, <1>9, <1>10, <2>1, <2>2, HidesNothing, Zenon
<1> QED
  BY <1>8, <1>11, Zenon DEF made, bare, none

(* What is left of the letters of a call's HTML in the text made for it. *)
KeepsText(req, text) ==
  TrimSpace(req.text) = <<>> =>
    Count(text, "b") = Count(PlainTextFrom(Render(req.html, With(<<>>), TRUE).text), "b")

(* The fields of a call are texts, and "a" has one of the values. *)
CallIsText(req) ==
  /\ {"html", "text", "variables"} \subseteq DOMAIN req
  /\ req.html \in Seq(Chars) /\ req.text \in Seq(Chars)
  /\ \E v \in VarValues : req.variables = With(v)

(* buildMessage stores all of it. *)
LEMMA StoredKeepsText ==
  ASSUME NEW req, CallIsText(req), NEW suppressed, BuildMessage(req, suppressed).ok
  PROVE  KeepsText(req, TextPart(BuildMessage(req, suppressed)))
<1> DEFINE msg == BuildMessage(req, suppressed)
<1>1. PICK v \in VarValues : req.variables = With(v)
  BY DEF CallIsText
<1>2. req.html \in Seq(Chars) /\ req.text \in Seq(Chars)
  BY DEF CallIsText
<1>v. v \in Seq(Chars)
  <2>1. VarValues \subseteq Seq(Chars \ {"mark", "b"})
    BY InputAssumption, Zenon
  <2> QED
    BY <2>1
<1> DEFINE html == Render(req.html, With(v), TRUE)
           text == Render(req.text, With(v), FALSE)
           bare == Render(req.html, With(<<>>), TRUE)
<1>3. html.ok /\ text.ok /\ msg.html = html.text /\ msg.text = text.text
  <2>1. /\ Render(req.html, req.variables, TRUE).ok /\ Render(req.text, req.variables, FALSE).ok
        /\ msg.html = Render(req.html, req.variables, TRUE).text
        /\ msg.text = Render(req.text, req.variables, FALSE).text
    BY DEF BuildMessage, Refused
  <2> HIDE DEF msg
  <2> QED
    BY <1>1, <2>1, Zenon
<1>t. html.text \in Seq(Chars) /\ bare.text \in Seq(Chars)
  <2>1. <<>> \in Seq(Chars)
    OBVIOUS
  <2> QED
    BY <1>2, <1>v, <2>1, RenderType, Zenon
<1> SUFFICES ASSUME TrimSpace(req.text) = <<>>
             PROVE  Count(TextPart(msg), "b") = Count(PlainTextFrom(bare.text), "b")
  BY Zenon DEF KeepsText
<1>4. \A i \in 1..Len(req.text) : req.text[i] \in Blank
  <2>1. ASSUME NEW a \in 1..Len(req.text), NEW b \in 1..Len(req.text), a <= b,
               TrimSpace(req.text) = SubSeq(req.text, a, b)
        PROVE  FALSE
    <3> DEFINE r == req.text
    <3>0. r \in Seq(Chars) /\ a \in 1..Len(r) /\ b \in 1..Len(r) /\ SubSeq(r, a, b) = <<>>
      BY <1>2, <2>1
    <3> HIDE DEF r
    <3>1. Len(SubSeq(r, a, b)) = b - a + 1
      BY <2>1, <3>0
    <3> QED
      BY <2>1, <3>0, <3>1
  <2> QED
    BY <1>2, <2>1, Trimmed, Zenon
<1>5. text.text = req.text
  BY <1>2, <1>3, <1>4, <1>v, BlankRenders, Zenon
<1>6. Alike(html.text, bare.text)
  BY <1>2, <1>3, RenderedAlike, Zenon
<1> HIDE DEF msg, html, text, bare
<1>7. TextPart(msg) = PlainTextFrom(html.text)
  <2>1. TrimSpace(msg.text) = <<>>
    BY <1>3, <1>5, Zenon
  <2> QED
    BY <1>3, <2>1, Zenon DEF TextPart
<1> QED
  BY <1>6, <1>7, <1>t, PlainAlike, Zenon

(* What is written for a call, and what is stored and built of it. *)
ContentInv ==
  task = "mail" =>
    /\ CallIsText(input)
    /\ stage = "accepted" => KeepsText(input, TextPart(result))
    /\ stage = "built" => KeepsText(input, result.text)

(* Calls start empty. *)
LEMMA InitContent == Init => ContentInv
<1> SUFFICES ASSUME Init, task = "mail" PROVE ContentInv
  BY DEF ContentInv
<1>1. PICK v \in VarValues : input = Draft(v)
  BY DEF Init
<1>2. /\ input.html = <<>> /\ input.text = <<>> /\ input.variables = With(v)
      /\ {"html", "text", "variables"} \subseteq DOMAIN input
  BY <1>1 DEF Draft, With
<1>3. CallIsText(input)
  <2>1. <<>> \in Seq(Chars)
    OBVIOUS
  <2> QED
    BY <1>2, <2>1, Zenon DEF CallIsText
<1>4. stage = "writing"
  BY DEF Init
<1> QED
  BY <1>3, <1>4 DEF ContentInv

(* A call stays one of texts, whatever is edited. *)
LEMMA EditKeepsText ==
  ASSUME NEW req, CallIsText(req), NEW field, NEW value, NEW n,
         field \in {"html", "text"} => value \in Seq(Chars), field # "variables"
  PROVE  CallIsText([req EXCEPT ![field] = value, !.edits = n])
<1> DEFINE new == [req EXCEPT ![field] = value, !.edits = n]
<1>0. /\ {"html", "text", "variables"} \subseteq DOMAIN req
      /\ req.html \in Seq(Chars) /\ req.text \in Seq(Chars)
      /\ \E v \in VarValues : req.variables = With(v)
  BY DEF CallIsText
<1>1. DOMAIN new = DOMAIN req
  OBVIOUS
<1>2. new.variables = req.variables
  BY <1>0
<1>3. new.html = IF field = "html" THEN value ELSE req.html
  BY <1>0
<1>4. new.text = IF field = "text" THEN value ELSE req.text
  BY <1>0
<1> HIDE DEF new
<1>5. new.html \in Seq(Chars) /\ new.text \in Seq(Chars)
  BY <1>0, <1>3, <1>4
<1> QED
  BY <1>0, <1>1, <1>2, <1>5, Zenon DEF CallIsText, new

(* Every step keeps it so. *)
LEMMA NextContent ==
  ASSUME ContentInv, MailInv, [Next]_vars
  PROVE  ContentInv'
<1> SUFFICES ASSUME task' = "mail" PROVE ContentInv'
  BY DEF ContentInv
<1>0. task = "mail" /\ task' = "mail"
  BY StepsOfATask
<1>i. CallIsText(input)
  BY <1>0 DEF ContentInv
<1>1. CASE EditCall
  <2>0. stage' = "writing"
    BY <1>1 DEF EditCall, Edit
  <2>1. PICK field, value :
          /\ Edit(field, value)
          /\ field \in {"html", "text"} => value \in Seq(Chars)
          /\ field # "variables"
    <3>0. input.html \in Seq(Chars) /\ input.text \in Seq(Chars)
      BY <1>i DEF CallIsText
    <3>c. \A piece \in ContentPieces : piece \in Seq(Chars)
      <4>1. ContentPieces \subseteq Seq(Chars \ {"mark"})
        BY InputAssumption, Zenon
      <4> QED
        BY <4>1
    <3>1. CASE \E field \in {"subject", "html", "text"}, piece \in ContentPieces :
                 Edit(field, input[field] \o piece)
      <4>1. PICK field \in {"subject", "html", "text"}, piece \in ContentPieces :
                 Edit(field, input[field] \o piece)
        BY <3>1
      <4>2. field \in {"html", "text"} => input[field] \o piece \in Seq(Chars)
        BY <3>0, <3>c
      <4> QED
        BY <4>1, <4>2
    <3>2. CASE \E list \in ToLists : Edit("to", list)
      BY <3>2
    <3>3. CASE \E set \in HeaderSets : Edit("headers", set)
      BY <3>3
    <3>4. CASE \E set \in SUBSET Mailboxes : Edit("suppressed", set)
      BY <3>4
    <3>5. CASE Edit("from", [OK EXCEPT !.valid = FALSE])
      BY <3>5
    <3>6. CASE \E valid \in BOOLEAN : Edit("replyTo", {[OK EXCEPT !.valid = valid]})
      BY <3>6
    <3>7. CASE Edit("tags", {<<"newline">>})
      BY <3>7
    <3> QED
      BY <1>1, <3>1, <3>2, <3>3, <3>4, <3>5, <3>6, <3>7 DEF EditCall
  <2>2. input' = [input EXCEPT ![field] = value, !.edits = input.edits + 1]
    BY <2>1 DEF Edit
  <2>3. CallIsText([input EXCEPT ![field] = value, !.edits = input.edits + 1])
    BY <1>i, <2>1, EditKeepsText, Zenon
  <2>4. CallIsText(input')
    BY <2>2, <2>3, Zenon
  <2> QED
    BY <2>0, <2>4 DEF ContentInv, CallIsText
<1>2. CASE HandleSend
  <2>1. /\ input' = input
        /\ result' = BuildMessage(input, input.suppressed)
        /\ stage' = IF result'.ok THEN "accepted" ELSE "refused"
    BY <1>2 DEF HandleSend
  <2>i. CallIsText(input')
    BY <1>i, <2>1, Zenon
  <2>2. CASE result'.ok
    <3>1. KeepsText(input', TextPart(result'))
      <4>1. BuildMessage(input, input.suppressed).ok
        BY <2>1, <2>2, Zenon
      <4>2. KeepsText(input, TextPart(BuildMessage(input, input.suppressed)))
        BY <1>i, <4>1, StoredKeepsText, Zenon
      <4> QED
        BY <2>1, <4>2, Zenon
    <3>2. stage' = "accepted"
      BY <2>1, <2>2
    <3> QED
      BY <2>i, <3>1, <3>2 DEF ContentInv
  <2>3. CASE ~result'.ok
    <3>1. stage' = "refused"
      BY <2>1, <2>3
    <3> QED
      BY <2>i, <3>1 DEF ContentInv
  <2> QED
    BY <2>2, <2>3
<1>3. CASE WorkerBuilds
  <2>1. /\ stage = "accepted" /\ stage' = "built" /\ input' = input
        /\ result' = Build(Envelope(result))
    BY <1>3 DEF WorkerBuilds
  <2>2. Buildable(result)
    BY <1>0, <2>1 DEF MailInv
  <2>3. result'.text = TextPart(result)
    BY <2>1, <2>2, BuiltOf, Zenon
  <2>4. KeepsText(input, TextPart(result))
    BY <1>0, <2>1 DEF ContentInv
  <2>5. CallIsText(input') /\ KeepsText(input', result'.text)
    BY <1>i, <2>1, <2>3, <2>4, Zenon
  <2> QED
    BY <2>1, <2>5 DEF ContentInv
<1>4. CASE UNCHANGED vars
  <2>1. input' = input /\ result' = result /\ stage' = stage
    BY <1>4 DEF vars
  <2>2. /\ CallIsText(input')
        /\ stage' = "accepted" => KeepsText(input', TextPart(result'))
        /\ stage' = "built" => KeepsText(input', result'.text)
    BY <1>0, <1>i, <2>1, Zenon DEF ContentInv
  <2> QED
    BY <2>2 DEF ContentInv
<1> QED
  BY <1>0, <1>1, <1>2, <1>3, <1>4, StepsOfATask

(* What was accepted is built and arrives as the call said it, but for its *)
(* reply_to; the text made of its HTML keeps every letter around the tags  *)
(* whatever the values look like; and it goes once to every mailbox.       *)
THEOREM AcceptedMailArrives == Spec => []AcceptedMailKeepsItsContent
<1>1. Init => MailInv
  BY DEF Init, MailInv
<1>2. ContentInv => ValuesHideNoText
  BY Zenon DEF ContentInv, ValuesHideNoText, KeepsText
<1>3. AcceptedIsBuilt /\ ContentArrives /\ EachMailboxOnce /\ ValuesHideNoText
        => AcceptedMailKeepsItsContent
  BY DEF AcceptedMailKeepsItsContent
<1>4. Spec => []ValuesHideNoText
  BY <1>1, <1>2, InitContent, InitRecipients, NextRecipients, NextMail, NextContent, PTL
     DEF Spec
<1> QED
  BY <1>3, <1>4, AcceptedMailIsBuilt, ContentIsDelivered, EachMailboxIsServedOnce, PTL
=============================================================================
