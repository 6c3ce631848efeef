--------------------------- MODULE DestinationGuard ---------------------------
(***************************************************************************)
(* Where a webhook may be sent: the addresses netguard refuses, the checks *)
(* of a URL and those of a redirect (internal/netguard/netguard.go).       *)
(*                                                                         *)
(* An address is an IPv4 address as four octets; IPv6 addresses are left   *)
(* out. A URL is whether scheme and port are allowed, and its host: an     *)
(* address, or a name, which is the string "localhost" or another.         *)
(***************************************************************************)
EXTENDS Naturals, Sequences

CONSTANT MaxRedirects     \* maxRedirects of netguard.Client

ASSUME GuardAssumption == MaxRedirects \in Nat \ {0}

Octet   == 0..255
Address == Octet \X Octet \X Octet \X Octet
URL     == [scheme : BOOLEAN, port : BOOLEAN, named : BOOLEAN, name : STRING,
            addr : Address]

(* IsBlocked: the octets it looks at, and the multicast addresses of       *)
(* netip.Addr's own predicates.                                            *)
IsBlocked(a) ==
  \/ a[1] \in {0, 10, 127}
  \/ a[1] \in 224..239                          \* IsMulticast
  \/ a[1] >= 240
  \/ a[1] = 169 /\ a[2] = 254
  \/ a[1] = 172 /\ a[2] >= 16 /\ a[2] <= 31
  \/ a[1] = 192 /\ a[2] = 168
  \/ a[1] = 100 /\ a[2] >= 64 /\ a[2] <= 127
  \/ a[1] = 192 /\ a[2] = 0 /\ a[3] = 0

(* ValidateURL. *)
ValidURL(u) ==
  /\ u.scheme /\ u.port
  /\ u.named => u.name # "localhost"
  /\ ~u.named => ~IsBlocked(u.addr)

(* Mutant: one of the answers has to be allowed. *)
MayDialMutant(answers) == \E i \in 1..Len(answers) : ~IsBlocked(answers[i])

(* DialContext: every answer of the resolver has to be allowed, and the    *)
(* first is dialled.                                                       *)
MayDial(answers) == \A i \in 1..Len(answers) : ~IsBlocked(answers[i])

(* Mutant: the request at hand is not counted. *)
MayFollowMutant(made, u) == made <= MaxRedirects /\ ValidURL(u)

(* CheckRedirect, after so many requests. *)
MayFollow(made, u) == made < MaxRedirects /\ ValidURL(u)
=============================================================================
