------------------------------ MODULE MCMailFlow ------------------------------
(***************************************************************************)
(* TLC instances of MailFlow: with MCTo one call goes to one address and   *)
(* the other to both; with MCSingleTo every call has a single recipient.   *)
(***************************************************************************)
EXTENDS MailFlow

CONSTANTS m1, m2, a1, a2

MCTo == [m \in Messages |-> IF m = m1 THEN <<a1>> ELSE <<a1, a2>>]
MCSingleTo == [m \in Messages |-> <<a1>>]
=============================================================================
