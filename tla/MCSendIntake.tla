----------------------------- MODULE MCSendIntake -----------------------------
(***************************************************************************)
(* TLC instances of SendIntake.                                            *)
(***************************************************************************)
EXTENDS SendIntake, TLC

(* Every body goes to everyone, so suppressing everyone refuses a call.    *)
MCTo == [b \in Bodies |-> Addresses]

(* Handlers are interchangeable. *)
HandlerSymmetry == Permutations(Handlers)
=============================================================================
