--------------------------- MODULE MCSessionTickets ---------------------------
(***************************************************************************)
(* SessionTickets for TLC: client objects are interchangeable.             *)
(***************************************************************************)
EXTENDS SessionTickets, TLC

ClientSymmetry == Permutations(Clients)
=============================================================================
