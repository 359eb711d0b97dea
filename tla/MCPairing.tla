------------------------------ MODULE MCPairing ------------------------------
(* Pairing for TLC: one student with two LinkedIn identities and two phones,
   two codes, two requests at a time. *)
EXTENDS Pairing

=============================================================================
