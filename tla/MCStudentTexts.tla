---------------------------- MODULE MCStudentTexts ----------------------------
(* StudentTexts for TLC: one START text and one ordinary text, each delivered
   up to twice, two deliveries at a time. *)
EXTENDS StudentTexts

=============================================================================
