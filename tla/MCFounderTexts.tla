---------------------------- MODULE MCFounderTexts ----------------------------
(* FounderTexts for TLC: every link of one phone. *)
EXTENDS FounderTexts

CONSTANT phone1

OnePhone == [l \in Links |-> phone1]

=============================================================================
