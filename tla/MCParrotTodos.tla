---------------------------- MODULE MCParrotTodos ----------------------------
(* ParrotTodos for TLC: as many closed nodes as mails may be due at a LIMIT of
   one, so that a run may leave a todo out. *)
EXTENDS ParrotTodos

=============================================================================
