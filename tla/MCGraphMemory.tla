---------------------------- MODULE MCGraphMemory ----------------------------
(* GraphMemory for TLC: two turns of up to three facts each, about a
   single-valued predicate with two values and a multi-valued one. *)
EXTENDS GraphMemory, TLC

CONSTANTS status, skills, v1, v2, v3

Sayable == {[pred |-> status, value |-> v1], [pred |-> status, value |-> v2],
            [pred |-> skills, value |-> v3]}

StatusOnly == {s \in Sayable : s.pred = status}

(* Turns and the values of status are interchangeable; no liveness is checked. *)
Interchangeable == Permutations(Turns) \union Permutations({v1, v2})

=============================================================================
