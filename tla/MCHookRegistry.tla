--------------------------- MODULE MCHookRegistry ---------------------------
(* The snapshot a run has finished with is no part of what comes next. *)
EXTENDS HookRegistry

Symmetry == Permutations(Registrars) \cup Permutations(Runners)

View == <<seq, items, index, drawn, [r \in Runners |-> IF pos[r] = 0 THEN <<>> ELSE snap[r]],
          pos, time>>
=============================================================================
