---------------------------- MODULE MCAttrsCache ----------------------------
(* Small instances of AttrsCache for TLC. *)
EXTENDS AttrsCache, TLC

Symmetry == Permutations(Objs) \cup Permutations(Handlers)

\* What an unreferenced object holds is never read again, nor what a dead process had in memory.
View ==
  IF up
  THEN <<cache, [o \in Objs |-> IF Free(o) THEN <<>> ELSE <<data[o], saved[o]>>], disk, pc, req,
         held, copy, savePc, toVisit, batch, issued, history>>
  ELSE <<disk, issued, gone, [id \in Ids |-> races[id] \cap {"revive"}]>>
=============================================================================
