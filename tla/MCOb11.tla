-------------------------------- MODULE MCOb11 ------------------------------
(* Small instances of Ob11 for TLC. *)
EXTENDS Ob11, TLC

Symmetry == Permutations(Sessions) \cup Permutations(Calls)

\* What is in the channel of no call, echoes of todo that are gone and what became of a session
\* that nothing refers to do not count: no step and no property looks at them.
Matters(s) == pc[s] # "gone" \/ s \in {apiSession, eventSession} \/ \E c \in Calls : ses[c] = s

View == <<slots, role, old, cleared, {s \in lost : Matters(s)}, running, ctxDone,
          [s \in Sessions |-> IF Matters(s) THEN conn[s] ELSE "closed"], pc, mid, pending, frame, call, ses,
          [a \in Agents |-> todo[a] \cap pending], [c \in Calls |-> IF call[c] = "idle" THEN "empty" ELSE chan[c]]>>
=============================================================================
