--------------------------- MODULE MCCharCommands ---------------------------
(* Small instances of CharCommands for TLC. *)
EXTENDS CharCommands, FiniteSets, TLC

Symmetry == Permutations(Handlers) \cup Permutations(Names) \cup Permutations(Cards) \cup Permutations(Groups)

\* Objects count by what they hold and by who refers to them, not by their identity; what a job
\* remembers for the properties counts as long as they look at it.
Holders(o) == {<<h, "cur">> : h \in {i \in Handlers : job[i].cur = o}} \cup {<<h, "src">> : h \in {i \in Handlers : job[i].src = o}}
Seen(o)    == IF o = Null THEN <<>> ELSE <<heap[o], Holders(o), \E id \in Ids : cache[id] = o>>

View == <<stored, bound, [id \in Ids |-> Seen(cache[id])],
          [h \in Handlers |-> [job[h] EXCEPT !.cur = Seen(@), !.src = Seen(@),
                                               !.was = IF job[h].alone /\ ~job[h].blind THEN @ ELSE Blank]], issued, ran, clash>>

\* At first the store holds two cards at most, those of commands and default cards together.
MCInit == Init /\ Cardinality({id \in Ids : stored[id] # Absent}) <= 2
MCSpec == MCInit /\ [][Next]_vars
=============================================================================
