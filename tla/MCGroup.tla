------------------------------ MODULE MCGroup ------------------------------
(* Small instances of GroupService for TLC. *)
EXTENDS GroupService, TLC

\* The commands whose loss or order matters in a group, the rest where nothing is stored.
Text(w, a) == [word |-> w, arg |-> a]
MCSends ==
  Rooms \X {Text("bot", "off"), Text("bot", "on"), Text("set", "dnd5e"), Text("ext off", "coc7"), Text("setcoc", "2"),
            Text("st", "")}
  \cup {Private} \X {Text("bot", "off"), Text("botlist", "add"), Text("nn", "name"), Text("set", "clr"), Text("set", "dice"),
                     Text("ext on", "dnd5e"), Text("ext off", "COC7"), Text("ri", ""), Text("st", "")}

Symmetry == Permutations(Handlers)

\* Records count by what they hold and by who refers to them, not by their identity.
Seen(o) == IF o = Null THEN <<>> ELSE <<heap[o], {h \in Handlers : job[h].obj = o}, {g \in Groups : cache[g] = o}>>
View    == <<manager, file, [g \in Groups |-> Seen(cache[g])], [h \in Handlers |-> [job[h] EXCEPT !.obj = Seen(@)]], hist, count>>

\* Groups have nothing in common: the messages of a behaviour are of one.
OneGroup == \A g, k \in Groups : g # k => ~((cache[g] # Null \/ Busy(g) # {}) /\ (cache[k] # Null \/ Busy(k) # {}))
=============================================================================
